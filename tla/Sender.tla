------------------------------- MODULE Sender -------------------------------
(***************************************************************************)
(* pkg/network/network.go, Sender: a map of one connection per address,    *)
(* guarded by connsMux, and goroutines that send frames over them.         *)
(* Broadcast runs one goroutine per address and waits for all of them.     *)
(* The connection is looked up under the lock and written to without it:   *)
(* between two steps of one goroutine another one, or Close, may close the *)
(* connection, drop it from the map, or put another one in its place.      *)
(*                                                                         *)
(* A connection is "live" until it is closed on this side; the other end   *)
(* may break it at any time, which only a write can notice.  Closed        *)
(* connections nobody refers to are dialled again as new ones.  What a     *)
(* call answers is left out; the goroutine of cleanupIdleConnections works *)
(* on idleConns, which nothing ever fills, and is left out too.            *)
(***************************************************************************)
EXTENDS Naturals, FiniteSets, Sequences

CONSTANTS
  Callers,     (* goroutines that call Send or Broadcast on this sender          *)
  Addrs,       (* addresses, as the strings that are the keys of the map         *)
  Targets,     (* Targets[c]: the list of addresses caller c sends to            *)
  Conns,       (* connections                                                    *)
  NoConn,      (* no entry in the map                                            *)
  NoOne        (* connsMux is free                                               *)

(* <<c, i>> is the goroutine that sends to the i-th address of caller c: a *)
(* goroutine of a broadcast, or the caller itself in a plain Send.         *)
Tasks == UNION {{c} \X DOMAIN Targets[c] : c \in Callers}
Addr(t) == Targets[t[1]][t[2]]

ASSUME SenderAssumption ==
  /\ \A c \in Callers : Targets[c] \in Seq(Addrs) /\ Targets[c] # <<>>
  /\ NoConn \notin Conns
  /\ NoOne \notin Tasks

VARIABLES
  conns,      (* Sender.conns                                                    *)
  connsMux,   (* Sender.connsMux: the goroutine that holds it for writing        *)
  status,     (* status[k]: "closed", "live", or "broken" by the other end       *)
  deadline,   (* deadline[k]: a write deadline is set on k                       *)
  stream,     (* stream[k]: what the other end can make of the bytes sent so far:*)
              (* whole frames, the header of a frame, a torn last frame, garbage *)
  pc, conn,   (* per goroutine: where it is, the connection it uses              *)
  shared      (* history: addresses with two sends under way at the same time    *)

vars == <<conns, connsMux, status, deadline, stream, pc, conn, shared>>

Steps == {"idle", "lookup", "check", "alive", "stale", "lock", "locked", "relock",
          "deadline", "header", "body", "failed"}
Connected == {"check", "alive", "stale", "deadline", "header", "body", "failed"}

Whole == <<"whole">>
Torn == <<"torn">>
Garbage == <<"garbage">>
HeaderOf(t) == <<"header", t>>
StreamStates == {Whole, Torn, Garbage} \cup {HeaderOf(t) : t \in Tasks}

TypeOK ==
  /\ conns \in [Addrs -> Conns \cup {NoConn}]
  /\ connsMux \in Tasks \cup {NoOne}
  /\ status \in [Conns -> {"closed", "live", "broken"}]
  /\ deadline \in [Conns -> BOOLEAN]
  /\ stream \in [Conns -> StreamStates]
  /\ pc \in [Tasks -> Steps]
  /\ conn \in [Tasks -> Conns \cup {NoConn}]
  /\ shared \subseteq Addrs
  /\ \A t \in Tasks : pc[t] \in Connected => conn[t] # NoConn

(* NewSender *)
Init ==
  /\ conns = [a \in Addrs |-> NoConn]
  /\ connsMux = NoOne
  /\ status = [k \in Conns |-> "closed"]
  /\ deadline = [k \in Conns |-> FALSE]
  /\ stream = [k \in Conns |-> Whole]
  /\ pc = [t \in Tasks |-> "idle"]
  /\ conn = [t \in Tasks |-> NoConn]
  /\ shared = {}

-----------------------------------------------------------------------------
connVars == <<status, deadline, stream>>

TasksOf(c) == {t \in Tasks : t[1] = c}
CallerIsFree(c) == \A t \in TasksOf(c) : pc[t] = "idle"

(* The addresses two goroutines serve at once. *)
Overlaps(p) ==
  {a \in Addrs : \E t, u \in Tasks : /\ t # u /\ Addr(t) = a /\ Addr(u) = a
                                     /\ p[t] # "idle" /\ p[u] # "idle"}

(* Send, called by itself. *)
Send(t) ==
  /\ CallerIsFree(t[1])
  /\ pc' = [pc EXCEPT ![t] = "lookup"]
  /\ shared' = shared \cup Overlaps(pc')
  /\ UNCHANGED <<conns, connsMux, connVars, conn>>

Broadcast(c) ==
  /\ CallerIsFree(c)
  /\ pc' = [t \in Tasks |-> IF t[1] = c THEN "lookup" ELSE pc[t]]
  /\ shared' = shared \cup Overlaps(pc')
  /\ UNCHANGED <<conns, connsMux, connVars, conn>>

(* The goroutine leaves Send. *)
Finish(t) ==
  /\ pc' = [pc EXCEPT ![t] = "idle"]
  /\ conn' = [conn EXCEPT ![t] = NoConn]

GoTo(t, step) == pc' = [pc EXCEPT ![t] = step]

-----------------------------------------------------------------------------
(* getConnection: the first look, under RLock. *)
Lookup(t) ==
  /\ pc[t] = "lookup"
  /\ connsMux = NoOne
  /\ conn' = [conn EXCEPT ![t] = conns[Addr(t)]]
  /\ GoTo(t, IF conns[Addr(t)] = NoConn THEN "lock" ELSE "check")
  /\ UNCHANGED <<conns, connsMux, connVars, shared>>

(* SetWriteDeadline fails on a connection closed here, and on no other.    *)
(* If it does not fail it has set a deadline, for whoever writes to the    *)
(* connection ...                                                          *)
IsAlive(k) == status[k] # "closed"

CheckAlive(t) ==
  /\ pc[t] = "check"
  /\ \/ /\ IsAlive(conn[t])
        /\ deadline' = [deadline EXCEPT ![conn[t]] = TRUE]
        /\ GoTo(t, "alive")
     \/ /\ ~IsAlive(conn[t])
        /\ GoTo(t, "stale")
        /\ UNCHANGED deadline
  /\ UNCHANGED <<conns, connsMux, status, stream, conn, shared>>

(* ... which the next call clears, whoever set it (a closed connection has *)
(* none).  The connection is found; the second look gives the lock back.   *)
ClearDeadline(t) ==
  /\ pc[t] = "alive"
  /\ deadline' = [deadline EXCEPT ![conn[t]] = FALSE]
  /\ connsMux' = IF connsMux = t THEN NoOne ELSE connsMux
  /\ GoTo(t, "deadline")
  /\ UNCHANGED <<conns, status, stream, conn, shared>>

(* conn.Close for the connections in K; what was set and written does not  *)
(* matter any more.                                                        *)
CloseConns(K) ==
  /\ status' = [k \in Conns |-> IF k \in K THEN "closed" ELSE status[k]]
  /\ deadline' = [k \in Conns |-> deadline[k] /\ k \notin K]
  /\ stream' = [k \in Conns |-> IF k \in K THEN Whole ELSE stream[k]]

(* closeConnection: the connection the map holds now is closed and removed. *)
closeConnection_Mutant_EntryKept(a) ==
  /\ connsMux = NoOne
  /\ CloseConns({conns[a]})
  /\ UNCHANGED conns

closeConnection(a) ==
  /\ connsMux = NoOne
  /\ CloseConns({conns[a]})
  /\ conns' = [conns EXCEPT ![a] = NoConn]

CloseStale(t) ==
  /\ pc[t] = "stale"
  /\ closeConnection(Addr(t))
  /\ conn' = [conn EXCEPT ![t] = NoConn]
  /\ GoTo(t, "lock")
  /\ UNCHANGED <<connsMux, shared>>

AcquireLock(t) ==
  /\ pc[t] = "lock"
  /\ connsMux = NoOne
  /\ connsMux' = t
  /\ GoTo(t, "locked")
  /\ UNCHANGED <<conns, connVars, conn, shared>>

(* The second look, with the lock held, if the map has an entry now.  With *)
(* a dead connection in it, closeConnection would lock connsMux once more: *)
(* "relock" is a place no goroutine leaves.                                *)
DoubleCheck(t) ==
  /\ pc[t] = "locked"
  /\ conns[Addr(t)] # NoConn
  /\ IF IsAlive(conns[Addr(t)])
     THEN /\ conn' = [conn EXCEPT ![t] = conns[Addr(t)]]
          /\ deadline' = [deadline EXCEPT ![conns[Addr(t)]] = TRUE]
          /\ GoTo(t, "alive")
     ELSE GoTo(t, "relock") /\ UNCHANGED <<conn, deadline>>
  /\ UNCHANGED <<conns, connsMux, status, stream, shared>>

Unused == {k \in Conns : status[k] = "closed" /\ \A t \in Tasks : conn[t] # k}

(* DialTimeout, with the lock held, which is given back on return.  Which  *)
(* of the unused connections stands for the new one makes no difference;   *)
(* Conns bounds the model, there must be enough of them.                   *)
DialSucceeds_Mutant_NoSecondLook(t) ==
  /\ pc[t] = "locked"
  /\ Unused # {}
  /\ LET k == CHOOSE x \in Unused : TRUE
     IN  /\ conns' = [conns EXCEPT ![Addr(t)] = k]
         /\ conn' = [conn EXCEPT ![t] = k]
         /\ status' = [status EXCEPT ![k] = "live"]
         /\ deadline' = [deadline EXCEPT ![k] = FALSE]
         /\ stream' = [stream EXCEPT ![k] = Whole]
  /\ connsMux' = NoOne
  /\ GoTo(t, "deadline")
  /\ UNCHANGED shared

DialSucceeds_Mutant_KeyedByNetwork(t) ==
  /\ pc[t] = "locked"
  /\ conns[Addr(t)] = NoConn
  /\ Unused # {}
  /\ LET k == CHOOSE x \in Unused : TRUE
     IN  /\ conns' = [a \in Addrs |-> k]
         /\ conn' = [conn EXCEPT ![t] = k]
         /\ status' = [status EXCEPT ![k] = "live"]
         /\ deadline' = [deadline EXCEPT ![k] = FALSE]
         /\ stream' = [stream EXCEPT ![k] = Whole]
  /\ connsMux' = NoOne
  /\ GoTo(t, "deadline")
  /\ UNCHANGED shared

DialSucceeds(t) ==
  /\ pc[t] = "locked"
  /\ conns[Addr(t)] = NoConn
  /\ Unused # {}
  /\ LET k == CHOOSE x \in Unused : TRUE
     IN  /\ conns' = [conns EXCEPT ![Addr(t)] = k]
         /\ conn' = [conn EXCEPT ![t] = k]
         /\ status' = [status EXCEPT ![k] = "live"]
         /\ deadline' = [deadline EXCEPT ![k] = FALSE]
         /\ stream' = [stream EXCEPT ![k] = Whole]
  /\ connsMux' = NoOne
  /\ GoTo(t, "deadline")
  /\ UNCHANGED shared

DialFails_Mutant_ErrorIgnored(t) ==
  /\ pc[t] = "locked"
  /\ conns[Addr(t)] = NoConn
  /\ connsMux' = NoOne
  /\ GoTo(t, "deadline")
  /\ UNCHANGED <<conns, connVars, conn, shared>>

DialFails_Mutant_LockKept(t) ==
  /\ pc[t] = "locked"
  /\ conns[Addr(t)] = NoConn
  /\ Finish(t)
  /\ UNCHANGED <<conns, connsMux, connVars, shared>>

DialFails(t) ==
  /\ pc[t] = "locked"
  /\ conns[Addr(t)] = NoConn
  /\ connsMux' = NoOne
  /\ Finish(t)
  /\ UNCHANGED <<conns, connVars, shared>>

-----------------------------------------------------------------------------
(* Send, with a connection: the write deadline, the header, the body. *)
SetDeadline_Mutant_Never(t) ==
  /\ pc[t] = "deadline"
  /\ GoTo(t, "header")
  /\ UNCHANGED <<conns, connsMux, connVars, conn, shared>>

SetDeadline(t) ==
  /\ pc[t] = "deadline"
  /\ deadline' = IF IsAlive(conn[t]) THEN [deadline EXCEPT ![conn[t]] = TRUE] ELSE deadline
  /\ GoTo(t, "header")
  /\ UNCHANGED <<conns, connsMux, status, stream, conn, shared>>

(* The stream's state before t's write, if the write is to make sense to   *)
(* the other end.                                                          *)
Expected(t) == IF pc[t] = "header" THEN Whole ELSE HeaderOf(t)

(* A write goes through.  The bytes written to a broken connection go      *)
(* nowhere.                                                                *)
WriteSucceeds(t) ==
  /\ pc[t] \in {"header", "body"}
  /\ IsAlive(conn[t])
  /\ stream' = [stream EXCEPT ![conn[t]] =
                  IF status[conn[t]] = "broken" THEN @
                  ELSE IF @ # Expected(t) THEN Garbage
                  ELSE IF pc[t] = "header" THEN HeaderOf(t) ELSE Whole]
  /\ IF pc[t] = "header" THEN GoTo(t, "body") /\ UNCHANGED conn
                         ELSE Finish(t)
  /\ UNCHANGED <<conns, connsMux, status, deadline, shared>>

(* A write fails: the connection was closed here or broken by the other    *)
(* end, or the deadline has passed, with or without a part of the bytes    *)
(* written.                                                                *)
WriteFails_Mutant_NotClosed(t) ==
  /\ pc[t] \in {"header", "body"}
  /\ status[conn[t]] # "live" \/ deadline[conn[t]]
  /\ \/ UNCHANGED stream
     \/ /\ status[conn[t]] = "live"
        /\ stream' = [stream EXCEPT ![conn[t]] = IF @ = Expected(t) THEN Torn ELSE Garbage]
  /\ Finish(t)
  /\ UNCHANGED <<conns, connsMux, status, deadline, shared>>

WriteFails(t) ==
  /\ pc[t] \in {"header", "body"}
  /\ status[conn[t]] # "live" \/ deadline[conn[t]]
  /\ \/ UNCHANGED stream
     \/ /\ status[conn[t]] = "live"
        /\ stream' = [stream EXCEPT ![conn[t]] = IF @ = Expected(t) THEN Torn ELSE Garbage]
  /\ GoTo(t, "failed")
  /\ UNCHANGED <<conns, connsMux, status, deadline, conn, shared>>

CloseFailed(t) ==
  /\ pc[t] = "failed"
  /\ closeConnection(Addr(t))
  /\ Finish(t)
  /\ UNCHANGED <<connsMux, shared>>

(* Close: all connections of the map; the sender can still be used. *)
Close ==
  /\ connsMux = NoOne
  /\ CloseConns({conns[a] : a \in Addrs})
  /\ conns' = [a \in Addrs |-> NoConn]
  /\ UNCHANGED <<connsMux, pc, conn, shared>>

(* The other end closes the connection or goes away. *)
PeerBreaks(k) ==
  /\ status[k] = "live"
  /\ status' = [status EXCEPT ![k] = "broken"]
  /\ UNCHANGED <<conns, connsMux, deadline, stream, pc, conn, shared>>

(* What a goroutine does by itself, or gets done: a dial and a write end   *)
(* by their time limits if not otherwise.  A write need not go through.    *)
Proceed(t) ==
  \/ Lookup(t) \/ CheckAlive(t) \/ ClearDeadline(t) \/ CloseStale(t)
  \/ AcquireLock(t) \/ DoubleCheck(t)
  \/ DialSucceeds(t) \/ DialFails(t) \/ SetDeadline(t)
  \/ WriteFails(t) \/ CloseFailed(t)

Next ==
  \/ \E c \in Callers : Broadcast(c)
  \/ \E t \in Tasks : Send(t) \/ Proceed(t) \/ WriteSucceeds(t)
  \/ Close
  \/ \E k \in Conns : PeerBreaks(k)

SafeSpec == Init /\ [][Next]_vars

(* A goroutine that can proceed again and again does.  For the lock this   *)
(* is what Go's mutex ensures: a waiting goroutine gets it in the end.  A  *)
(* deadline that others clear and set again is pushed back only by sends   *)
(* whose own writes, one at a time on a connection, went through.          *)
Spec == SafeSpec /\ \A t \in Tasks : SF_vars(Proceed(t))

-----------------------------------------------------------------------------
(* No goroutine calls closeConnection with connsMux already held           *)
(* (getConnection, network.go:321), which would lock the sender for ever:  *)
(* whatever closes a connection removes it from the map under the same     *)
(* lock, so the second look never finds a closed one.                      *)
NeverRelocks == \A t \in Tasks : pc[t] # "relock"

(* An address has at most one connection, and no connection is left open   *)
(* once the map has lost it (getConnection's second look, closeConnection, *)
(* Close).                                                                 *)
NoConnectionLeaks ==
  \A k \in Conns : status[k] # "closed" =>
    \E a \in Addrs : conns[a] = k /\ \A b \in Addrs : conns[b] = k => b = a

(* As long as the sends to an address never overlapped, the other end of   *)
(* each of its connections can make sense of all it receives: after a      *)
(* frame that was cut short nothing more is written (Send).                *)
FramesWhole ==
  \A a \in Addrs \ shared : conns[a] # NoConn => stream[conns[a]] # Garbage

(* As long as the sends to an address never overlapped, a failed send      *)
(* closes the connection it failed on, if it is still there, and no other  *)
(* (Send, closeConnection).                                                *)
FailureIsLocal ==
  \A t \in Tasks : (pc[t] \in {"failed", "stale"} /\ Addr(t) \notin shared) =>
                      conns[Addr(t)] \in {conn[t], NoConn}

(* Every Send, and so every Broadcast, returns, although the lock is held  *)
(* while dialling and the goroutines of one address clear each other's     *)
(* deadlines (getConnection, Send, Broadcast).                             *)
SendEnds == \A t \in Tasks : pc[t] # "idle" ~> pc[t] = "idle"

=============================================================================
