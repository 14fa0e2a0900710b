--------------------------- MODULE ReceiverProofs ---------------------------
(***************************************************************************)
(* What Receiver guarantees for any number of connections, workers and     *)
(* buffers and any sizes of frames.                                        *)
(***************************************************************************)
EXTENDS Receiver, SequenceLemmas, FiniteSetTheorems, TLAPS

USE ReceiverAssumption

-----------------------------------------------------------------------------
(* The types, with the domains of the functions that TypeOK gives          *)
(* pointwise.                                                              *)
Types ==
  /\ listener \in {"new", "open", "closed"}
  /\ acceptLoop \in BOOLEAN
  /\ stop \in {"no", "called", "returned"}
  /\ peer \in [Conns -> {"none", "open", "closed"}]
  /\ sent \in [Conns -> Seq(Frame)]
  /\ arrived \in [Conns -> Nat] /\ pos \in [Conns -> Nat]
  /\ \A c \in Conns : pos[c] <= arrived[c]
  /\ got \in [Conns -> Seq(Message)]
  /\ reader \in [Conns -> {"none", "header", "body", "busy", "ended"}]
  /\ length \in [Conns -> 0 .. MaxMessageSize]
  /\ buf \in [Conns -> Buffers \cup {None}]
  /\ bufferPool \subseteq Buffers
  /\ handling \subseteq [msg : Message, buf : Buffers, by : Conns \cup {None}]
  /\ kept \subseteq [msg : Message, buf : Buffers \cup {None}]
  /\ spoiled \subseteq Message
  /\ inStep \in [Conns -> BOOLEAN]

WorkersFit == IsFiniteSet(Workers) /\ Cardinality(Workers) <= NumWorkers

(* A goroutine has a buffer while it reads a body, and waits while it      *)
(* handles a message itself, one at a time.                                *)
ReaderInv ==
  /\ \A c \in Conns : buf[c] # None <=> reader[c] = "body"
  /\ \A h \in handling : h.by # None => reader[h.by] = "busy"
  /\ \A h, g \in handling : (h.by # None /\ h.by = g.by) => h = g

BaseInv == Types /\ WorkersFit /\ ReaderInv

(* Who holds the buffers.                                                  *)
OneHolder ==
  /\ \A c, d \in Conns : (buf[c] # None /\ buf[c] = buf[d]) => c = d
  /\ \A h, g \in handling : h.buf = g.buf => h = g
  /\ \A c \in Conns, h \in handling : h.buf # buf[c]
  /\ \A b \in bufferPool : (\A c \in Conns : buf[c] # b) /\ (\A h \in handling : h.buf # b)
  /\ \A b \in Buffers \ bufferPool : (\E c \in Conns : buf[c] = b) \/ (\E h \in handling : h.buf = b)

(* A handler that copies its data refers to no buffer later.               *)
NothingSpoiled ==
  HandlerCopies => spoiled = {} /\ \A k \in kept : k.buf = None

(* Where frame n of c ends, and what comes before the first frame.         *)
End(c, n) == IF n = 0 THEN 0 ELSE sent[c][n].at + HeaderSize + sent[c][n].len

(* The frames of c follow each other without a gap.                        *)
Contiguous(c) ==
  /\ arrived[c] = End(c, Len(sent[c]))
  /\ \A n \in 1 .. Len(sent[c]) : sent[c][n].at = End(c, n - 1)
  /\ \A m, n \in 1 .. Len(sent[c]) : m < n => End(c, m) <= sent[c][n].at

(* The goroutine of c is at the end of the last message it has read, or    *)
(* after the header of the next one.                                       *)
AtFrame(c) ==
  LET n == Len(got[c])
  IN  IF reader[c] = "body"
      THEN /\ n < Len(sent[c])
           /\ pos[c] = sent[c][n + 1].at + HeaderSize /\ length[c] = sent[c][n + 1].len
      ELSE n <= Len(sent[c]) /\ pos[c] = End(c, n)

FrameInv ==
  \A c \in Conns : inStep[c] =>
    Contiguous(c) /\ AtFrame(c) /\ \A n \in DOMAIN got[c] : got[c][n] = Body(c, n)

-----------------------------------------------------------------------------
LEMMA BaseTypes == BaseInv => TypeOK
<1> SUFFICES ASSUME BaseInv PROVE TypeOK
  OBVIOUS
<1>1. Types /\ Cardinality(Workers) <= NumWorkers
  BY DEF BaseInv, WorkersFit
<1>2. \A c \in Conns : /\ sent[c] \in Seq(Frame) /\ got[c] \in Seq(Message)
                       /\ arrived[c] \in Nat /\ pos[c] \in 0 .. arrived[c]
  BY <1>1 DEF Types
<1> QED
  BY <1>1, <1>2 DEF TypeOK, Types

LEMMA InitBase == Init => BaseInv
<1> SUFFICES ASSUME Init PROVE BaseInv
  OBVIOUS
<1>1. Types
  <2>1. <<>> \in Seq(Frame) /\ <<>> \in Seq(Message)
    BY EmptyIsSeq
  <2>2. sent \in [Conns -> Seq(Frame)] /\ got \in [Conns -> Seq(Message)]
    BY <2>1 DEF Init
  <2>3. /\ arrived \in [Conns -> Nat] /\ pos \in [Conns -> Nat] /\ \A c \in Conns : pos[c] <= arrived[c]
        /\ length \in [Conns -> 0 .. MaxMessageSize]
    BY DEF Init
  <2> QED
    BY <2>2, <2>3 DEF Init, Types
<1>2. WorkersFit
  <2>1. Workers = {}
    BY DEF Init, Workers
  <2> QED
    BY <2>1, FS_EmptySet DEF WorkersFit
<1>3. ReaderInv
  BY DEF Init, ReaderInv
<1> QED
  BY <1>1, <1>2, <1>3 DEF BaseInv

(* Without a call that begins or ends the workers are the same.            *)
LEMMA SameWorkers == WorkersFit /\ UNCHANGED handling => WorkersFit'
BY DEF WorkersFit, Workers

(* The peers, Start, Stop and the accept loop.                             *)
LEMMA OutsideBase ==
  ASSUME BaseInv, NEW c \in Conns,
         PeerConnects(c) \/ PeerCloses(c) \/ \E l \in Lengths[c] : PeerSends(c, l)
  PROVE  BaseInv'
<1>1. Types /\ WorkersFit /\ ReaderInv
  BY DEF BaseInv
<1>2. UNCHANGED <<handling, buf, reader>>
  BY DEF PeerConnects, PeerSends, PeerCloses, readVars, handleVars
<1>3. WorkersFit' /\ ReaderInv'
  BY <1>1, <1>2, SameWorkers DEF ReaderInv
<1>4. CASE PeerConnects(c)
  BY <1>1, <1>3, <1>4 DEF BaseInv, Types, PeerConnects, lifeVars, readVars, handleVars, stepVars
<1>5. ASSUME NEW l \in Lengths[c], PeerSends(c, l) PROVE BaseInv'
  <2>1. l \in Nat /\ [at |-> arrived[c], len |-> l] \in Frame
    BY <1>1 DEF Types, Frame
  <2>2. sent' \in [Conns -> Seq(Frame)]
    BY <1>1, <1>5, <2>1 DEF Types, PeerSends
  <2>3. arrived' \in [Conns -> Nat] /\ \A d \in Conns : arrived'[d] >= arrived[d]
    <3>1. arrived' = [arrived EXCEPT ![c] = arrived[c] + HeaderSize + l] /\ arrived \in [Conns -> Nat]
      BY <1>1, <1>5 DEF Types, PeerSends
    <3>2. arrived[c] + HeaderSize + l \in Nat /\ arrived[c] + HeaderSize + l >= arrived[c]
      BY <2>1, <3>1
    <3> QED
      BY <3>1, <3>2
  <2>4. \A d \in Conns : pos'[d] <= arrived'[d]
    BY <1>1, <1>5, <2>3 DEF Types, PeerSends
  <2> QED
    BY <1>1, <1>3, <1>5, <2>2, <2>3, <2>4 DEF BaseInv, Types, PeerSends, lifeVars, readVars, handleVars, stepVars
<1>6. CASE PeerCloses(c)
  <2>1. CASE UNCHANGED <<arrived, stepVars>>
    BY <1>1, <1>3, <1>6, <2>1 DEF BaseInv, Types, PeerCloses, lifeVars, readVars, handleVars, stepVars
  <2>2. ASSUME NEW k \in pos[c] .. arrived[c] - 1, arrived' = [arrived EXCEPT ![c] = k], OutOfStep(c)
        PROVE  BaseInv'
    <3>1. /\ arrived' \in [Conns -> Nat] /\ \A d \in Conns : pos[d] <= arrived'[d]
      BY <1>1, <2>2 DEF Types
    <3>2. got' \in [Conns -> Seq(Message)] /\ inStep' \in [Conns -> BOOLEAN]
      BY <1>1, <2>2 DEF Types, OutOfStep
    <3> QED
      BY <1>1, <1>3, <1>6, <3>1, <3>2 DEF BaseInv, Types, PeerCloses, lifeVars, readVars, handleVars
  <2> QED
    BY <1>6, <2>1, <2>2 DEF PeerCloses
<1> QED
  BY <1>4, <1>5, <1>6

LEMMA LifeBase ==
  ASSUME BaseInv, Start \/ Stop \/ StopReturns \/ AcceptLoopEnds \/ UNCHANGED vars
  PROVE  BaseInv'
<1>1. Types /\ WorkersFit /\ ReaderInv
  BY DEF BaseInv
<1>2. /\ UNCHANGED <<streamVars, readVars, handleVars, stepVars>>
      /\ listener' \in {"new", "open", "closed"} /\ acceptLoop' \in BOOLEAN
      /\ stop' \in {"no", "called", "returned"}
  BY <1>1 DEF Types, Start, Stop, StopReturns, AcceptLoopEnds, vars, lifeVars
<1> QED
  BY <1>1, <1>2, SameWorkers DEF BaseInv, Types, ReaderInv, streamVars, readVars, handleVars, stepVars

(* Accept, and the end of a connection between two messages.               *)
LEMMA ConnectionBase == ASSUME BaseInv, NEW c \in Conns, Accept(c) \/ ReadEOF(c) PROVE BaseInv'
<1>1. Types /\ WorkersFit /\ ReaderInv
  BY DEF BaseInv
<1>2. /\ UNCHANGED <<lifeVars, streamVars, length, buf, handleVars, stepVars>>
      /\ reader[c] \in {"none", "header"}
      /\ reader' = [reader EXCEPT ![c] = "header"] \/ reader' = [reader EXCEPT ![c] = "ended"]
  BY DEF Accept, ReadEOF
<1>3. Types'
  BY <1>1, <1>2 DEF Types, lifeVars, streamVars, handleVars, stepVars
<1>4. ReaderInv'
  BY <1>1, <1>2 DEF Types, ReaderInv, handleVars
<1> QED
  BY <1>1, <1>2, <1>3, <1>4, SameWorkers DEF BaseInv, handleVars

(* What a header can say is a number.                                      *)
LEMMA HeaderSaysNumbers == ASSUME Types, NEW c \in Conns PROVE HeaderSays(c) \subseteq Nat
<1>1. sent[c] \in Seq(Frame)
  BY DEF Types
<1>2. \A n \in DOMAIN sent[c] : sent[c][n] \in Frame
  BY <1>1
<1>3. \A n \in DOMAIN sent[c] : sent[c][n].len \in Nat
  BY <1>2 DEF Frame
<1> QED
  BY <1>3 DEF HeaderSays

LEMMA ReadHeaderBase == ASSUME BaseInv, NEW c \in Conns, ReadHeader(c) PROVE BaseInv'
<1> DEFINE b == CHOOSE x \in bufferPool : TRUE
<1>1. Types /\ WorkersFit /\ ReaderInv
  BY DEF BaseInv
<1>2. PICK l \in HeaderSays(c) : l <= MaxMessageSize /\ length' = [length EXCEPT ![c] = l]
  BY DEF ReadHeader
<1>3. l \in 0 .. MaxMessageSize
  BY <1>1, <1>2, HeaderSaysNumbers
<1>4. b \in bufferPool /\ buf' = [buf EXCEPT ![c] = b] /\ bufferPool' = bufferPool \ {b}
  BY DEF ReadHeader
<1> HIDE DEF b
<1>5. /\ reader[c] = "header" /\ Unread(c) >= HeaderSize /\ reader' = [reader EXCEPT ![c] = "body"]
      /\ pos' = [pos EXCEPT ![c] = pos[c] + HeaderSize]
      /\ UNCHANGED <<lifeVars, peer, sent, arrived, handling, kept, spoiled, stepVars>>
  BY DEF ReadHeader, Take
<1>6. pos' \in [Conns -> Nat] /\ \A d \in Conns : pos'[d] <= arrived'[d]
  BY <1>1, <1>5 DEF Types, Unread
<1>7. Types'
  BY <1>1, <1>2, <1>3, <1>4, <1>5, <1>6 DEF Types, lifeVars, stepVars
<1>8. ReaderInv'
  <2>1. b # None
    BY <1>1, <1>4 DEF Types
  <2> QED
    BY <1>1, <1>4, <1>5, <2>1 DEF Types, ReaderInv
<1> QED
  BY <1>1, <1>5, <1>7, <1>8, SameWorkers DEF BaseInv

LEMMA SkipHeaderBase == ASSUME BaseInv, NEW c \in Conns, SkipHeader(c) PROVE BaseInv'
<1>1. Types /\ WorkersFit /\ ReaderInv
  BY DEF BaseInv
<1>2. /\ Unread(c) >= HeaderSize /\ pos' = [pos EXCEPT ![c] = pos[c] + HeaderSize] /\ OutOfStep(c)
      /\ UNCHANGED <<lifeVars, peer, sent, arrived, readVars, handleVars>>
  BY DEF SkipHeader, Take
<1>3. pos' \in [Conns -> Nat] /\ \A d \in Conns : pos'[d] <= arrived'[d]
  BY <1>1, <1>2 DEF Types, Unread
<1>4. got' \in [Conns -> Seq(Message)] /\ inStep' \in [Conns -> BOOLEAN]
  BY <1>1, <1>2 DEF Types, OutOfStep
<1> QED
  BY <1>1, <1>2, <1>3, <1>4, SameWorkers DEF BaseInv, Types, ReaderInv, lifeVars, readVars, handleVars

(* What is spoiled are messages.                                           *)
LEMMA FillTypes == ASSUME Types, NEW c, NEW k, Fill(c, k) PROVE spoiled' \subseteq Message
<1>1. \A h \in handling \cup kept : h.msg \in Message
  BY DEF Types
<1> QED
  BY <1>1 DEF Types, Fill

(* ReadBody, with the message m handled by a worker or by the goroutine of *)
(* the connection itself.                                                  *)
Read(c) == IF inStep[c] THEN [conn |-> c, at |-> pos[c], len |-> length[c]] ELSE Junk(c)
Handler(c) == IF Cardinality(Workers) < NumWorkers THEN None ELSE c

LEMMA ReadBodySteps ==
  ASSUME BaseInv, NEW c \in Conns, ReadBody(c)
  PROVE  /\ reader[c] = "body" /\ Unread(c) >= length[c] /\ buf[c] \in Buffers
         /\ pos' = [pos EXCEPT ![c] = pos[c] + length[c]] /\ Fill(c, length[c])
         /\ got' = IF inStep[c] THEN [got EXCEPT ![c] = Append(got[c], Read(c))] ELSE got
         /\ handling' = handling \cup {[msg |-> Read(c), buf |-> buf[c], by |-> Handler(c)]}
         /\ reader' = [reader EXCEPT ![c] = IF Handler(c) = c THEN "busy" ELSE "header"]
         /\ length' = [length EXCEPT ![c] = 0] /\ buf' = [buf EXCEPT ![c] = None]
         /\ UNCHANGED <<lifeVars, peer, sent, arrived, bufferPool, kept, inStep>>
         /\ Read(c) \in Message /\ Handler(c) \in {None, c}
<1>1. Types /\ ReaderInv
  BY DEF BaseInv
<1>2. reader[c] = "body"
  BY DEF ReadBody
<1>3. buf[c] \in Buffers
  BY <1>1, <1>2 DEF Types, ReaderInv
<1>4. Read(c) \in Message
  BY <1>1 DEF Types, Read, Message, Junk
<1>5. Handler(c) \in {None, c}
  BY DEF Handler
<1> QED
  BY <1>2, <1>3, <1>4, <1>5 DEF ReadBody, Take, Drop, Read, Handler

LEMMA ReadBodyBase == ASSUME BaseInv, NEW c \in Conns, ReadBody(c) PROVE BaseInv'
<1> DEFINE m == Read(c)
           w == Handler(c)
           n == [msg |-> m, buf |-> buf[c], by |-> w]
<1>1. Types /\ WorkersFit /\ ReaderInv
  BY DEF BaseInv
<1>2. /\ reader[c] = "body" /\ Unread(c) >= length[c] /\ buf[c] \in Buffers
      /\ pos' = [pos EXCEPT ![c] = pos[c] + length[c]] /\ Fill(c, length[c])
      /\ got' = IF inStep[c] THEN [got EXCEPT ![c] = Append(got[c], m)] ELSE got
      /\ handling' = handling \cup {n}
      /\ reader' = [reader EXCEPT ![c] = IF w = c THEN "busy" ELSE "header"]
      /\ length' = [length EXCEPT ![c] = 0] /\ buf' = [buf EXCEPT ![c] = None]
      /\ UNCHANGED <<lifeVars, peer, sent, arrived, bufferPool, kept, inStep>>
      /\ m \in Message /\ w \in {None, c}
  BY ReadBodySteps
<1>3. c # None
  OBVIOUS
<1>4. w = None <=> Cardinality(Workers) < NumWorkers
  BY <1>3 DEF Handler
<1> HIDE DEF m, w
<1>5. n \in [msg : Message, buf : Buffers, by : Conns \cup {None}] /\ n.by = w /\ n.buf = buf[c]
  BY <1>2
<1> HIDE DEF n
<1>6. pos' \in [Conns -> Nat] /\ \A d \in Conns : pos'[d] <= arrived'[d]
  BY <1>1, <1>2 DEF Types, Unread
<1>7. got' \in [Conns -> Seq(Message)]
  <2>1. got[c] \in Seq(Message)
    BY <1>1 DEF Types
  <2>2. Append(got[c], m) \in Seq(Message)
    BY <1>2, <2>1
  <2> QED
    BY <1>1, <1>2, <2>2 DEF Types
<1>8. Types'
  <2>1. spoiled' \subseteq Message
    BY <1>1, <1>2, FillTypes
  <2>2. length' \in [Conns -> 0 .. MaxMessageSize]
    BY <1>1, <1>2 DEF Types
  <2> QED
    BY <1>1, <1>2, <1>5, <1>6, <1>7, <2>1, <2>2 DEF Types, lifeVars
<1>9. ReaderInv'
  <2>1. \A h \in handling : h.by # c
    BY <1>1, <1>2, <1>3 DEF ReaderInv
  <2>2. \A d \in Conns : buf'[d] # None <=> reader'[d] = "body"
    BY <1>1, <1>2 DEF Types, ReaderInv
  <2>3. \A h \in handling' : h.by # None => reader'[h.by] = "busy"
    BY <1>1, <1>2, <1>3, <1>5, <2>1 DEF Types, ReaderInv
  <2>4. \A h, g \in handling' : (h.by # None /\ h.by = g.by) => h = g
    BY <1>1, <1>2, <1>5, <2>1 DEF ReaderInv
  <2> QED
    BY <2>2, <2>3, <2>4 DEF ReaderInv
<1>10. WorkersFit'
  <2>1. IsFiniteSet(Workers) /\ Cardinality(Workers) \in Nat /\ Cardinality(Workers) <= NumWorkers
    BY <1>1, FS_CardinalityType DEF WorkersFit
  <2>2. CASE w = None
    <3>1. Workers' = Workers \cup {n}
      BY <1>2, <1>5, <2>2 DEF Workers
    <3>2. /\ IsFiniteSet(Workers \cup {n})
          /\ Cardinality(Workers \cup {n}) \in {Cardinality(Workers), Cardinality(Workers) + 1}
      BY <2>1, FS_AddElement
    <3> QED
      BY <1>4, <2>1, <2>2, <3>1, <3>2 DEF WorkersFit
  <2>3. CASE w # None
    <3>1. Workers' = Workers
      BY <1>2, <1>5, <2>3 DEF Workers
    <3> QED
      BY <2>1, <3>1 DEF WorkersFit
  <2> QED
    BY <2>2, <2>3
<1> QED
  BY <1>8, <1>9, <1>10 DEF BaseInv

(* A read that ends with an error, by a timeout or by the other end.       *)
LEMMA ReadErrors ==
  ASSUME BaseInv, NEW c \in Conns, ReadTimeout(c) \/ ReadCutShort(c)
  PROVE  \E k \in Nat : k <= Unread(c) /\ Reading(c) /\ ReadFails(c, k)
<1>1. Types
  BY DEF BaseInv
<1>2. Unread(c) \in Nat
  BY <1>1 DEF Types, Unread
<1> QED
  BY <1>2 DEF ReadTimeout, ReadCutShort

LEMMA ReadFailsBase ==
  ASSUME BaseInv, NEW c \in Conns, NEW k \in Nat, k <= Unread(c), Reading(c), ReadFails(c, k)
  PROVE  BaseInv'
<1>1. Types /\ WorkersFit /\ ReaderInv
  BY DEF BaseInv
<1>2. /\ pos' = [pos EXCEPT ![c] = pos[c] + k] /\ spoiled' \subseteq Message
      /\ bufferPool' = bufferPool \cup ({buf[c]} \ {None})
      /\ reader' = [reader EXCEPT ![c] = "header"]
      /\ length' = [length EXCEPT ![c] = 0] /\ buf' = [buf EXCEPT ![c] = None]
      /\ UNCHANGED <<lifeVars, peer, sent, arrived, handling, kept>>
  BY <1>1, FillTypes DEF ReadFails, Take, Drop
<1>3. got' \in [Conns -> Seq(Message)] /\ inStep' \in [Conns -> BOOLEAN]
  <2>1. <<>> \in Seq(Message)
    BY EmptyIsSeq
  <2>2. CASE UNCHANGED stepVars
    BY <1>1, <2>2 DEF Types, stepVars
  <2>3. CASE OutOfStep(c)
    BY <1>1, <2>1, <2>3 DEF Types, OutOfStep
  <2> QED
    BY <2>2, <2>3 DEF ReadFails
<1>4. pos' \in [Conns -> Nat] /\ \A d \in Conns : pos'[d] <= arrived'[d]
  BY <1>1, <1>2 DEF Types, Unread
<1>5. length' \in [Conns -> 0 .. MaxMessageSize]
  BY <1>1, <1>2 DEF Types
<1>6. bufferPool' \subseteq Buffers
  BY <1>1, <1>2 DEF Types
<1>7. Types'
  BY <1>1, <1>2, <1>3, <1>4, <1>5, <1>6 DEF Types, lifeVars
<1>8. ReaderInv'
  <2>1. \A h \in handling : h.by # None => h.by # c
    BY <1>1 DEF ReaderInv, Reading
  <2> QED
    BY <1>1, <1>2, <2>1 DEF Types, ReaderInv
<1> QED
  BY <1>1, <1>2, <1>7, <1>8, SameWorkers DEF BaseInv

(* HandleMessage returns.                                                  *)
LEMMA HandleMessageBase == ASSUME BaseInv, NEW h \in handling, HandleMessage(h) PROVE BaseInv'
<1>1. Types /\ WorkersFit /\ ReaderInv
  BY DEF BaseInv
<1>2. h.msg \in Message /\ h.buf \in Buffers /\ h.by \in Conns \cup {None}
  BY <1>1 DEF Types
<1>3. Types'
  BY <1>1, <1>2 DEF Types, HandleMessage, lifeVars, streamVars, stepVars
<1>4. ReaderInv'
  <2>1. \A c \in Conns : h.by = c => reader[c] = "busy"
    BY <1>1 DEF ReaderInv
  <2>2. \A c \in Conns : buf'[c] # None <=> reader'[c] = "body"
    BY <1>1, <1>2, <2>1 DEF Types, ReaderInv, HandleMessage
  <2>3. \A g \in handling' : g \in handling /\ (g.by # None => g.by # h.by)
    BY <1>1 DEF ReaderInv, HandleMessage
  <2>4. \A g \in handling' : g.by # None => reader'[g.by] = "busy"
    BY <1>1, <1>2, <2>3 DEF Types, ReaderInv, HandleMessage
  <2> QED
    BY <1>1, <2>2, <2>3, <2>4 DEF ReaderInv
<1>5. WorkersFit'
  <2>1. IsFiniteSet(Workers) /\ Cardinality(Workers) \in Nat /\ Cardinality(Workers) <= NumWorkers
    BY <1>1, FS_CardinalityType DEF WorkersFit
  <2>2. Workers' \subseteq Workers
    BY DEF Workers, HandleMessage
  <2>3. IsFiniteSet(Workers') /\ Cardinality(Workers') \in Nat /\ Cardinality(Workers') <= Cardinality(Workers)
    BY <2>1, <2>2, FS_Subset, FS_CardinalityType
  <2> QED
    BY <2>1, <2>3 DEF WorkersFit
<1> QED
  BY <1>3, <1>4, <1>5 DEF BaseInv

LEMMA NextBase == BaseInv /\ [Next]_vars => BaseInv'
<1> SUFFICES ASSUME BaseInv, [Next]_vars PROVE BaseInv'
  OBVIOUS
<1> QED
  BY OutsideBase, LifeBase, ConnectionBase, ReadHeaderBase, SkipHeaderBase, ReadBodyBase, ReadErrors,
     ReadFailsBase, HandleMessageBase DEF Next, HandleStep, AcceptStep, HandlerStep

LEMMA Base == SafeSpec => []BaseInv
BY InitBase, NextBase, PTL DEF SafeSpec

(* The receiver's state keeps its types: in particular no more workers     *)
(* than there are slots, and no buffer with more than MaxMessageSize bytes *)
(* asked for.                                                              *)
THEOREM ReceiverTypes == SafeSpec => []TypeOK
BY Base, BaseTypes, PTL

-----------------------------------------------------------------------------
(* The buffers.                                                            *)
LEMMA ReadHeaderHolder == ASSUME BaseInv, OneHolder, NEW c \in Conns, ReadHeader(c) PROVE OneHolder'
<1> DEFINE b == CHOOSE x \in bufferPool : TRUE
<1>1. /\ b \in bufferPool /\ buf' = [buf EXCEPT ![c] = b] /\ bufferPool' = bufferPool \ {b}
      /\ reader[c] = "header" /\ handling' = handling
  BY DEF ReadHeader
<1> HIDE DEF b
<1>2. /\ buf \in [Conns -> Buffers \cup {None}] /\ bufferPool \subseteq Buffers /\ b # None /\ buf[c] = None
  BY <1>1 DEF BaseInv, Types, ReaderInv
<1>3. /\ \A d \in Conns : buf'[d] = IF d = c THEN b ELSE buf[d]
      /\ \A d \in Conns : buf[d] # b
      /\ \A h \in handling : h.buf # b
  BY <1>1, <1>2 DEF OneHolder
<1>4. \A d \in Conns : buf[d] # None => d # c /\ buf'[d] = buf[d]
  BY <1>2, <1>3
<1>5. /\ \A d, e \in Conns : (buf'[d] # None /\ buf'[d] = buf'[e]) => d = e
      /\ \A h, g \in handling : h.buf = g.buf => h = g
      /\ \A d \in Conns, h \in handling : h.buf # buf'[d]
  BY <1>3 DEF OneHolder
<1>6. \A x \in bufferPool' : (\A d \in Conns : buf'[d] # x) /\ (\A h \in handling : h.buf # x)
  BY <1>1, <1>3 DEF OneHolder
<1>7. \A x \in Buffers \ bufferPool' : (\E d \in Conns : buf'[d] = x) \/ (\E h \in handling : h.buf = x)
  <2> SUFFICES ASSUME NEW x \in Buffers \ bufferPool'
               PROVE  (\E d \in Conns : buf'[d] = x) \/ (\E h \in handling : h.buf = x)
    OBVIOUS
  <2>1. x = b \/ x \in Buffers \ bufferPool
    BY <1>1
  <2>2. x # None
    OBVIOUS
  <2> QED
    BY <1>3, <1>4, <2>1, <2>2 DEF OneHolder
<1> QED
  BY <1>1, <1>5, <1>6, <1>7 DEF OneHolder

LEMMA ReadBodyHolder == ASSUME BaseInv, OneHolder, NEW c \in Conns, ReadBody(c) PROVE OneHolder'
<1> DEFINE n == [msg |-> Read(c), buf |-> buf[c], by |-> Handler(c)]
<1>1. /\ buf[c] \in Buffers /\ handling' = handling \cup {n} /\ buf' = [buf EXCEPT ![c] = None]
      /\ bufferPool' = bufferPool /\ n.buf = buf[c]
  BY ReadBodySteps
<1> HIDE DEF n
<1>2. buf[c] # None /\ buf \in [Conns -> Buffers \cup {None}]
  BY <1>1 DEF BaseInv, Types
<1>3. /\ \A d \in Conns : buf'[d] = IF d = c THEN None ELSE buf[d]
      /\ \A h \in handling : h.buf # buf[c] /\ h.buf # None
      /\ \A d \in Conns : d # c => buf[d] # buf[c]
  BY <1>1, <1>2 DEF OneHolder, BaseInv, Types
<1>4. /\ \A d, e \in Conns : (buf'[d] # None /\ buf'[d] = buf'[e]) => d = e
      /\ \A h, g \in handling' : h.buf = g.buf => h = g
      /\ \A d \in Conns, h \in handling' : h.buf # buf'[d]
  BY <1>1, <1>2, <1>3 DEF OneHolder
<1>5. \A x \in bufferPool' : (\A d \in Conns : buf'[d] # x) /\ (\A h \in handling' : h.buf # x)
  <2>1. \A x \in bufferPool : x # None
    BY DEF BaseInv, Types
  <2> QED
    BY <1>1, <1>3, <2>1 DEF OneHolder
<1>6. \A x \in Buffers \ bufferPool' : (\E d \in Conns : buf'[d] = x) \/ (\E h \in handling' : h.buf = x)
  <2> SUFFICES ASSUME NEW x \in Buffers \ bufferPool
               PROVE  (\E d \in Conns : buf'[d] = x) \/ (\E h \in handling' : h.buf = x)
    BY <1>1
  <2>1. CASE \E d \in Conns : d # c /\ buf[d] = x
    BY <1>3, <2>1
  <2>2. CASE buf[c] = x
    BY <1>1, <2>2
  <2>3. CASE \E h \in handling : h.buf = x
    BY <1>1, <2>3
  <2> QED
    BY <2>1, <2>2, <2>3 DEF OneHolder
<1> QED
  BY <1>4, <1>5, <1>6 DEF OneHolder

LEMMA ReadFailsHolder ==
  ASSUME BaseInv, OneHolder, NEW c \in Conns, NEW k \in Nat, ReadFails(c, k)
  PROVE  OneHolder'
<1>1. /\ bufferPool' = bufferPool \cup ({buf[c]} \ {None}) /\ buf' = [buf EXCEPT ![c] = None] /\ handling' = handling
  BY DEF ReadFails, Drop
<1>2. buf \in [Conns -> Buffers \cup {None}] /\ bufferPool \subseteq Buffers /\ \A h \in handling : h.buf # None
  BY DEF BaseInv, Types
<1>3. \A d \in Conns : buf'[d] = IF d = c THEN None ELSE buf[d]
  BY <1>1, <1>2
<1>4. /\ \A d, e \in Conns : (buf'[d] # None /\ buf'[d] = buf'[e]) => d = e
      /\ \A h, g \in handling : h.buf = g.buf => h = g
      /\ \A d \in Conns, h \in handling : h.buf # buf'[d]
  BY <1>2, <1>3 DEF OneHolder
<1>5. \A x \in bufferPool' : (\A d \in Conns : buf'[d] # x) /\ (\A h \in handling : h.buf # x)
  <2> SUFFICES ASSUME NEW x \in bufferPool'
               PROVE  (\A d \in Conns : buf'[d] # x) /\ (\A h \in handling : h.buf # x)
    OBVIOUS
  <2>1. CASE x \in bufferPool
    <3>1. x # None
      BY <1>2, <2>1
    <3> QED
      BY <1>3, <2>1, <3>1 DEF OneHolder
  <2>2. CASE x = buf[c] /\ x # None
    BY <1>3, <2>2 DEF OneHolder
  <2> QED
    BY <1>1, <2>1, <2>2
<1>6. \A x \in Buffers \ bufferPool' : (\E d \in Conns : buf'[d] = x) \/ (\E h \in handling : h.buf = x)
  <2> SUFFICES ASSUME NEW x \in Buffers \ bufferPool'
               PROVE  (\E d \in Conns : buf'[d] = x) \/ (\E h \in handling : h.buf = x)
    OBVIOUS
  <2>1. x \notin bufferPool /\ x # buf[c]
    BY <1>1
  <2> QED
    BY <1>3, <2>1 DEF OneHolder
<1> QED
  BY <1>1, <1>4, <1>5, <1>6 DEF OneHolder

LEMMA HandleMessageHolder == ASSUME BaseInv, OneHolder, NEW h \in handling, HandleMessage(h) PROVE OneHolder'
<1>1. handling' = handling \ {h} /\ bufferPool' = bufferPool \cup {h.buf} /\ buf' = buf
  BY DEF HandleMessage
<1>2. \A g \in handling \ {h} : g.buf # h.buf
  BY DEF OneHolder
<1>3. \A x \in Buffers \ bufferPool' : (\E c \in Conns : buf[c] = x) \/ (\E g \in handling' : g.buf = x)
  BY <1>1 DEF OneHolder
<1>4. \A x \in bufferPool' : (\A c \in Conns : buf[c] # x) /\ (\A g \in handling' : g.buf # x)
  BY <1>1, <1>2 DEF OneHolder
<1> QED
  BY <1>1, <1>3, <1>4 DEF OneHolder

LEMMA NextHolder == BaseInv /\ OneHolder /\ [Next]_vars => OneHolder'
<1> SUFFICES ASSUME BaseInv, OneHolder, [Next]_vars PROVE OneHolder'
  OBVIOUS
<1>1. ASSUME UNCHANGED <<buf, bufferPool, handling>> PROVE OneHolder'
  BY <1>1 DEF OneHolder
<1>2. ASSUME NEW c \in Conns, NEW l, PeerConnects(c) \/ PeerCloses(c) \/ PeerSends(c, l) \/ Accept(c) \/ SkipHeader(c) \/ ReadEOF(c)
      PROVE  OneHolder'
  BY <1>1, <1>2 DEF PeerConnects, PeerCloses, PeerSends, Accept, SkipHeader, ReadEOF, readVars, handleVars
<1>3. CASE Start \/ Stop \/ StopReturns \/ AcceptLoopEnds \/ UNCHANGED vars
  BY <1>1, <1>3 DEF Start, Stop, StopReturns, AcceptLoopEnds, vars, readVars, handleVars
<1> QED
  BY <1>2, <1>3, ReadHeaderHolder, ReadBodyHolder, ReadErrors, ReadFailsHolder, HandleMessageHolder
     DEF Next, HandleStep, AcceptStep, HandlerStep

LEMMA Holder == SafeSpec => []OneHolder
<1>1. Init => OneHolder
  BY DEF Init, OneHolder
<1> QED
  BY <1>1, NextHolder, Base, PTL DEF SafeSpec

(* A set with one element, or none.                                        *)
LEMMA AtMostOne ==
  ASSUME NEW S, \A x, y \in S : x = y
  PROVE  Cardinality(S) = IF S = {} THEN 0 ELSE 1
<1>1. CASE S = {}
  BY <1>1, FS_EmptySet
<1>2. CASE S # {}
  <2>1. PICK x \in S : TRUE
    BY <1>2
  <2>2. S = {x}
    BY <2>1
  <2> QED
    BY <1>2, <2>2, FS_Singleton
<1> QED
  BY <1>1, <1>2

(* A buffer of bufferPool is free or has exactly one holder, a connection  *)
(* that reads into it or a call of HandleMessage: none is lost and none is *)
(* given out twice.                                                        *)
THEOREM BuffersKeepOneHolder == SafeSpec => []BuffersHaveOneHolder
<1>1. ASSUME BaseInv, OneHolder PROVE BuffersHaveOneHolder
  <2> SUFFICES ASSUME NEW b \in Buffers
               PROVE  Cardinality({c \in Conns : buf[c] = b}) + Cardinality({h \in handling : h.buf = b})
                        = IF b \in bufferPool THEN 0 ELSE 1
    BY DEF BuffersHaveOneHolder
  <2> DEFINE C == {c \in Conns : buf[c] = b}
             H == {h \in handling : h.buf = b}
  <2>1. b # None
    OBVIOUS
  <2>2. (\A c, d \in C : c = d) /\ (\A h, g \in H : h = g)
    BY <1>1, <2>1 DEF OneHolder
  <2>3. ~(C # {} /\ H # {})
    BY <1>1 DEF OneHolder
  <2>4. b \in bufferPool <=> C = {} /\ H = {}
    BY <1>1 DEF OneHolder
  <2> HIDE DEF C, H
  <2>5. /\ Cardinality(C) = IF C = {} THEN 0 ELSE 1
        /\ Cardinality(H) = IF H = {} THEN 0 ELSE 1
    BY <2>2, AtMostOne
  <2>6. Cardinality(C) + Cardinality(H) = IF b \in bufferPool THEN 0 ELSE 1
    BY <2>3, <2>4, <2>5
  <2> QED
    BY <2>6 DEF C, H
<1> QED
  BY <1>1, Base, Holder, PTL

(* A message stays what it was if its handler copies the data, as those    *)
(* for vertices and blocks do: a buffer is read into by its holder only.   *)
THEOREM CopiedMessagesStayIntact == SafeSpec => [](HandlerCopies => MessagesStayIntact)
<1>1. Init => NothingSpoiled
  BY DEF Init, NothingSpoiled
<1>2. BaseInv /\ OneHolder /\ NothingSpoiled /\ [Next]_vars => NothingSpoiled'
  <2> SUFFICES ASSUME BaseInv, OneHolder, spoiled = {}, \A k \in kept : k.buf = None, [Next]_vars, HandlerCopies
               PROVE  spoiled' = {} /\ \A k \in kept' : k.buf = None
    BY DEF NothingSpoiled
  <2>1. ASSUME NEW c \in Conns, NEW k, Fill(c, k), reader[c] = "body" \/ k = 0 PROVE spoiled' = {}
    <3>1. k # 0 => buf[c] # None
      BY <2>1 DEF BaseInv, ReaderInv
    <3>2. k # 0 => \A h \in handling \cup kept : h.buf # buf[c]
      BY <3>1 DEF OneHolder
    <3> QED
      BY <2>1, <3>2 DEF Fill
  <2>2. ASSUME NEW c \in Conns, ReadBody(c) PROVE spoiled' = {} /\ kept' = kept
    BY <2>1, <2>2, ReadBodySteps
  <2>3. ASSUME NEW c \in Conns, NEW k \in Nat, ReadFails(c, k) PROVE spoiled' = {} /\ kept' = kept
    BY <2>1, <2>3 DEF ReadFails
  <2>4. ASSUME NEW h \in handling, HandleMessage(h) PROVE spoiled' = {} /\ \A k \in kept' : k.buf = None
    BY <2>4 DEF HandleMessage
  <2>5. ASSUME NEW c, NEW l, \/ PeerConnects(c) \/ PeerCloses(c) \/ PeerSends(c, l) \/ Accept(c)
                             \/ ReadHeader(c) \/ SkipHeader(c) \/ ReadEOF(c)
        PROVE  spoiled' = {} /\ kept' = kept
    BY <2>5 DEF PeerConnects, PeerCloses, PeerSends, Accept, ReadHeader, SkipHeader, ReadEOF, handleVars
  <2>6. CASE Start \/ Stop \/ StopReturns \/ AcceptLoopEnds \/ UNCHANGED vars
    BY <2>6 DEF Start, Stop, StopReturns, AcceptLoopEnds, vars, handleVars
  <2> QED
    BY <2>2, <2>3, <2>4, <2>5, <2>6, ReadErrors DEF Next, HandleStep, AcceptStep, HandlerStep
<1>3. NothingSpoiled => (HandlerCopies => MessagesStayIntact)
  BY DEF NothingSpoiled, MessagesStayIntact
<1> QED
  BY <1>1, <1>2, <1>3, Base, Holder, PTL DEF SafeSpec

-----------------------------------------------------------------------------
(* The frames.                                                             *)
InFrames(c) ==
  inStep[c] => Contiguous(c) /\ AtFrame(c) /\ \A n \in DOMAIN got[c] : got[c][n] = Body(c, n)

LEMMA FrameTypes ==
  ASSUME Types, NEW c \in Conns
  PROVE  /\ Len(sent[c]) \in Nat /\ Len(got[c]) \in Nat /\ DOMAIN got[c] = 1 .. Len(got[c])
         /\ \A n \in 1 .. Len(sent[c]) : /\ sent[c][n] \in Frame
                                         /\ sent[c][n].at \in Nat /\ sent[c][n].len \in Nat
         /\ \A n \in 0 .. Len(sent[c]) : End(c, n) \in Nat
         /\ arrived[c] \in Nat /\ pos[c] \in Nat /\ pos[c] <= arrived[c]
<1>1. sent[c] \in Seq(Frame) /\ got[c] \in Seq(Message)
  BY DEF Types
<1>2. Len(sent[c]) \in Nat /\ Len(got[c]) \in Nat /\ DOMAIN got[c] = 1 .. Len(got[c])
  BY <1>1
<1>3. \A n \in 1 .. Len(sent[c]) : sent[c][n] \in Frame
  BY <1>1
<1>4. \A n \in 1 .. Len(sent[c]) : sent[c][n].at \in Nat /\ sent[c][n].len \in Nat
  BY <1>3 DEF Frame
<1>5. \A n \in 0 .. Len(sent[c]) : End(c, n) \in Nat
  BY <1>2, <1>4 DEF End
<1> QED
  BY <1>2, <1>3, <1>4, <1>5 DEF Types

(* A step that reads nothing from c and sends nothing on it.               *)
LEMMA FramesKept ==
  ASSUME NEW c \in Conns, InFrames(c), inStep'[c] => inStep[c], inStep'[c] => got'[c] = got[c],
         sent'[c] = sent[c], inStep'[c] => arrived'[c] = arrived[c], pos'[c] = pos[c], length'[c] = length[c],
         reader'[c] = "body" <=> reader[c] = "body"
  PROVE  InFrames(c)'
<1> SUFFICES ASSUME inStep'[c]
             PROVE  Contiguous(c)' /\ AtFrame(c)' /\ \A n \in DOMAIN got'[c] : got'[c][n] = Body(c, n)'
  BY DEF InFrames
<1>1. \A n : End(c, n)' = End(c, n) /\ Body(c, n)' = Body(c, n)
  BY DEF End, Body
<1>2. Contiguous(c) /\ AtFrame(c) /\ \A n \in DOMAIN got[c] : got[c][n] = Body(c, n)
  BY DEF InFrames
<1>3. Contiguous(c)'
  BY <1>1, <1>2 DEF Contiguous
<1>4. AtFrame(c)'
  BY <1>1, <1>2 DEF AtFrame
<1> QED
  BY <1>1, <1>2, <1>3, <1>4

(* A frame more on its way.                                                *)
LEMMA SendsFrame ==
  ASSUME BaseInv, NEW c \in Conns, InFrames(c), NEW l \in Lengths[c], PeerSends(c, l)
  PROVE  InFrames(c)'
<1> DEFINE f == [at |-> arrived[c], len |-> l]
<1>1. Types /\ l \in Nat
  BY DEF BaseInv
<1>2. PICK s \in Seq(Frame), k \in Nat : s = sent[c] /\ k = Len(s)
  BY <1>1 DEF Types
<1>3. f \in Frame /\ f.at = arrived[c] /\ f.len = l
  BY <1>1 DEF Types, Frame
<1>4. PICK w \in Seq(Frame) : w = Append(s, f)
  <2> HIDE DEF f
  <2>1. Append(s, f) \in Seq(Frame)
    BY <1>2, <1>3
  <2> QED
    BY <2>1
<1>5. /\ sent'[c] = w /\ arrived'[c] = arrived[c] + HeaderSize + l
      /\ UNCHANGED <<pos, reader, length, got, inStep>>
  BY <1>1, <1>2, <1>4 DEF Types, PeerSends, readVars, stepVars
<1> HIDE DEF f
<1>6. /\ Len(w) = k + 1 /\ w[k + 1] = f /\ \A n \in 1 .. k : w[n] = s[n]
  BY <1>2, <1>3, <1>4
<1> SUFFICES ASSUME inStep[c]
             PROVE  Contiguous(c)' /\ AtFrame(c)' /\ \A n \in DOMAIN got[c] : got[c][n] = Body(c, n)'
  BY <1>5 DEF InFrames
<1>7. /\ arrived[c] = End(c, k)
      /\ \A n \in 1 .. k : s[n].at = End(c, n - 1)
      /\ \A m, n \in 1 .. k : m < n => End(c, m) <= s[n].at
  BY <1>2 DEF InFrames, Contiguous
<1>8. AtFrame(c) /\ \A n \in DOMAIN got[c] : got[c][n] = Body(c, n)
  BY DEF InFrames
<1>9. /\ \A n \in 0 .. k : End(c, n) \in Nat
      /\ \A n \in 1 .. k : s[n].at \in Nat /\ s[n].len \in Nat
      /\ Len(got[c]) \in Nat /\ DOMAIN got[c] = 1 .. Len(got[c])
  BY <1>1, <1>2, FrameTypes
<1>10. \A n \in 0 .. k : End(c, n)' = End(c, n)
  BY <1>2, <1>5, <1>6 DEF End
<1>11. End(c, k + 1)' = arrived[c] + HeaderSize + l
  BY <1>2, <1>3, <1>5, <1>6 DEF End
<1>12. \A n \in 1 .. k : Body(c, n)' = Body(c, n)
  BY <1>2, <1>5, <1>6 DEF Body
<1>13. Contiguous(c)'
  <2>1. arrived'[c] = End(c, k + 1)'
    BY <1>5, <1>11
  <2>2. ASSUME NEW n \in 1 .. k + 1 PROVE w[n].at = End(c, n - 1)'
    <3>1. CASE n = k + 1
      <4>1. n - 1 = k /\ k \in 0 .. k
        BY <3>1
      <4> QED
        BY <1>3, <1>6, <1>7, <1>10, <3>1, <4>1
    <3>2. CASE n # k + 1
      <4>1. n \in 1 .. k /\ n - 1 \in 0 .. k
        BY <3>2
      <4> QED
        BY <1>6, <1>7, <1>10, <4>1
    <3> QED
      BY <3>1, <3>2
  <2>3. ASSUME NEW m \in 1 .. k + 1, NEW n \in 1 .. k + 1, m < n PROVE End(c, m)' <= w[n].at
    <3>1. m \in 1 .. k /\ m \in 0 .. k /\ k \in 1 .. k /\ k \in 0 .. k
      BY <2>3
    <3>2. End(c, m)' = End(c, m) /\ End(c, m) \in Nat /\ End(c, k) \in Nat
      BY <1>9, <1>10, <3>1
    <3>3. CASE n # k + 1
      <4>1. n \in 1 .. k
        BY <3>3
      <4>2. w[n] = s[n]
        BY <1>6, <4>1
      <4>3. End(c, m) <= s[n].at
        BY <1>7, <2>3, <3>1, <4>1
      <4> QED
        BY <3>2, <4>2, <4>3
    <3>4. CASE n = k + 1
      <4>1. w[n].at = End(c, k)
        BY <1>3, <1>6, <1>7, <3>4
      <4>2. CASE m = k
        BY <3>2, <4>1, <4>2
      <4>3. CASE m < k
        <5>1. End(c, m) <= s[k].at
          BY <1>7, <3>1, <4>3
        <5>2. s[k].at \in Nat /\ s[k].len \in Nat
          BY <1>9, <3>1
        <5>3. End(c, k) = s[k].at + HeaderSize + s[k].len
          BY <1>2, <3>1 DEF End
        <5>4. PICK a \in Nat, b \in Nat, d \in Nat : a = End(c, m) /\ b = s[k].at /\ d = s[k].len
          BY <3>2, <5>2
        <5>5. a <= b /\ End(c, k) = b + HeaderSize + d
          BY <5>1, <5>3, <5>4
        <5>6. HeaderSize \in Nat
          OBVIOUS
        <5>7. a <= b + HeaderSize + d
          BY ONLY <5>5, <5>6
        <5>8. End(c, m) <= End(c, k)
          BY <5>4, <5>5, <5>7
        <5> QED
          BY <3>2, <4>1, <5>8
      <4> QED
        BY <3>1, <4>2, <4>3
    <3> QED
      BY <3>3, <3>4
  <2> QED
    BY <1>5, <1>6, <2>1, <2>2, <2>3 DEF Contiguous
<1>14. Len(got[c]) <= k
  BY <1>2, <1>8, <1>9 DEF AtFrame
<1>15. AtFrame(c)'
  <2>1. CASE reader[c] = "body"
    <3>1. Len(got[c]) + 1 \in 1 .. k
      BY <1>2, <1>8, <1>9, <2>1 DEF AtFrame
    <3>2. PICK g \in Nat : g = Len(got[c])
      BY <1>9
    <3>3. w[g + 1] = s[g + 1]
      BY <1>6, <3>1, <3>2
    <3>4. pos[c] = s[g + 1].at + HeaderSize /\ length[c] = s[g + 1].len /\ g < k + 1
      BY <1>2, <1>8, <2>1, <3>2 DEF AtFrame
    <3> QED
      BY <1>5, <1>6, <2>1, <3>2, <3>3, <3>4 DEF AtFrame
  <2>2. CASE reader[c] # "body"
    <3>1. Len(got[c]) \in 0 .. k
      BY <1>9, <1>14
    <3>2. pos[c] = End(c, Len(got[c]))
      BY <1>8, <2>2 DEF AtFrame
    <3>3. \A n \in 0 .. k : n = Len(got[c]) => pos'[c] = End(c, n)'
      BY <1>5, <1>10, <3>2
    <3> QED
      BY <1>5, <1>6, <2>2, <3>1, <3>3 DEF AtFrame
  <2> QED
    BY <2>1, <2>2
<1>16. \A n \in DOMAIN got[c] : got[c][n] = Body(c, n)'
  <2>1. \A n \in DOMAIN got[c] : n \in 1 .. k
    BY <1>9, <1>14
  <2> QED
    BY <1>8, <1>12, <2>1
<1> QED
  BY <1>13, <1>15, <1>16

(* The header of the next frame is read, and says its length.              *)
LEMMA HeadersFrame ==
  ASSUME BaseInv, NEW c \in Conns, InFrames(c), ReadHeader(c)
  PROVE  InFrames(c)'
<1>1. Types
  BY DEF BaseInv
<1>0. PICK n \in Nat : n = Len(got[c])
  BY <1>1, FrameTypes
<1>2. /\ reader[c] = "header" /\ Unread(c) >= HeaderSize /\ reader'[c] = "body"
      /\ pos'[c] = pos[c] + HeaderSize /\ length'[c] \in HeaderSays(c)
      /\ UNCHANGED <<sent, arrived, got, inStep>>
  BY <1>1 DEF ReadHeader, Take, Types, stepVars
<1> SUFFICES ASSUME inStep[c]
             PROVE  Contiguous(c)' /\ AtFrame(c)' /\ \A i \in DOMAIN got[c] : got[c][i] = Body(c, i)'
  BY <1>2 DEF InFrames
<1>3. Contiguous(c) /\ AtFrame(c) /\ \A i \in DOMAIN got[c] : got[c][i] = Body(c, i)
  BY DEF InFrames
<1>4. \A i : End(c, i)' = End(c, i) /\ Body(c, i)' = Body(c, i)
  BY <1>2 DEF End, Body
<1>5. /\ Len(sent[c]) \in Nat /\ n \in Nat /\ n <= Len(sent[c]) /\ pos[c] = End(c, n)
      /\ arrived[c] \in Nat /\ pos[c] \in Nat
  BY <1>0, <1>1, <1>2, <1>3, FrameTypes DEF AtFrame
<1>6. n < Len(sent[c])
  BY <1>2, <1>3, <1>5 DEF Unread, Contiguous
<1>7. n + 1 \in 1 .. Len(sent[c]) /\ DOMAIN sent[c] = 1 .. Len(sent[c])
  BY <1>1, <1>5, <1>6 DEF Types
<1>8. sent[c][n + 1].at = pos[c]
  <2>1. (n + 1) - 1 = n
    BY <1>5
  <2> QED
    BY <1>3, <1>5, <1>7, <2>1 DEF Contiguous
<1>9. ASSUME NEW i \in 1 .. Len(sent[c]), sent[c][i].at = pos[c] PROVE i = n + 1
  <2>1. \A j \in 1 .. Len(sent[c]) : sent[c][j].len \in Nat
    BY <1>1, FrameTypes
  <2>2. ASSUME NEW j \in 1 .. Len(sent[c]), sent[c][j].at = pos[c] PROVE End(c, j) > pos[c]
    <3>1. End(c, j) = pos[c] + HeaderSize + sent[c][j].len /\ sent[c][j].len \in Nat
      BY <2>1, <2>2 DEF End
    <3> QED
      BY <1>5, <3>1
  <2>3. i < n + 1 => End(c, i) <= pos[c]
    BY <1>3, <1>7, <1>8 DEF Contiguous
  <2>4. n + 1 < i => End(c, n + 1) <= pos[c]
    BY <1>3, <1>7, <1>9 DEF Contiguous
  <2>5. End(c, i) \in Nat /\ End(c, n + 1) \in Nat
    BY <1>1, <1>5, <1>7, FrameTypes
  <2>6. End(c, i) > pos[c] /\ End(c, n + 1) > pos[c]
    BY <1>7, <1>8, <1>9, <2>2
  <2> QED
    BY <1>5, <2>3, <2>4, <2>5, <2>6
<1>10. length'[c] = sent[c][n + 1].len
  <2> DEFINE here == {i \in DOMAIN sent[c] : sent[c][i].at = pos[c]}
  <2>1. here = {n + 1}
    BY <1>7, <1>8, <1>9
  <2>2. HeaderSays(c) = {sent[c][i].len : i \in here}
    BY <2>1 DEF HeaderSays
  <2> QED
    BY <1>2, <2>1, <2>2
<1>11. Contiguous(c)'
  BY <1>2, <1>3, <1>4 DEF Contiguous
<1>12. AtFrame(c)'
  BY <1>0, <1>2, <1>6, <1>8, <1>10 DEF AtFrame
<1> QED
  BY <1>3, <1>4, <1>11, <1>12

(* The body of the next frame is read: it is the next message.             *)
LEMMA BodiesFrame ==
  ASSUME BaseInv, NEW c \in Conns, InFrames(c), ReadBody(c)
  PROVE  InFrames(c)'
<1>1. Types
  BY DEF BaseInv
<1>0. PICK n \in Nat : n = Len(got[c])
  BY <1>1, FrameTypes
<1>2. /\ reader[c] = "body" /\ reader'[c] # "body" /\ pos'[c] = pos[c] + length[c]
      /\ inStep[c] => got'[c] = Append(got[c], Read(c)) /\ Read(c) \in Message
      /\ UNCHANGED <<sent, arrived, inStep>>
  <2>1. reader'[c] = IF Handler(c) = c THEN "busy" ELSE "header"
    BY <1>1, ReadBodySteps DEF Types
  <2>2. pos'[c] = pos[c] + length[c]
    BY <1>1, ReadBodySteps DEF Types
  <2>3. inStep[c] => got'[c] = Append(got[c], Read(c)) /\ Read(c) \in Message
    BY <1>1, ReadBodySteps DEF Types
  <2> QED
    BY <2>1, <2>2, <2>3, ReadBodySteps
<1> SUFFICES ASSUME inStep[c]
             PROVE  Contiguous(c)' /\ AtFrame(c)' /\ \A i \in DOMAIN got'[c] : got'[c][i] = Body(c, i)'
  BY <1>2 DEF InFrames
<1>3. Contiguous(c) /\ AtFrame(c) /\ \A i \in DOMAIN got[c] : got[c][i] = Body(c, i)
  BY DEF InFrames
<1>4. \A i : End(c, i)' = End(c, i) /\ Body(c, i)' = Body(c, i)
  BY <1>2 DEF End, Body
<1>5. /\ n \in Nat /\ Len(sent[c]) \in Nat /\ n < Len(sent[c]) /\ got[c] \in Seq(Message)
      /\ pos[c] = sent[c][n + 1].at + HeaderSize /\ length[c] = sent[c][n + 1].len
  BY <1>0, <1>1, <1>2, <1>3, FrameTypes DEF AtFrame, Types
<1>6. Read(c) = Body(c, n + 1)
  BY <1>5 DEF Read, Body
<1>7. pos'[c] = End(c, n + 1)
  BY <1>2, <1>5 DEF End
<1>8. /\ Len(got'[c]) = n + 1 /\ DOMAIN got'[c] = 1 .. n + 1 /\ got'[c][n + 1] = Read(c)
      /\ \A i \in 1 .. n : got'[c][i] = got[c][i]
      /\ DOMAIN got[c] = 1 .. n
  BY <1>0, <1>2, <1>5
<1>9. \A i \in DOMAIN got'[c] : got'[c][i] = Body(c, i)
  BY <1>3, <1>5, <1>6, <1>8
<1>10. Contiguous(c)'
  BY <1>2, <1>3, <1>4 DEF Contiguous
<1>11. AtFrame(c)'
  BY <1>2, <1>4, <1>5, <1>7, <1>8 DEF AtFrame
<1> QED
  BY <1>4, <1>9, <1>10, <1>11

(* Every step keeps every connection in its frames or puts it out of step. *)
LEMMA NextFrames == BaseInv /\ FrameInv /\ [Next]_vars => FrameInv'
<1> SUFFICES ASSUME BaseInv, FrameInv, [Next]_vars, NEW c \in Conns PROVE InFrames(c)'
  BY DEF FrameInv, InFrames
<1>1. Types /\ InFrames(c)
  BY DEF BaseInv, FrameInv, InFrames
<1>2. ASSUME UNCHANGED <<sent, arrived, pos, length, got, inStep>>, reader'[c] = "body" <=> reader[c] = "body"
      PROVE  InFrames(c)'
  BY <1>1, <1>2, FramesKept
<1>3. ASSUME NEW d \in Conns, NEW l \in Lengths[d], PeerSends(d, l) PROVE InFrames(c)'
  <2>1. CASE d = c
    BY <1>1, <1>3, <2>1, SendsFrame
  <2>2. CASE d # c
    <3>1. UNCHANGED <<pos, length, reader, got, inStep>> /\ sent'[c] = sent[c] /\ arrived'[c] = arrived[c]
      BY <1>1, <1>3, <2>2 DEF Types, PeerSends, readVars, stepVars
    <3> QED
      BY <1>1, <3>1, FramesKept
  <2> QED
    BY <2>1, <2>2
<1>4. ASSUME NEW d \in Conns, OutOfStep(d) PROVE d = c => InFrames(c)'
  <2>1. d = c => ~inStep'[c]
    BY <1>1, <1>4 DEF Types, OutOfStep
  <2> QED
    BY <2>1 DEF InFrames
<1>5. ASSUME NEW d \in Conns, PeerCloses(d) PROVE InFrames(c)'
  <2>1. UNCHANGED <<sent, pos, length, reader>>
    BY <1>5 DEF PeerCloses, readVars
  <2>2. CASE UNCHANGED <<arrived, stepVars>>
    BY <1>2, <2>1, <2>2 DEF stepVars
  <2>3. ASSUME NEW k, arrived' = [arrived EXCEPT ![d] = k], OutOfStep(d), d # c PROVE InFrames(c)'
    <3>1. arrived'[c] = arrived[c] /\ got'[c] = got[c] /\ inStep'[c] = inStep[c]
      BY <1>1, <2>3 DEF Types, OutOfStep
    <3> QED
      BY <1>1, <2>1, <3>1, FramesKept
  <2> QED
    BY <1>4, <1>5, <2>2, <2>3 DEF PeerCloses
<1>6. ASSUME NEW d \in Conns, ReadHeader(d) PROVE InFrames(c)'
  <2>1. CASE d = c
    BY <1>1, <1>6, <2>1, HeadersFrame
  <2>2. CASE d # c
    <3>1. /\ UNCHANGED <<sent, arrived, got, inStep>>
          /\ reader'[c] = reader[c] /\ length'[c] = length[c] /\ pos'[c] = pos[c]
      BY <1>1, <1>6, <2>2 DEF Types, ReadHeader, Take, stepVars
    <3> QED
      BY <1>1, <3>1, FramesKept
  <2> QED
    BY <2>1, <2>2
<1>7. ASSUME NEW d \in Conns, SkipHeader(d) PROVE InFrames(c)'
  <2>1. CASE d = c
    BY <1>4, <1>7, <2>1 DEF SkipHeader
  <2>2. CASE d # c
    <3>1. /\ UNCHANGED <<sent, arrived, reader, length>>
          /\ got'[c] = got[c] /\ inStep'[c] = inStep[c] /\ pos'[c] = pos[c]
      BY <1>1, <1>7, <2>2 DEF Types, SkipHeader, Take, OutOfStep, readVars
    <3> QED
      BY <1>1, <3>1, FramesKept
  <2> QED
    BY <2>1, <2>2
<1>8. ASSUME NEW d \in Conns, ReadBody(d) PROVE InFrames(c)'
  <2>1. CASE d = c
    BY <1>1, <1>8, <2>1, BodiesFrame
  <2>2. CASE d # c
    <3>1. UNCHANGED <<sent, arrived, inStep>>
      BY <1>8, ReadBodySteps
    <3>2. pos'[c] = pos[c] /\ length'[c] = length[c] /\ reader'[c] = reader[c]
      BY <1>1, <1>8, <2>2, ReadBodySteps DEF Types
    <3>3. got'[c] = got[c]
      <4>1. got' = IF inStep[d] THEN [got EXCEPT ![d] = Append(got[d], Read(d))] ELSE got
        BY <1>8, ReadBodySteps
      <4>2. PICK v : got' = [got EXCEPT ![d] = v] \/ got' = got
        BY <4>1
      <4>3. c \in DOMAIN got
        BY <1>1 DEF Types
      <4> QED
        BY ONLY <2>2, <4>2, <4>3
    <3> QED
      BY <1>1, <3>1, <3>2, <3>3, FramesKept
  <2> QED
    BY <2>1, <2>2
<1>9. ASSUME NEW d \in Conns, NEW k \in Nat, Reading(d), ReadFails(d, k) PROVE InFrames(c)'
  <2>1. /\ UNCHANGED <<sent, arrived>> /\ pos' = [pos EXCEPT ![d] = pos[d] + k]
        /\ reader' = [reader EXCEPT ![d] = "header"] /\ length' = [length EXCEPT ![d] = 0]
    BY <1>9 DEF ReadFails, Take, Drop
  <2>2. CASE d # c
    <3>1. pos'[c] = pos[c] /\ length'[c] = length[c] /\ reader'[c] = reader[c]
      BY <1>1, <2>1, <2>2 DEF Types
    <3>2. got'[c] = got[c] /\ inStep'[c] = inStep[c]
      <4>1. UNCHANGED stepVars \/ OutOfStep(d)
        BY <1>9 DEF ReadFails
      <4>2. CASE OutOfStep(d)
        BY <1>1, <2>2, <4>2 DEF Types, OutOfStep
      <4> QED
        BY <4>1, <4>2 DEF stepVars
    <3> QED
      BY <1>1, <2>1, <3>1, <3>2, FramesKept
  <2>3. CASE d = c /\ k = 0 /\ reader[d] = "header"
    <3>1. UNCHANGED <<got, inStep>> /\ pos'[c] = pos[c] /\ reader'[c] = "header"
      BY <1>1, <1>9, <2>1, <2>3 DEF Types, ReadFails, stepVars
    <3>2. SUFFICES ASSUME inStep[c] PROVE Contiguous(c)' /\ AtFrame(c)' /\ \A n \in DOMAIN got'[c] : got'[c][n] = Body(c, n)'
      BY <3>1 DEF InFrames
    <3>3. Contiguous(c) /\ AtFrame(c) /\ \A n \in DOMAIN got[c] : got[c][n] = Body(c, n)
      BY <1>1, <3>2 DEF InFrames
    <3>4. \A n : End(c, n)' = End(c, n) /\ Body(c, n)' = Body(c, n)
      BY <2>1 DEF End, Body
    <3>5. Contiguous(c)'
      BY <2>1, <3>3, <3>4 DEF Contiguous
    <3>6. AtFrame(c)'
      BY <2>1, <2>3, <3>1, <3>3, <3>4 DEF AtFrame
    <3> QED
      BY <3>1, <3>3, <3>4, <3>5, <3>6
  <2>4. CASE d = c /\ ~(k = 0 /\ reader[d] = "header")
    BY <1>4, <1>9, <2>4 DEF ReadFails
  <2> QED
    BY <2>2, <2>3, <2>4
<1>10. ASSUME NEW h \in handling, HandleMessage(h) PROVE InFrames(c)'
  <2>1. UNCHANGED <<sent, arrived, pos, length, got, inStep>>
    BY <1>10 DEF HandleMessage, streamVars, stepVars
  <2>2. h.by = c => reader[c] = "busy"
    BY DEF BaseInv, ReaderInv
  <2>3. reader'[c] = "body" <=> reader[c] = "body"
    BY <1>1, <1>10, <2>2 DEF Types, HandleMessage
  <2> QED
    BY <1>2, <2>1, <2>3
<1>11. ASSUME NEW d \in Conns, Accept(d) \/ ReadEOF(d) PROVE InFrames(c)'
  <2>1. UNCHANGED <<sent, arrived, pos, length, got, inStep>>
    BY <1>11 DEF Accept, ReadEOF, streamVars, stepVars
  <2>2. reader'[c] = "body" <=> reader[c] = "body"
    BY <1>1, <1>11 DEF Types, Accept, ReadEOF
  <2> QED
    BY <1>2, <2>1, <2>2
<1>12. ASSUME NEW d \in Conns, PeerConnects(d) PROVE InFrames(c)'
  BY <1>2, <1>12 DEF PeerConnects, readVars, stepVars
<1>13. CASE Start \/ Stop \/ StopReturns \/ AcceptLoopEnds \/ UNCHANGED vars
  BY <1>2, <1>13 DEF Start, Stop, StopReturns, AcceptLoopEnds, vars, streamVars, readVars, stepVars
<1> QED
  BY <1>3, <1>5, <1>6, <1>7, <1>8, <1>9, <1>10, <1>11, <1>12, <1>13, ReadErrors
     DEF Next, HandleStep, AcceptStep, HandlerStep

(* As long as no frame of a connection was too large or cut, the messages  *)
(* handleConnection reads from it are the frames sent, in order and        *)
(* without a gap, whatever the other connections and the workers do.       *)
THEOREM MessagesStayFrames == SafeSpec => []MessagesAreFrames
<1>1. Init => FrameInv
  <2> SUFFICES ASSUME Init, NEW c \in Conns
               PROVE  Contiguous(c) /\ AtFrame(c) /\ \A n \in DOMAIN got[c] : got[c][n] = Body(c, n)
    BY DEF FrameInv
  <2>1. /\ sent[c] = <<>> /\ got[c] = <<>> /\ arrived[c] = 0 /\ pos[c] = 0 /\ reader[c] = "none"
        /\ Len(<<>>) = 0 /\ DOMAIN <<>> = {} /\ 1 .. 0 = {}
    BY EmptyIsSeq DEF Init
  <2> QED
    BY <2>1 DEF Contiguous, AtFrame, End
<1>2. ASSUME BaseInv, FrameInv PROVE MessagesAreFrames
  <2> SUFFICES ASSUME NEW c \in Conns, inStep[c]
               PROVE  Len(got[c]) <= Len(sent[c]) /\ \A n \in DOMAIN got[c] : got[c][n] = Body(c, n)
    BY DEF MessagesAreFrames
  <2>1. AtFrame(c) /\ \A n \in DOMAIN got[c] : got[c][n] = Body(c, n)
    BY <1>2 DEF FrameInv
  <2>2. Len(got[c]) \in Nat /\ Len(sent[c]) \in Nat
    BY <1>2, FrameTypes DEF BaseInv
  <2> QED
    BY <2>1, <2>2 DEF AtFrame
<1> QED
  BY <1>1, <1>2, NextFrames, Base, PTL DEF SafeSpec
=============================================================================
