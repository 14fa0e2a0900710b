----------------------------- MODULE NodeProofs -----------------------------
(***************************************************************************)
(* What Node guarantees for any number of connections, vertices and blocks *)
(* and any capacity of its channels.                                       *)
(***************************************************************************)
EXTENDS Node, SequenceLemmas, TLAPS

USE NodeAssumption

-----------------------------------------------------------------------------
(* Lists of steps.                                                         *)
Has(s, e) == \E i \in DOMAIN s : s[i] = e

(* The steps of a Stop or of a failed Start: no receiver is waited for     *)
(* before its listener is closed.                                          *)
StopStep == {"cancel", "await", "unlisten", "drain"} \X (Components \cup {"node"})
StopList(s) ==
  /\ s \in Seq(StopStep)
  /\ \A x \in Components : \A i \in DOMAIN s :
       s[i] = <<"unlisten", x>> => \E j \in DOMAIN s : i < j /\ s[j] = <<"drain", x>>

(* What is left of a Start or Stop.                                        *)
Pending(op, x) == Has(todo, <<op, x>>)

(* What can be left of a Start that has not failed.                        *)
StartPlans ==
  { StartSteps,
    << <<"start", "vertex">>, <<"start", "consensus">>, <<"connect", "node">> >>,
    << <<"start", "consensus">>, <<"connect", "node">> >>,
    << <<"connect", "node">> >> }

Starting == todo \in StartPlans

Up == running /\ todo = <<>>

(* Nothing of coordinator x runs.                                          *)
Silent(x) == loop[x] # "running" /\ ~listening[x] /\ \A c \in links : ServedBy(c) # x

(* While Start is under way the coordinators to come are silent, and so    *)
(* are the pumps.                                                          *)
StartInv ==
  Starting => /\ \A x \in Components : Pending("start", x) => Silent(x)
              /\ \A p \in Pumps : pump[p] # "running"

(* Otherwise, unless the node is up, all that still runs is still to be    *)
(* stopped.                                                                *)
StopInv ==
  (~Starting /\ ~Up) =>
    /\ \A x \in Components : /\ listening[x] => Pending("unlisten", x)
                             /\ loop[x] = "running" => Pending("await", x)
    /\ \A c \in links : Pending("drain", ServedBy(c))
    /\ \A p \in Pumps : pump[p] = "running" => Pending("await", "node")

LifeInv == (Starting \/ StopList(todo)) /\ StartInv /\ StopInv

(* Until the node's context is cancelled, that of consensus is not, only a *)
(* running node has pumps, and Stop begins with the node's context.        *)
NotStopped ==
  ~nodeCancelled =>
    /\ ~cancelled["consensus"]
    /\ (Pending("cancel", "consensus") \/ Pending("await", "node")) => todo[1] = <<"cancel", "node">>
    /\ ~running => held["vertices"] = None /\ \A p \in Pumps : pump[p] # "running"

OrderInv == NotStopped /\ VerticesInOrder

-----------------------------------------------------------------------------
(* A list made of two has the steps of both, in the same order.            *)
LEMMA HasConcat ==
  ASSUME NEW S, NEW s \in Seq(S), NEW u \in Seq(S), NEW e
  PROVE  Has(s \o u, e) <=> Has(s, e) \/ Has(u, e)
<1> DEFINE w == s \o u
<1>1. /\ w \in Seq(S) /\ Len(w) = Len(s) + Len(u) /\ Len(s) \in Nat /\ Len(u) \in Nat
      /\ DOMAIN s = 1 .. Len(s) /\ DOMAIN u = 1 .. Len(u) /\ DOMAIN w = 1 .. Len(w)
  BY ConcatProperties, LenProperties
<1>2. \A i \in 1 .. Len(s) + Len(u) : w[i] = IF i <= Len(s) THEN s[i] ELSE u[i - Len(s)]
  BY ConcatProperties
<1> HIDE DEF w
<1>3. ASSUME NEW i \in DOMAIN s PROVE i \in DOMAIN w /\ w[i] = s[i]
  BY <1>1, <1>2
<1>4. ASSUME NEW i \in DOMAIN u PROVE i + Len(s) \in DOMAIN w /\ w[i + Len(s)] = u[i]
  BY <1>1, <1>2
<1>5. ASSUME NEW i \in DOMAIN w
      PROVE  (i \in DOMAIN s /\ w[i] = s[i]) \/ (i - Len(s) \in DOMAIN u /\ w[i] = u[i - Len(s)])
  BY <1>1, <1>2
<1>6. Has(w, e) => Has(s, e) \/ Has(u, e)
  BY <1>5 DEF Has
<1>7. Has(s, e) \/ Has(u, e) => Has(w, e)
  BY <1>3, <1>4 DEF Has
<1> QED
  BY <1>6, <1>7 DEF w

LEMMA StopListConcat ==
  ASSUME NEW s, NEW u, StopList(s), StopList(u)
  PROVE  StopList(s \o u)
<1> DEFINE w == s \o u
<1>0. s \in Seq(StopStep) /\ u \in Seq(StopStep)
  BY DEF StopList
<1>1. /\ w \in Seq(StopStep) /\ Len(w) = Len(s) + Len(u) /\ Len(s) \in Nat /\ Len(u) \in Nat
      /\ DOMAIN s = 1 .. Len(s) /\ DOMAIN u = 1 .. Len(u) /\ DOMAIN w = 1 .. Len(w)
  BY <1>0, ConcatProperties, LenProperties
<1>2. \A i \in 1 .. Len(s) + Len(u) : w[i] = IF i <= Len(s) THEN s[i] ELSE u[i - Len(s)]
  BY <1>0, ConcatProperties
<1> HIDE DEF w
<1>3. ASSUME NEW x \in Components, NEW i \in DOMAIN w, w[i] = <<"unlisten", x>>
      PROVE  \E j \in DOMAIN w : i < j /\ w[j] = <<"drain", x>>
  <2>1. CASE i <= Len(s)
    <3>1. i \in DOMAIN s /\ s[i] = <<"unlisten", x>>
      BY <1>1, <1>2, <1>3, <2>1
    <3>2. PICK j \in DOMAIN s : i < j /\ s[j] = <<"drain", x>>
      BY <3>1 DEF StopList
    <3>3. j \in DOMAIN w /\ w[j] = s[j]
      BY <1>1, <1>2
    <3> QED
      BY <3>2, <3>3
  <2>2. CASE ~(i <= Len(s))
    <3>1. i - Len(s) \in DOMAIN u /\ u[i - Len(s)] = <<"unlisten", x>>
      BY <1>1, <1>2, <1>3, <2>2
    <3>2. PICK j \in DOMAIN u : i - Len(s) < j /\ u[j] = <<"drain", x>>
      BY <3>1 DEF StopList
    <3>3. j + Len(s) \in DOMAIN w /\ w[j + Len(s)] = u[j] /\ i < j + Len(s)
      BY <1>1, <1>2, <3>2
    <3> QED
      BY <3>2, <3>3
  <2> QED
    BY <2>1, <2>2
<1> QED
  BY <1>1, <1>3 DEF StopList, w

(* The rest of a list of steps.                                            *)
LEMMA TailOfStopList ==
  ASSUME NEW s, StopList(s), s # <<>>
  PROVE  StopList(Tail(s))
<1> DEFINE w == Tail(s)
<1>1. s \in Seq(StopStep)
  BY DEF StopList
<1>2. /\ w \in Seq(StopStep) /\ Len(s) \in Nat \ {0} /\ Len(w) = Len(s) - 1
      /\ DOMAIN s = 1 .. Len(s) /\ DOMAIN w = 1 .. Len(w)
      /\ \A i \in 1 .. Len(w) : w[i] = s[i + 1]
  BY <1>1
<1> HIDE DEF w
<1>3. ASSUME NEW x \in Components, NEW i \in DOMAIN w, w[i] = <<"unlisten", x>>
      PROVE  \E j \in DOMAIN w : i < j /\ w[j] = <<"drain", x>>
  <2>1. i + 1 \in DOMAIN s /\ s[i + 1] = <<"unlisten", x>>
    BY <1>2, <1>3
  <2>2. PICK j \in DOMAIN s : i + 1 < j /\ s[j] = <<"drain", x>>
    BY <2>1 DEF StopList
  <2>3. j - 1 \in DOMAIN w /\ w[j - 1] = s[j] /\ i < j - 1
    BY <1>2, <2>2
  <2> QED
    BY <2>2, <2>3
<1> QED
  BY <1>2, <1>3 DEF StopList, w

LEMMA HasTail ==
  ASSUME NEW S, NEW s \in Seq(S), s # <<>>, NEW e
  PROVE  /\ Has(Tail(s), e) => Has(s, e)
         /\ Has(s, e) => Head(s) = e \/ Has(Tail(s), e)
<1> DEFINE w == Tail(s)
<1>1. /\ Len(s) \in Nat \ {0} /\ Len(w) = Len(s) - 1 /\ Head(s) = s[1]
      /\ DOMAIN s = 1 .. Len(s) /\ DOMAIN w = 1 .. Len(w)
      /\ \A i \in 1 .. Len(w) : w[i] = s[i + 1]
  OBVIOUS
<1> HIDE DEF w
<1>2. ASSUME NEW i \in DOMAIN w PROVE i + 1 \in DOMAIN s /\ w[i] = s[i + 1]
  BY <1>1
<1>3. ASSUME NEW i \in DOMAIN s, i # 1 PROVE i - 1 \in DOMAIN w /\ w[i - 1] = s[i]
  BY <1>1, <1>3
<1>4. Has(w, e) => Has(s, e)
  BY <1>2 DEF Has
<1>5. Has(s, e) => Head(s) = e \/ Has(w, e)
  BY <1>1, <1>3 DEF Has
<1> QED
  BY <1>4, <1>5 DEF w

(* Stop of a coordinator cancels, waits for the loop, closes the listener  *)
(* and waits for the connections.                                          *)
LEMMA StopStepsList ==
  ASSUME NEW x \in Components
  PROVE  /\ StopList(StopSteps(x))
         /\ \A op \in {"cancel", "await", "unlisten", "drain"} : Has(StopSteps(x), <<op, x>>)
         /\ \A op, y : Has(StopSteps(x), <<op, y>>) => y = x
<1> DEFINE c == <<"cancel", x>>
           a == <<"await", x>>
           u == <<"unlisten", x>>
           d == <<"drain", x>>
<1>1. c \in StopStep /\ a \in StopStep /\ u \in StopStep /\ d \in StopStep
  BY DEF StopStep
<1>2. StopSteps(x) = <<c, u, d, a>> \/ StopSteps(x) = <<c, a, u, d>>
  BY DEF StopSteps
<1>3. /\ \A y : c # <<"unlisten", y>> /\ a # <<"unlisten", y>> /\ d # <<"unlisten", y>>
      /\ \A y : u = <<"unlisten", y>> => y = x
      /\ \A op, y : c = <<op, y>> \/ a = <<op, y>> \/ u = <<op, y>> \/ d = <<op, y>> => y = x
  OBVIOUS
<1>4. ASSUME NEW s, s = <<c, u, d, a>> \/ s = <<c, a, u, d>>
      PROVE  /\ StopList(s) /\ \A op \in {"cancel", "await", "unlisten", "drain"} : Has(s, <<op, x>>)
             /\ \A op, y : Has(s, <<op, y>>) => y = x
  <2> HIDE DEF c, a, u, d
  <2>1. s \in Seq(StopStep) /\ DOMAIN s = 1 .. 4
    BY <1>1, <1>4
  <2>2. CASE s = <<c, u, d, a>>
    <3>1. s[1] = c /\ s[2] = u /\ s[3] = d /\ s[4] = a
      BY <2>2
    <3>2. StopList(s)
      <4>1. SUFFICES ASSUME NEW y \in Components, NEW i \in 1 .. 4, s[i] = <<"unlisten", y>>
                     PROVE  i < 3 /\ s[3] = <<"drain", y>>
        BY <2>1 DEF StopList
      <4>2. i = 2
        BY <1>3, <3>1, <4>1
      <4>3. y = x
        BY <1>3, <3>1, <4>1, <4>2
      <4> QED
        BY <3>1, <4>2, <4>3 DEF d
    <3>3. \A op \in {"cancel", "await", "unlisten", "drain"} : Has(s, <<op, x>>)
      BY <2>1, <3>1 DEF Has, c, a, u, d
    <3>4. \A i \in DOMAIN s : s[i] \in {c, a, u, d}
      BY <2>1, <3>1
    <3> QED
      BY <1>3, <3>2, <3>3, <3>4 DEF Has
  <2>3. CASE s = <<c, a, u, d>>
    <3>1. s[1] = c /\ s[2] = a /\ s[3] = u /\ s[4] = d
      BY <2>3
    <3>2. StopList(s)
      <4>1. SUFFICES ASSUME NEW y \in Components, NEW i \in 1 .. 4, s[i] = <<"unlisten", y>>
                     PROVE  i < 4 /\ s[4] = <<"drain", y>>
        BY <2>1 DEF StopList
      <4>2. i = 3
        BY <1>3, <3>1, <4>1
      <4>3. y = x
        BY <1>3, <3>1, <4>1, <4>2
      <4> QED
        BY <3>1, <4>2, <4>3 DEF d
    <3>3. \A op \in {"cancel", "await", "unlisten", "drain"} : Has(s, <<op, x>>)
      BY <2>1, <3>1 DEF Has, c, a, u, d
    <3>4. \A i \in DOMAIN s : s[i] \in {c, a, u, d}
      BY <2>1, <3>1
    <3> QED
      BY <1>3, <3>2, <3>3, <3>4 DEF Has
  <2> QED
    BY <1>4, <2>2, <2>3
<1> QED
  BY <1>2, <1>4

(* A list with one step.                                                   *)
LEMMA SingleStep ==
  ASSUME NEW e \in StopStep, \A x \in Components : e # <<"unlisten", x>>
  PROVE  StopList(<<e>>) /\ \A f : Has(<<e>>, f) <=> f = e
BY DEF StopList, Has

(* Stop of the node stops all of its parts, the node's context first.      *)
LEMMA NodeStopList ==
  /\ StopList(NodeStopSteps) /\ NodeStopSteps # <<>> /\ NodeStopSteps[1] = <<"cancel", "node">>
  /\ \A x \in Components : \A op \in {"cancel", "await", "unlisten", "drain"} : Has(NodeStopSteps, <<op, x>>)
  /\ Has(NodeStopSteps, <<"await", "node">>)
<1> DEFINE A == << <<"cancel", "node">> >>
           B == A \o StopSteps("consensus")
           C == B \o StopSteps("transaction")
           D == C \o StopSteps("vertex")
           Z == << <<"await", "node">> >>
<1>0. "consensus" \in Components /\ "transaction" \in Components /\ "vertex" \in Components
  BY DEF Components
<1>1. /\ StopList(A) /\ StopList(Z) /\ Has(Z, <<"await", "node">>)
  <2>1. /\ <<"cancel", "node">> \in StopStep /\ <<"await", "node">> \in StopStep
        /\ \A x \in Components : <<"cancel", "node">> # <<"unlisten", x>> /\ <<"await", "node">> # <<"unlisten", x>>
    BY DEF StopStep
  <2> QED
    BY <2>1, SingleStep
<1>2. \A x \in Components : StopList(StopSteps(x))
  BY StopStepsList
<1>3. A \in Seq(StopStep) /\ Len(A) = 1 /\ A[1] = <<"cancel", "node">>
  BY <1>1 DEF StopList
<1>4. NodeStopSteps = D \o Z
  BY DEF NodeStopSteps
<1>5. StopList(B)
  BY <1>0, <1>1, <1>2, StopListConcat
<1> HIDE DEF A, B, C, D, Z
<1>6. StopList(C)
  BY <1>0, <1>2, <1>5, StopListConcat DEF C
<1>7. StopList(D)
  BY <1>0, <1>2, <1>6, StopListConcat DEF D
<1>8. StopList(NodeStopSteps)
  BY <1>1, <1>4, <1>7, StopListConcat
<1>9. /\ A \in Seq(StopStep) /\ B \in Seq(StopStep) /\ C \in Seq(StopStep) /\ D \in Seq(StopStep)
      /\ Z \in Seq(StopStep) /\ \A x \in Components : StopSteps(x) \in Seq(StopStep)
  BY <1>1, <1>2, <1>5, <1>6, <1>7 DEF StopList
<1>10. \A e : Has(NodeStopSteps, e) <=> Has(D, e) \/ Has(Z, e)
  BY <1>4, <1>9, HasConcat
<1>11. \A e : Has(D, e) <=> Has(C, e) \/ Has(StopSteps("vertex"), e)
  BY <1>0, <1>9, HasConcat DEF D
<1>12. \A e : Has(C, e) <=> Has(B, e) \/ Has(StopSteps("transaction"), e)
  BY <1>0, <1>9, HasConcat DEF C
<1>13. \A e : Has(B, e) <=> Has(A, e) \/ Has(StopSteps("consensus"), e)
  BY <1>0, <1>9, HasConcat DEF B
<1>14. ASSUME NEW x \in Components, NEW op \in {"cancel", "await", "unlisten", "drain"}
       PROVE  Has(NodeStopSteps, <<op, x>>)
  <2>1. Has(StopSteps(x), <<op, x>>)
    BY StopStepsList
  <2> QED
    BY <2>1, <1>10, <1>11, <1>12, <1>13 DEF Components
<1>15. NodeStopSteps # <<>> /\ NodeStopSteps[1] = <<"cancel", "node">>
  <2>1. Len(B) >= 1 /\ B[1] = A[1]
    BY <1>0, <1>3, <1>9, ConcatProperties DEF B
  <2>2. Len(C) >= 1 /\ C[1] = A[1]
    BY <1>0, <1>9, <2>1, ConcatProperties DEF C
  <2>3. Len(D) >= 1 /\ D[1] = A[1]
    BY <1>0, <1>9, <2>2, ConcatProperties DEF D
  <2>4. Len(NodeStopSteps) >= 1 /\ NodeStopSteps[1] = A[1]
    BY <1>4, <1>9, <2>3, ConcatProperties
  <2> QED
    BY <1>3, <1>8, <2>4 DEF StopList
<1> QED
  BY <1>1, <1>8, <1>10, <1>14, <1>15

(* A failed Start stops the coordinators it had started, those before x,   *)
(* and nothing of the node itself.                                         *)
LEMMA UndoList ==
  ASSUME NEW x \in Components
  PROVE  /\ StopList(UndoSteps(x))
         /\ x \in {"vertex", "consensus"} => \A op \in {"cancel", "await", "unlisten", "drain"} :
                                                Has(UndoSteps(x), <<op, "transaction">>)
         /\ x = "consensus" => \A op \in {"cancel", "await", "unlisten", "drain"} :
                                  Has(UndoSteps(x), <<op, "vertex">>)
         /\ \A op : ~Has(UndoSteps(x), <<op, "node">>) /\ ~Has(UndoSteps(x), <<op, "consensus">>)
<1> DEFINE T == StopSteps("transaction")
           V == StopSteps("vertex")
<1>1. "transaction" \in Components /\ "vertex" \in Components
  BY DEF Components
<1>2. /\ StopList(T) /\ StopList(V) /\ T \in Seq(StopStep) /\ V \in Seq(StopStep)
  BY <1>1, StopStepsList DEF StopList
<1>3. \A op : /\ ~Has(T, <<op, "node">>) /\ ~Has(T, <<op, "consensus">>)
              /\ ~Has(V, <<op, "node">>) /\ ~Has(V, <<op, "consensus">>)
  BY <1>1, StopStepsList
<1>4. \A op \in {"cancel", "await", "unlisten", "drain"} : Has(T, <<op, "transaction">>) /\ Has(V, <<op, "vertex">>)
  BY <1>1, StopStepsList
<1>5. UndoSteps(x) = IF x = "transaction" THEN <<>> ELSE IF x = "vertex" THEN T ELSE T \o V
  BY DEF UndoSteps, Components
<1> HIDE DEF T, V
<1>6. StopList(<<>>) /\ \A e : ~Has(<<>>, e)
  BY EmptyIsSeq DEF StopList, Has
<1>7. StopList(T \o V)
  BY <1>2, StopListConcat
<1>8. \A e : Has(T \o V, e) <=> Has(T, e) \/ Has(V, e)
  BY <1>2, HasConcat
<1> QED
  BY <1>2, <1>3, <1>4, <1>5, <1>6, <1>7, <1>8 DEF Components

-----------------------------------------------------------------------------
(* What fits into a channel.                                               *)
Fits == UNION {[1 .. n -> Items] : n \in 0 .. ChanCap}

LEMMA FitsProperties ==
  /\ <<>> \in Fits
  /\ \A s \in Fits : s \in Seq(Items) /\ (s # <<>> => Head(s) \in Items /\ Tail(s) \in Fits)
  /\ \A s \in Fits, e \in Items : Len(s) < ChanCap => Append(s, e) \in Fits
<1>1. ASSUME NEW n \in 0 .. ChanCap, NEW s \in [1 .. n -> Items] PROVE s \in Seq(Items) /\ Len(s) = n
  OBVIOUS
<1>2. ASSUME NEW s \in Seq(Items), Len(s) <= ChanCap PROVE s \in Fits
  <2>1. Len(s) \in 0 .. ChanCap /\ s \in [1 .. Len(s) -> Items]
    BY <1>2
  <2> QED
    BY <2>1 DEF Fits
<1>3. \A s \in Fits : s \in Seq(Items) /\ Len(s) <= ChanCap
  BY <1>1 DEF Fits
<1>4. <<>> \in Fits
  <2>1. <<>> \in Seq(Items) /\ Len(<<>>) <= ChanCap
    BY EmptyIsSeq
  <2> QED
    BY <1>2, <2>1
<1>5. ASSUME NEW s \in Fits, s # <<>> PROVE Head(s) \in Items /\ Tail(s) \in Fits
  <2>1. s \in Seq(Items) /\ Len(s) <= ChanCap
    BY <1>3
  <2>2. Head(s) \in Items /\ Tail(s) \in Seq(Items) /\ Len(Tail(s)) <= ChanCap
    BY <1>5, <2>1
  <2> QED
    BY <1>2, <2>2
<1>6. ASSUME NEW s \in Fits, NEW e \in Items, Len(s) < ChanCap PROVE Append(s, e) \in Fits
  <2>1. s \in Seq(Items)
    BY <1>3
  <2>2. Append(s, e) \in Seq(Items) /\ Len(Append(s, e)) <= ChanCap
    BY <1>6, <2>1
  <2> QED
    BY <1>2, <2>2
<1> QED
  BY <1>3, <1>4, <1>5, <1>6

(* The pumps join channels.                                                *)
LEMMA PumpEnds ==
  /\ \A p \in Pumps : Source[p] \in Channels /\ Target[p] \in Channels
  /\ Source["vertices"] = "received"
  /\ \A p \in Pumps : p # "vertices" => Source[p] # "received"
  /\ \A p \in Pumps : Target[p] # "received"
BY DEF Pumps, Channels, Source, Target

LEMMA NextTypes == TypeOK /\ [Next]_vars => TypeOK'
<1> SUFFICES ASSUME TypeOK, [Next]_vars PROVE TypeOK'
  OBVIOUS
<1> USE DEF TypeOK
<1>0. chan \in [Channels -> Fits]
  BY DEF Fits
<1>1. CASE Start
  <2>1. chan' \in [Channels -> Fits]
    BY <1>1, FitsProperties DEF Start
  <2> QED
    BY <1>1, <2>1 DEF Start, pumpVars, Fits
<1>2. CASE Stop
  BY <1>2 DEF Stop, compVars, netVars, pumpVars
<1>3. ASSUME NEW x \in Components, StartOne(x) \/ StartFails(x) PROVE TypeOK'
  BY <1>3 DEF StartOne, StartFails, compVars, netVars, pumpVars
<1>4. CASE ConnectComponents
  BY <1>4 DEF ConnectComponents, compVars, netVars
<1>5. CASE Cancel
  BY <1>5 DEF Cancel, netVars, pumpVars
<1>6. CASE Await
  BY <1>6 DEF Await, compVars, netVars, pumpVars
<1>7. CASE StopReceiver
  BY <1>7 DEF StopReceiver, netVars, pumpVars
<1>8. CASE DrainAndClose
  BY <1>8 DEF DrainAndClose, compVars, pumpVars
<1>9. ASSUME NEW x \in Components, PeerConnects(x) PROVE TypeOK'
  BY <1>9 DEF PeerConnects, lifeVars, compVars, pumpVars, Conns
<1>10. ASSUME NEW c \in Conns, ConnectionEnds(c) PROVE TypeOK'
  BY <1>10 DEF ConnectionEnds, lifeVars, compVars, pumpVars
<1>11. ASSUME NEW c \in Conns, NEW i \in Items, HandleMessage(c, i) PROVE TypeOK'
  <2>1. PICK by \in {None, c} : calls' = calls \cup {[item |-> i, at |-> ServedBy(c), by |-> by]}
    BY <1>11 DEF HandleMessage
  <2>2. ServedBy(c) \in Components
    BY DEF ServedBy, Conns, Components
  <2>3. calls' \subseteq [item : Items, at : Components, by : Conns \cup {None}]
    BY <2>1, <2>2
  <2> QED
    BY <1>11, <2>3 DEF HandleMessage, Appears, lifeVars, compVars, pumpVars
<1>12. ASSUME NEW i \in Items, CallStep(i) PROVE TypeOK'
  <2>1. PICK k \in calls : CallEnqueues(k) \/ CallGivesUp(k)
    BY <1>12 DEF CallStep
  <2>2. Inbox(k) \in Channels /\ k.item \in Items
    BY DEF Inbox, Channels
  <2>3. CASE CallEnqueues(k)
    <3>1. chan' \in [Channels -> Fits]
      BY <1>0, <2>2, <2>3, FitsProperties DEF CallEnqueues, HasRoom
    <3> QED
      BY <2>3, <3>1 DEF CallEnqueues, lifeVars, compVars, pumpVars, Fits
  <2>4. CASE CallGivesUp(k)
    BY <2>4 DEF CallGivesUp, lifeVars, compVars, pumpVars
  <2> QED
    BY <2>1, <2>3, <2>4
<1>13. ASSUME NEW b \in Blocks, CreateBlock(b) PROVE TypeOK'
  <2>1. chan' \in [Channels -> Fits]
    BY <1>0, <1>13, FitsProperties DEF CreateBlock, HasRoom, Channels, Items
  <2> QED
    BY <1>13, <2>1 DEF CreateBlock, Appears, lifeVars, compVars, netVars, pumpVars, Fits
<1>14. ASSUME NEW v \in Vertices, OfferVertex(v) PROVE TypeOK'
  <2>1. chan' \in [Channels -> Fits]
    BY <1>0, <1>14, FitsProperties DEF OfferVertex, HasRoom, Channels, Items
  <2> QED
    BY <1>14, <2>1 DEF OfferVertex, Appears, lifeVars, compVars, netVars, pumpVars, Fits
<1>15. CASE ConsensusTakes
  <2>1. chan' \in [Channels -> Fits]
    BY <1>0, <1>15, FitsProperties DEF ConsensusTakes, Channels
  <2> QED
    BY <1>15, <2>1 DEF ConsensusTakes, lifeVars, compVars, netVars, pumpVars, Fits
<1>16. CASE HandleBroadcast
  <2>1. chan' \in [Channels -> Fits]
    BY <1>0, <1>16, FitsProperties DEF HandleBroadcast, Channels
  <2> QED
    BY <1>16, <2>1 DEF HandleBroadcast, lifeVars, compVars, pumpVars, Fits, Conns
<1>17. ASSUME NEW x \in Components, LoopExits(x) PROVE TypeOK'
  BY <1>17 DEF LoopExits, lifeVars, netVars, pumpVars
<1>18. ASSUME NEW p \in Pumps, PumpTakes(p) PROVE TypeOK'
  <2>1. chan' \in [Channels -> Fits] /\ Head(chan[Source[p]]) \in Items
    BY <1>0, <1>18, PumpEnds, FitsProperties DEF PumpTakes
  <2> QED
    BY <1>18, <2>1 DEF PumpTakes, lifeVars, compVars, netVars, Fits
<1>19. ASSUME NEW p \in Pumps, PumpGives(p) PROVE TypeOK'
  <2>1. chan' \in [Channels -> Fits]
    BY <1>0, <1>19, PumpEnds, FitsProperties DEF PumpGives, HasRoom
  <2> QED
    BY <1>19, <2>1 DEF PumpGives, lifeVars, compVars, netVars, Fits
<1>20. ASSUME NEW p \in Pumps, PumpGivesUp(p) \/ PumpExits(p) PROVE TypeOK'
  BY <1>20 DEF PumpGivesUp, PumpExits, lifeVars, compVars, netVars
<1>21. CASE UNCHANGED vars
  BY <1>21 DEF vars, lifeVars, compVars, netVars, pumpVars
<1> QED
  BY <1>1, <1>2, <1>3, <1>4, <1>5, <1>6, <1>7, <1>8, <1>9, <1>10, <1>11, <1>12, <1>13, <1>14, <1>15,
     <1>16, <1>17, <1>18, <1>19, <1>20, <1>21 DEF Next, Lifecycle

(* The node's state keeps its types: in particular no channel ever holds   *)
(* more than its capacity.                                                 *)
THEOREM NodeTypes == SafeSpec => []TypeOK
<1>1. Init => TypeOK
  <2>1. <<>> \in Fits
    BY FitsProperties
  <2> QED
    BY <2>1 DEF Init, TypeOK, Fits
<1> QED
  BY <1>1, NextTypes, PTL DEF SafeSpec

-----------------------------------------------------------------------------
(* Start does one step after the other.                                    *)
LEMMA TailOfList ==
  ASSUME NEW a, NEW b, NEW c, NEW d
  PROVE  /\ Tail(<<a, b, c, d>>) = <<b, c, d>> /\ Head(<<a, b, c, d>>) = a
         /\ Tail(<<a, b, c>>) = <<b, c>> /\ Head(<<a, b, c>>) = a
         /\ Tail(<<a, b>>) = <<b>> /\ Head(<<a, b>>) = a
         /\ Tail(<<a>>) = <<>> /\ Head(<<a>>) = a
OBVIOUS

LEMMA HasFour ==
  ASSUME NEW a, NEW b, NEW c, NEW d, NEW e
  PROVE  Has(<<a, b, c, d>>, e) <=> e \in {a, b, c, d}
<1> DEFINE s == <<a, b, c, d>>
<1>1. DOMAIN s = {1, 2, 3, 4} /\ s[1] = a /\ s[2] = b /\ s[3] = c /\ s[4] = d
  OBVIOUS
<1> HIDE DEF s
<1>2. Has(s, e) <=> e \in {a, b, c, d}
  BY <1>1 DEF Has
<1> QED
  BY <1>2 DEF s

LEMMA HasList ==
  ASSUME NEW a, NEW b, NEW c, NEW e
  PROVE  /\ Has(<<a, b, c>>, e) <=> e \in {a, b, c}
         /\ Has(<<a, b>>, e) <=> e \in {a, b}
         /\ Has(<<a>>, e) <=> e = a
<1>1. Has(<<a, b, c>>, e) <=> e \in {a, b, c}
  <2> DEFINE s == <<a, b, c>>
  <2>1. DOMAIN s = {1, 2, 3} /\ s[1] = a /\ s[2] = b /\ s[3] = c
    OBVIOUS
  <2> HIDE DEF s
  <2>2. Has(s, e) <=> e \in {a, b, c}
    BY <2>1 DEF Has
  <2> QED
    BY <2>2 DEF s
<1>2. Has(<<a, b>>, e) <=> e \in {a, b}
  <2> DEFINE s == <<a, b>>
  <2>1. DOMAIN s = {1, 2} /\ s[1] = a /\ s[2] = b
    OBVIOUS
  <2> HIDE DEF s
  <2>2. Has(s, e) <=> e \in {a, b}
    BY <2>1 DEF Has
  <2> QED
    BY <2>2 DEF s
<1>3. Has(<<a>>, e) <=> e = a
  BY DEF Has
<1> QED
  BY <1>1, <1>2, <1>3

(* The coordinators that a Start under way has still to start.             *)
ToStart(X) == \A x \in Components : Pending("start", x) <=> x \in X

(* A Start under way: which step is next, what it leaves.                  *)
LEMMA StartPlanCases ==
  ASSUME Starting
  PROVE  \/ /\ Head(todo) = <<"start", "transaction">> /\ ToStart(Components)
            /\ Tail(todo) = << <<"start", "vertex">>, <<"start", "consensus">>, <<"connect", "node">> >>
         \/ /\ Head(todo) = <<"start", "vertex">> /\ ToStart({"vertex", "consensus"})
            /\ Tail(todo) = << <<"start", "consensus">>, <<"connect", "node">> >>
         \/ /\ Head(todo) = <<"start", "consensus">> /\ ToStart({"consensus"})
            /\ Tail(todo) = << <<"connect", "node">> >>
         \/ /\ Head(todo) = <<"connect", "node">> /\ ToStart({})
            /\ Tail(todo) = <<>>
<1> DEFINE t == <<"start", "transaction">>
           v == <<"start", "vertex">>
           c == <<"start", "consensus">>
           n == <<"connect", "node">>
<1>1. todo \in {<<t, v, c, n>>, <<v, c, n>>, <<c, n>>, <<n>>}
  BY DEF Starting, StartPlans, StartSteps
<1>2. \A x : /\ <<"start", x>> = t <=> x = "transaction"
             /\ <<"start", x>> = v <=> x = "vertex"
             /\ <<"start", x>> = c <=> x = "consensus"
             /\ <<"start", x>> # n
  OBVIOUS
<1> HIDE DEF t, v, c, n
<1>3. CASE todo = <<t, v, c, n>>
  <2>1. Head(todo) = t /\ Tail(todo) = <<v, c, n>>
    BY <1>3, TailOfList
  <2>2. \A e : Has(todo, e) <=> e \in {t, v, c, n}
    <3>1. \A e : Has(<<t, v, c, n>>, e) <=> e \in {t, v, c, n}
      BY HasFour
    <3> QED
      BY <1>3, <3>1
  <2>3. ToStart(Components)
    BY <1>2, <2>2 DEF ToStart, Pending, Components
  <2> QED
    BY <2>1, <2>3 DEF t, v, c, n
<1>4. CASE todo = <<v, c, n>>
  <2>1. Head(todo) = v /\ Tail(todo) = <<c, n>>
    BY <1>4, TailOfList
  <2>2. \A e : Has(todo, e) <=> e \in {v, c, n}
    <3>1. \A e : Has(<<v, c, n>>, e) <=> e \in {v, c, n}
      BY ONLY HasList, ZenonT(40)
    <3> QED
      BY <1>4, <3>1
  <2>3. ToStart({"vertex", "consensus"})
    BY <1>2, <2>2 DEF ToStart, Pending
  <2> QED
    BY <2>1, <2>3 DEF t, v, c, n
<1>5. CASE todo = <<c, n>>
  <2>1. Head(todo) = c /\ Tail(todo) = <<n>>
    BY <1>5, TailOfList
  <2>2. \A e : Has(todo, e) <=> e \in {c, n}
    BY <1>5, HasList
  <2>3. ToStart({"consensus"})
    BY <1>2, <2>2 DEF ToStart, Pending
  <2> QED
    BY <2>1, <2>3 DEF t, v, c, n
<1>6. CASE todo = <<n>>
  <2>1. Head(todo) = n /\ Tail(todo) = <<>>
    BY <1>6, TailOfList
  <2>2. \A e : Has(todo, e) <=> e = n
    BY <1>6, HasList
  <2>3. ToStart({})
    BY <1>2, <2>2 DEF ToStart, Pending
  <2> QED
    BY <2>1, <2>3 DEF t, v, c, n
<1> QED
  BY <1>1, <1>3, <1>4, <1>5, <1>6

(* A Start under way is not a Stop, and an empty list is neither.          *)
LEMMA PhasesDiffer ==
  /\ StopList(todo) => ~Starting /\ (todo # <<>> => Head(todo) \in StopStep)
  /\ todo = <<>> => ~Starting
<1>1. ASSUME StopList(todo), todo # <<>> PROVE Head(todo) \in StopStep
  BY <1>1 DEF StopList
<1>2. todo = <<>> => ~Starting
  BY DEF Starting, StartPlans, StartSteps
<1>3. ASSUME Starting PROVE Head(todo) \notin StopStep
  BY <1>3, StartPlanCases DEF StopStep
<1> QED
  BY <1>1, <1>2, <1>3

-----------------------------------------------------------------------------
(* A step of a Stop leaves the others to be done.                          *)
LEMMA StopDoing ==
  ASSUME StopList(todo), NEW op, NEW x, Doing(op, x)
  PROVE  /\ StopList(todo)' /\ <<op, x>> \in StopStep
         /\ \A o, y : (Pending(o, y) /\ <<o, y>> # <<op, x>>) => Pending(o, y)'
<1>1. todo # <<>> /\ Head(todo) = <<op, x>> /\ todo' = Tail(todo) /\ todo \in Seq(StopStep)
  BY DEF Doing, StopList
<1>2. StopList(Tail(todo))
  BY <1>1, TailOfStopList
<1>3. StopList(todo)'
  BY <1>1, <1>2 DEF StopList, StopStep, Components
<1>4. \A e : Has(todo, e) => Head(todo) = e \/ Has(Tail(todo), e)
  BY <1>1, HasTail
<1>5. \A o, y : (Pending(o, y) /\ <<o, y>> # <<op, x>>) => Pending(o, y)'
  BY <1>1, <1>4 DEF Pending, Has
<1>6. <<op, x>> \in StopStep
  BY <1>1, PhasesDiffer
<1> QED
  BY <1>3, <1>5, <1>6

(* Steps of the goroutines: a connection is accepted by a listener, and    *)
(* loops and pumps only end.                                               *)
LEMMA GoroutinesKeepLife ==
  ASSUME TypeOK, LifeInv, UNCHANGED <<todo, running, listening>>,
         \A x \in Components : loop'[x] = "running" => loop[x] = "running",
         \A p \in Pumps : pump'[p] = "running" => pump[p] = "running",
         \A c \in links' : c \in links \/ (ServedBy(c) \in Components /\ listening[ServedBy(c)])
  PROVE  LifeInv'
<1>1. /\ Starting' <=> Starting
      /\ StopList(todo)' <=> StopList(todo)
      /\ Up' <=> Up
      /\ \A o, y : Pending(o, y)' <=> Pending(o, y)
  BY DEF Starting, StopList, Up, Pending, Has, StartPlans, StartSteps, StopStep, Components
<1>2. StartInv'
  <2> SUFFICES ASSUME Starting
               PROVE  /\ \A x \in Components : Pending("start", x) => Silent(x)'
                      /\ \A p \in Pumps : pump'[p] # "running"
    BY <1>1 DEF StartInv
  <2>1. /\ \A x \in Components : Pending("start", x) => Silent(x)
        /\ \A p \in Pumps : pump[p] # "running"
    BY DEF LifeInv, StartInv
  <2>2. ASSUME NEW x \in Components, Silent(x) PROVE Silent(x)'
    BY <2>2 DEF Silent, ServedBy
  <2> QED
    BY <2>1, <2>2
<1>3. StopInv'
  <2> SUFFICES ASSUME ~Starting, ~Up
               PROVE  /\ \A x \in Components : /\ listening'[x] => Pending("unlisten", x)
                                               /\ loop'[x] = "running" => Pending("await", x)
                      /\ \A c \in links' : Pending("drain", ServedBy(c))
                      /\ \A p \in Pumps : pump'[p] = "running" => Pending("await", "node")
    BY <1>1 DEF StopInv, ServedBy
  <2>1. /\ \A x \in Components : /\ listening[x] => Pending("unlisten", x)
                                 /\ loop[x] = "running" => Pending("await", x)
        /\ \A c \in links : Pending("drain", ServedBy(c))
        /\ \A p \in Pumps : pump[p] = "running" => Pending("await", "node")
    BY DEF LifeInv, StopInv
  <2>2. ASSUME NEW c \in links', ServedBy(c) \in Components, listening[ServedBy(c)]
        PROVE  Pending("drain", ServedBy(c))
    <3>1. Pending("unlisten", ServedBy(c)) /\ StopList(todo)
      BY <2>1, <2>2 DEF LifeInv
    <3> QED
      BY <2>2, <3>1 DEF StopList, Pending, Has
  <2> QED
    BY <2>1, <2>2
<1> QED
  BY <1>1, <1>2, <1>3 DEF LifeInv

(* Steps of Stop: what is done is stopped.                                 *)
LEMMA StopStepKeepsLife ==
  ASSUME TypeOK, LifeInv, StopList(todo), NEW op, NEW x, Doing(op, x),
         \A y \in Components : /\ listening'[y] => listening[y] /\ <<op, x>> # <<"unlisten", y>>
                               /\ loop'[y] = "running" => loop[y] = "running" /\ <<op, x>> # <<"await", y>>,
         \A c \in links' : c \in links /\ <<op, x>> # <<"drain", ServedBy(c)>>,
         \A p \in Pumps : pump'[p] = "running" => pump[p] = "running" /\ <<op, x>> # <<"await", "node">>
  PROVE  LifeInv'
<1>1. /\ StopList(todo)' /\ \A o, y : (Pending(o, y) /\ <<o, y>> # <<op, x>>) => Pending(o, y)'
  BY StopDoing
<1>2. ~Starting /\ ~Up /\ ~Starting'
  <2>1. ~Starting /\ ~Up
    BY PhasesDiffer DEF Doing, Up
  <2>2. (StopList(todo) => ~Starting)'
    BY PhasesDiffer, PTL
  <2> QED
    BY <1>1, <2>1, <2>2
<1>3. StopInv
  BY DEF LifeInv
<1>4. StopInv'
  BY <1>1, <1>2, <1>3 DEF StopInv, ServedBy
<1> QED
  BY <1>1, <1>2, <1>4 DEF LifeInv, StartInv

(* Start: what an earlier run has left is silent, by StopInv.              *)
LEMMA StartKeepsLife == ASSUME TypeOK, LifeInv, Start PROVE LifeInv'
<1>1. /\ todo = <<>> /\ ~running /\ todo' = StartSteps /\ UNCHANGED <<listening, links, pump>>
      /\ \A x \in Components : loop'[x] = "none"
  BY DEF Start, pumpVars
<1>2. ~Starting /\ ~Up /\ \A o, y : ~Pending(o, y)
  <2>1. DOMAIN todo = {}
    BY <1>1, EmptyIsSeq
  <2> QED
    BY <1>1, <2>1, PhasesDiffer DEF Up, Pending, Has
<1>3. /\ \A x \in Components : ~listening[x]
      /\ \A c \in links : FALSE
      /\ \A p \in Pumps : pump[p] # "running"
  BY <1>2 DEF LifeInv, StopInv
<1>4. Starting'
  BY <1>1 DEF Starting, StartPlans, StartSteps
<1>5. StartInv'
  BY <1>1, <1>3 DEF StartInv, Silent
<1> QED
  BY <1>4, <1>5 DEF LifeInv, StopInv

(* Stop: everything is to be stopped.                                      *)
LEMMA StopKeepsLife == ASSUME TypeOK, LifeInv, Stop PROVE LifeInv'
<1>1. todo' = NodeStopSteps /\ UNCHANGED <<links>>
  BY DEF Stop, netVars
<1>2. /\ StopList(NodeStopSteps)
      /\ \A x \in Components : \A op \in {"cancel", "await", "unlisten", "drain"} : Has(NodeStopSteps, <<op, x>>)
      /\ Has(NodeStopSteps, <<"await", "node">>)
  BY NodeStopList
<1>3. /\ \A x \in Components : Pending("await", x)' /\ Pending("unlisten", x)' /\ Pending("drain", x)'
      /\ Pending("await", "node")'
  <2>1. \A o, y : Has(NodeStopSteps, <<o, y>>) => Pending(o, y)'
    BY <1>1 DEF Pending, Has
  <2> QED
    BY <1>2, <2>1
<1>4. StopList(todo)'
  BY <1>1, <1>2 DEF StopList, StopStep, Components
<1>5. (StopList(todo) => ~Starting)'
  BY PhasesDiffer, PTL
<1>6. \A c \in links' : ServedBy(c) \in Components
  BY <1>1 DEF TypeOK, ServedBy, Conns, Components
<1>7. StopInv'
  BY <1>3, <1>6 DEF StopInv, ServedBy
<1> QED
  BY <1>4, <1>5, <1>7 DEF LifeInv, StartInv

(* Start of one coordinator, and the pumps: the rest of the plan is left.  *)
LEMMA StartOneKeepsLife == ASSUME TypeOK, LifeInv, NEW x \in Components, StartOne(x) PROVE LifeInv'
<1>1. /\ Doing("start", x) /\ UNCHANGED <<links, pump>>
      /\ \A y \in Components : y # x => listening'[y] = listening[y] /\ loop'[y] = loop[y]
  BY DEF StartOne, netVars, pumpVars, TypeOK
<1>2. Starting
  <2>1. <<"start", x>> \notin StopStep
    BY DEF StopStep
  <2> QED
    BY <1>1, <2>1, StopDoing DEF LifeInv
<1>3. /\ \A y \in Components : Pending("start", y) => Silent(y)
      /\ \A p \in Pumps : pump[p] # "running"
  BY <1>2 DEF LifeInv, StartInv
<1>4. /\ Starting'
      /\ \A y \in Components : Pending("start", y)' => Pending("start", y) /\ y # x
  <2>1. todo' = Tail(todo) /\ Head(todo) = <<"start", x>>
    BY <1>1 DEF Doing
  <2>3. CASE Head(todo) = <<"start", "transaction">>
    <3>1. /\ x = "transaction" /\ ToStart(Components)
          /\ todo' = << <<"start", "vertex">>, <<"start", "consensus">>, <<"connect", "node">> >>
      BY <1>2, <2>1, <2>3, StartPlanCases
    <3> DEFINE v == <<"start", "vertex">>
               c == <<"start", "consensus">>
               n == <<"connect", "node">>
    <3>2. \A e : Has(todo, e)' <=> e \in {v, c, n}
      <4> HIDE DEF v, c, n
      <4>1. \A e : Has(<<v, c, n>>, e) <=> e \in {v, c, n}
        BY HasList
      <4>2. todo' = <<v, c, n>>
        BY <3>1 DEF v, c, n
      <4> QED
        BY <4>1, <4>2 DEF Has
    <3>3. ~Pending("start", "transaction")'
      BY <3>2 DEF Pending
    <3> QED
      BY <3>1, <3>3 DEF ToStart, Starting, StartPlans
  <2>4. CASE Head(todo) = <<"start", "vertex">>
    <3>1. /\ x = "vertex" /\ ToStart({"vertex", "consensus"})
          /\ todo' = << <<"start", "consensus">>, <<"connect", "node">> >>
      BY <1>2, <2>1, <2>4, StartPlanCases
    <3>2. \A e : Has(todo, e)' <=> e \in {<<"start", "consensus">>, <<"connect", "node">>}
      <4>1. \A e : Has(<< <<"start", "consensus">>, <<"connect", "node">> >>, e)
                     <=> e \in {<<"start", "consensus">>, <<"connect", "node">>}
        BY HasList
      <4> QED
        BY <3>1, <4>1 DEF Has
    <3>3. \A y : Pending("start", y)' => y = "consensus"
      BY <3>2 DEF Pending
    <3> QED
      BY <3>1, <3>3 DEF ToStart, Starting, StartPlans
  <2>5. CASE Head(todo) = <<"start", "consensus">>
    <3>1. x = "consensus" /\ todo' = << <<"connect", "node">> >>
      BY <1>2, <2>1, <2>5, StartPlanCases
    <3>2. \A e : Has(todo, e)' <=> e = <<"connect", "node">>
      <4>1. \A e : Has(<< <<"connect", "node">> >>, e) <=> e = <<"connect", "node">>
        BY HasList
      <4> QED
        BY <3>1, <4>1 DEF Has
    <3>3. \A y : ~Pending("start", y)'
      BY <3>2 DEF Pending
    <3> QED
      BY <3>1, <3>3 DEF Starting, StartPlans
  <2> QED
    BY <1>2, <2>1, <2>3, <2>4, <2>5, StartPlanCases
<1>5. \A y \in Components : Pending("start", y)' => Silent(y)'
  BY <1>1, <1>3, <1>4 DEF Silent, ServedBy
<1> QED
  BY <1>1, <1>3, <1>4, <1>5 DEF LifeInv, StartInv, StopInv

(* A coordinator does not start: those started before it are stopped.      *)
LEMMA StartFailsKeepsLife == ASSUME TypeOK, LifeInv, NEW x \in Components, StartFails(x) PROVE LifeInv'
<1>1. /\ todo # <<>> /\ Head(todo) = <<"start", x>> /\ todo' = UndoSteps(x)
      /\ UNCHANGED <<links, pump, listening, loop>>
  BY DEF StartFails, netVars, pumpVars, compVars
<1>2. Starting
  <2>1. <<"start", x>> \notin StopStep
    BY DEF StopStep
  <2> QED
    BY <1>1, <2>1, PhasesDiffer DEF LifeInv
<1>3. /\ \A y \in Components : Pending("start", y) => Silent(y)
      /\ \A p \in Pumps : pump[p] # "running"
  BY <1>2 DEF LifeInv, StartInv
<1>4. ToStart(IF x = "transaction" THEN Components ELSE IF x = "vertex" THEN {"vertex", "consensus"} ELSE {"consensus"})
  BY <1>1, <1>2, StartPlanCases DEF Components
<1>5. \A o, y : Has(UndoSteps(x), <<o, y>>) => Pending(o, y)'
  BY <1>1 DEF Pending, Has
<1>6. \A y \in Components : Silent(y) \/ (Pending("await", y)' /\ Pending("unlisten", y)' /\ Pending("drain", y)')
  BY <1>3, <1>4, <1>5, UndoList DEF Components, ToStart
<1>7. StopList(todo)'
  <2>1. StopList(UndoSteps(x))
    BY UndoList
  <2> QED
    BY <1>1, <2>1 DEF StopList, StopStep, Components
<1>8. (StopList(todo) => ~Starting)'
  BY PhasesDiffer, PTL
<1>9. \A c \in links : ServedBy(c) \in Components
  BY DEF TypeOK, ServedBy, Conns, Components
<1>10. StopInv'
  BY <1>1, <1>3, <1>6, <1>9 DEF StopInv, ServedBy, Silent
<1> QED
  BY <1>7, <1>8, <1>10 DEF LifeInv, StartInv

(* connectComponents is the last step of Start.                            *)
LEMMA ConnectKeepsLife == ASSUME TypeOK, LifeInv, ConnectComponents PROVE LifeInv'
<1>1. Doing("connect", "node") /\ running' = TRUE
  BY DEF ConnectComponents
<1>2. Starting
  <2>1. <<"connect", "node">> \notin StopStep
    BY DEF StopStep
  <2> QED
    BY <1>1, <2>1, StopDoing DEF LifeInv
<1>3. todo' = <<>>
  BY <1>1, <1>2, StartPlanCases DEF Doing
<1>4. StopList(todo)'
  BY <1>3, EmptyIsSeq DEF StopList
<1>5. (StopList(todo) => ~Starting)'
  BY PhasesDiffer, PTL
<1> QED
  BY <1>1, <1>3, <1>4, <1>5 DEF LifeInv, StartInv, StopInv, Up

(* A step of Stop: cancel, wait, close the listener, wait for connections. *)
LEMMA StoppingKeepsLife ==
  ASSUME TypeOK, LifeInv, Cancel \/ Await \/ StopReceiver \/ DrainAndClose
  PROVE  LifeInv'
<1>0. ASSUME NEW op, NEW x, Doing(op, x), op \notin {"start", "connect"} PROVE StopList(todo)
  <2>1. Starting => op \in {"start", "connect"}
    BY <1>0, StartPlanCases DEF Doing
  <2> QED
    BY <1>0, <2>1 DEF LifeInv
<1>1. CASE Cancel
  <2>1. PICK x : Doing("cancel", x)
    BY <1>1 DEF Cancel
  <2>2. UNCHANGED <<loop, listening, links, pump>>
    BY <1>1 DEF Cancel, netVars, pumpVars
  <2> QED
    BY <1>0, <2>1, <2>2, StopStepKeepsLife
<1>2. CASE Await
  <2>1. UNCHANGED <<loop, listening, links, pump>>
    BY <1>2 DEF Await, compVars, netVars, pumpVars
  <2>2. ASSUME NEW x \in Components, Doing("await", x), loop[x] # "running" PROVE LifeInv'
    <3>1. \A y : <<"await", x>> = <<"await", y>> => y = x
      OBVIOUS
    <3>2. x # "node"
      BY DEF Components
    <3>3. StopList(todo)
      BY <1>0, <2>2
    <3> QED
      BY <2>1, <2>2, <3>1, <3>2, <3>3, StopStepKeepsLife
  <2>3. ASSUME Doing("await", "node"), \A p \in Pumps : pump[p] # "running" PROVE LifeInv'
    <3>1. \A y \in Components : <<"await", "node">> # <<"await", y>>
      BY DEF Components
    <3>2. StopList(todo)
      BY <1>0, <2>3
    <3> QED
      BY <2>1, <2>3, <3>1, <3>2, StopStepKeepsLife
  <2> QED
    BY <1>2, <2>2, <2>3 DEF Await
<1>3. CASE StopReceiver
  <2>1. PICK x \in Components : Doing("unlisten", x) /\ listening' = [listening EXCEPT ![x] = FALSE]
    BY <1>3 DEF StopReceiver
  <2>2. UNCHANGED <<loop, links, pump>>
    BY <1>3 DEF StopReceiver, netVars, pumpVars
  <2>3. \A y \in Components : listening'[y] => listening[y] /\ <<"unlisten", x>> # <<"unlisten", y>>
    BY <2>1 DEF TypeOK
  <2>4. StopList(todo)
    BY <1>0, <2>1
  <2> QED
    BY <2>1, <2>2, <2>3, <2>4, StopStepKeepsLife
<1>4. CASE DrainAndClose
  <2>1. PICK x \in Components : /\ Doing("drain", x) /\ \A c \in links : ServedBy(c) # x
                                /\ links' \subseteq links
    BY <1>4 DEF DrainAndClose
  <2>2. UNCHANGED <<loop, listening, pump>>
    BY <1>4 DEF DrainAndClose, compVars, pumpVars
  <2>3. \A c \in links' : c \in links /\ <<"drain", x>> # <<"drain", ServedBy(c)>>
    BY <2>1
  <2>4. StopList(todo)
    BY <1>0, <2>1
  <2> QED
    BY <2>1, <2>2, <2>3, <2>4, StopStepKeepsLife
<1> QED
  BY <1>1, <1>2, <1>3, <1>4

(* What the goroutines do while Start and Stop are not at a step.          *)
Background ==
  \/ \E x \in Components : PeerConnects(x)
  \/ \E c \in Conns : ConnectionEnds(c) \/ \E i \in Items : HandleMessage(c, i)
  \/ \E i \in Items : CallStep(i)
  \/ \E b \in Blocks : CreateBlock(b)
  \/ \E v \in Vertices : OfferVertex(v)
  \/ ConsensusTakes \/ HandleBroadcast
  \/ \E x \in Components : LoopExits(x)
  \/ \E p \in Pumps : PumpTakes(p) \/ PumpGives(p) \/ PumpGivesUp(p) \/ PumpExits(p)

(* Loops and pumps only end, and connections need a listener.              *)
LEMMA BackgroundSteps ==
  ASSUME TypeOK, Background \/ UNCHANGED vars
  PROVE  /\ UNCHANGED <<nodeCancelled, running, todo, cancelled, listening>>
         /\ \A x \in Components : loop'[x] = "running" => loop[x] = "running"
         /\ \A p \in Pumps : pump'[p] = "running" => pump[p] = "running"
         /\ \A c \in links' : c \in links \/ (ServedBy(c) \in Components /\ listening[ServedBy(c)])
<1> USE DEF TypeOK, lifeVars, compVars, netVars, pumpVars
<1>1. ASSUME NEW x \in Components, PeerConnects(x)
      PROVE  UNCHANGED <<lifeVars, compVars, pump>> /\ links' = links \cup {x} /\ listening[x]
  BY <1>1 DEF PeerConnects
<1>2. \A x \in Components : ServedBy(x) = x
  BY DEF ServedBy, Components
<1>3. ASSUME NEW c \in Conns, NEW i \in Items, HandleMessage(c, i)
      PROVE  UNCHANGED <<lifeVars, compVars, pump, links>>
  BY <1>3 DEF HandleMessage
<1>4. ASSUME NEW c \in Conns, ConnectionEnds(c)
      PROVE  UNCHANGED <<lifeVars, compVars, pump>> /\ links' \subseteq links
  BY <1>4 DEF ConnectionEnds
<1>5. ASSUME NEW i \in Items, CallStep(i) PROVE UNCHANGED <<lifeVars, compVars, pump, links>>
  BY <1>5 DEF CallStep, CallEnqueues, CallGivesUp
<1>6. ASSUME NEW i, CreateBlock(i) \/ OfferVertex(i) PROVE UNCHANGED <<lifeVars, compVars, pump, links>>
  BY <1>6 DEF CreateBlock, OfferVertex
<1>7. CASE ConsensusTakes
  BY <1>7 DEF ConsensusTakes
<1>8. CASE HandleBroadcast
  <2>1. ServedBy("self") = "vertex" /\ "vertex" \in Components
    BY DEF ServedBy, Components
  <2> QED
    BY <1>8, <2>1 DEF HandleBroadcast
<1>9. ASSUME NEW x \in Components, LoopExits(x)
      PROVE  /\ UNCHANGED <<lifeVars, cancelled, listening, links, pump>>
             /\ \A y \in Components : loop'[y] = "running" => loop[y] = "running"
  BY <1>9 DEF LoopExits
<1>10. ASSUME NEW p \in Pumps, PumpTakes(p) \/ PumpGives(p) \/ PumpGivesUp(p) \/ PumpExits(p)
       PROVE  /\ UNCHANGED <<lifeVars, compVars, links>>
              /\ \A q \in Pumps : pump'[q] = "running" => pump[q] = "running"
  BY <1>10 DEF PumpTakes, PumpGives, PumpGivesUp, PumpExits
<1>11. CASE UNCHANGED vars
  BY <1>11 DEF vars
<1> QED
  BY <1>1, <1>2, <1>3, <1>4, <1>5, <1>6, <1>7, <1>8, <1>9, <1>10, <1>11 DEF Background

LEMMA NextLife == TypeOK /\ LifeInv /\ [Next]_vars => LifeInv'
<1> SUFFICES ASSUME TypeOK, LifeInv, [Next]_vars PROVE LifeInv'
  OBVIOUS
<1>1. CASE Background \/ UNCHANGED vars
  BY <1>1, BackgroundSteps, GoroutinesKeepLife
<1>2. CASE Start \/ Stop \/ Lifecycle
  BY <1>2, StartKeepsLife, StopKeepsLife, StartOneKeepsLife, StartFailsKeepsLife, ConnectKeepsLife,
     StoppingKeepsLife DEF Lifecycle
<1> QED
  BY <1>1, <1>2 DEF Next, Background

LEMMA Life == SafeSpec => []LifeInv
<1>1. Init => LifeInv
  <2> SUFFICES ASSUME Init PROVE LifeInv
    OBVIOUS
  <2>1. todo = <<>> /\ StopList(<<>>)
    BY EmptyIsSeq DEF Init, StopList
  <2>2. ~Starting
    BY <2>1, PhasesDiffer
  <2>3. StopInv
    BY DEF Init, StopInv
  <2> QED
    BY <2>1, <2>2, <2>3 DEF LifeInv, StartInv
<1> QED
  BY <1>1, NextLife, NodeTypes, PTL DEF SafeSpec

(* After a Stop, a second Stop, or a Start that failed half way, nothing   *)
(* of the node is left running (node.go, Start, Stop).                     *)
THEOREM NothingIsLeftBehind == SafeSpec => []QuietWhenDown
<1>1. ASSUME LifeInv PROVE QuietWhenDown
  <2> SUFFICES ASSUME todo = <<>>, ~running
               PROVE  /\ \A x \in Components : loop[x] # "running" /\ ~listening[x]
                      /\ links = {} /\ \A p \in Pumps : pump[p] # "running"
    BY DEF QuietWhenDown
  <2>1. DOMAIN todo = {}
    BY EmptyIsSeq
  <2>2. ~Starting /\ ~Up /\ \A o, y : ~Pending(o, y)
    BY <2>1, PhasesDiffer DEF Up, Pending, Has
  <2> QED
    BY <1>1, <2>2 DEF LifeInv, StopInv
<1> QED
  BY <1>1, Life, PTL

-----------------------------------------------------------------------------
(* The steps of Start and Stop before the node's context is cancelled.     *)

(* The list of steps is a list, and one that is done has others left.      *)
LEMMA DoingLeaves ==
  ASSUME LifeInv, NEW op, NEW x, Doing(op, x)
  PROVE  /\ todo[1] = <<op, x>> /\ Pending(op, x)
         /\ \A o, y : Pending(o, y)' => Pending(o, y)
<1> DEFINE S == {"start", "connect", "cancel", "await", "unlisten", "drain"} \X (Components \cup {"node"})
<1>1. todo \in Seq(S)
  <2>1. CASE StopList(todo)
    <3>1. StopStep \subseteq S
      BY DEF StopStep
    <3> QED
      BY <2>1, <3>1 DEF StopList
  <2>2. CASE Starting
    <3> DEFINE t == <<"start", "transaction">>
               v == <<"start", "vertex">>
               c == <<"start", "consensus">>
               n == <<"connect", "node">>
    <3>1. t \in S /\ v \in S /\ c \in S /\ n \in S
      BY DEF Components
    <3>2. todo \in {<<t, v, c, n>>, <<v, c, n>>, <<c, n>>, <<n>>}
      BY <2>2 DEF Starting, StartPlans, StartSteps
    <3> HIDE DEF t, v, c, n, S
    <3>3. <<t, v, c, n>> \in Seq(S) /\ <<v, c, n>> \in Seq(S) /\ <<c, n>> \in Seq(S) /\ <<n>> \in Seq(S)
      BY <3>1
    <3> QED
      BY ONLY <3>2, <3>3
  <2> QED
    BY <2>1, <2>2 DEF LifeInv
<1>2. todo # <<>> /\ Head(todo) = <<op, x>> /\ todo' = Tail(todo)
  BY DEF Doing
<1> HIDE DEF S
<1>3. todo[1] = <<op, x>> /\ 1 \in DOMAIN todo
  BY <1>1, <1>2
<1>4. \A e : Has(Tail(todo), e) => Has(todo, e)
  BY <1>1, <1>2, HasTail
<1> QED
  BY <1>2, <1>3, <1>4 DEF Pending, Has

(* Stop begins with the node's context, and a failed Start does not touch  *)
(* the pumps or consensus.                                                 *)
LEMMA LifecycleNotStopped ==
  ASSUME TypeOK, LifeInv, NotStopped, Start \/ Stop \/ Lifecycle
  PROVE  NotStopped'
<1> SUFFICES ASSUME ~nodeCancelled' PROVE NotStopped'
  BY DEF NotStopped
<1> DEFINE Clean == ~Pending("cancel", "consensus") /\ ~Pending("await", "node")
           Down == held["vertices"] = None /\ \A p \in Pumps : pump[p] # "running"
<1>1. ~nodeCancelled
  BY DEF TypeOK, Start, Stop, Lifecycle, StartOne, StartFails, ConnectComponents, Cancel, Await, StopReceiver,
         DrainAndClose
<1>2. /\ ~cancelled["consensus"] /\ (~running => Down)
      /\ ~Clean => todo[1] = <<"cancel", "node">>
  BY <1>1 DEF NotStopped
<1>3. ASSUME NEW op, NEW x, Doing(op, x), <<op, x>> # <<"cancel", "node">>
      PROVE  ~Pending(op, x) \/ <<op, x>> \notin {<<"cancel", "consensus">>, <<"await", "node">>}
  BY <1>2, <1>3, DoingLeaves
<1>4. ASSUME NEW op, NEW x, Doing(op, x), <<op, x>> # <<"cancel", "node">> PROVE Clean'
  BY <1>2, <1>4, DoingLeaves
<1>5. CASE Start
  <2>1. /\ todo' = StartSteps /\ UNCHANGED <<running, held, pump>> /\ cancelled' = [x \in Components |-> FALSE]
    BY <1>5 DEF Start, pumpVars
  <2>2. Clean'
    <3>1. \A i \in 1 .. 4 : StartSteps[i] # <<"cancel", "consensus">> /\ StartSteps[i] # <<"await", "node">>
      BY DEF StartSteps
    <3>2. DOMAIN StartSteps = 1 .. 4
      BY DEF StartSteps
    <3> QED
      BY <2>1, <3>1, <3>2 DEF Pending, Has
  <2> QED
    BY <1>2, <2>1, <2>2 DEF NotStopped, Components
<1>6. CASE Stop
  <2>1. todo' = NodeStopSteps /\ UNCHANGED <<running, held, pump, cancelled>>
    BY <1>6 DEF Stop, pumpVars, compVars
  <2> QED
    BY <1>2, <2>1, NodeStopList DEF NotStopped
<1>7. ASSUME NEW x \in Components, StartOne(x) PROVE NotStopped'
  <2>1. Doing("start", x) /\ UNCHANGED <<running, held, pump, cancelled>>
    BY <1>7 DEF StartOne, pumpVars
  <2> QED
    BY <1>2, <1>4, <2>1 DEF NotStopped
<1>8. ASSUME NEW x \in Components, StartFails(x) PROVE NotStopped'
  <2>1. todo' = UndoSteps(x) /\ UNCHANGED <<running, held, pump, cancelled>>
    BY <1>8 DEF StartFails, pumpVars, compVars
  <2>2. Clean'
    <3>1. ~Has(UndoSteps(x), <<"cancel", "consensus">>) /\ ~Has(UndoSteps(x), <<"await", "node">>)
      BY UndoList
    <3> QED
      BY <2>1, <3>1 DEF Pending, Has
  <2> QED
    BY <1>2, <2>1, <2>2 DEF NotStopped
<1>9. CASE ConnectComponents
  <2>1. Doing("connect", "node") /\ running' = TRUE /\ UNCHANGED <<held, cancelled>>
    BY <1>9 DEF ConnectComponents, compVars
  <2> QED
    BY <1>2, <1>4, <2>1 DEF NotStopped
<1>10. CASE Cancel
  <2>1. PICK x \in Components : Doing("cancel", x) /\ cancelled' = [cancelled EXCEPT ![x] = TRUE]
    BY <1>10 DEF Cancel
  <2>2. UNCHANGED <<running, held, pump>>
    BY <1>10 DEF Cancel, pumpVars
  <2>3. x # "consensus" /\ x # "node"
    BY <1>3, <2>1, DoingLeaves DEF Components
  <2>4. ~cancelled'["consensus"]
    BY <1>2, <2>1, <2>3 DEF TypeOK, Components
  <2> QED
    BY <1>2, <1>4, <2>1, <2>2, <2>3, <2>4 DEF NotStopped
<1>11. CASE Await
  <2>1. UNCHANGED <<held, pump, cancelled>>
    BY <1>11 DEF Await, compVars, pumpVars
  <2>2. ~Doing("await", "node")
    BY <1>3, DoingLeaves
  <2>3. PICK x \in Components : Doing("await", x) /\ UNCHANGED running
    BY <1>11, <2>2 DEF Await
  <2> QED
    BY <1>2, <1>4, <2>1, <2>3 DEF NotStopped
<1>12. CASE StopReceiver \/ DrainAndClose
  <2>1. UNCHANGED <<held, pump, cancelled, running>>
    BY <1>12 DEF StopReceiver, DrainAndClose, compVars, pumpVars
  <2>2. \E op \in {"unlisten", "drain"} : \E x : Doing(op, x)
    BY <1>12 DEF StopReceiver, DrainAndClose
  <2> QED
    BY <1>2, <1>4, <2>1, <2>2 DEF NotStopped
<1> QED
  BY <1>5, <1>6, <1>7, <1>8, <1>9, <1>10, <1>11, <1>12 DEF Lifecycle

(* A pump that does not run takes nothing.                                 *)
LEMMA BackgroundNotStopped ==
  ASSUME TypeOK, NotStopped, Background \/ UNCHANGED vars
  PROVE  NotStopped'
<1>1. /\ UNCHANGED <<nodeCancelled, running, todo, cancelled>>
      /\ \A p \in Pumps : pump'[p] = "running" => pump[p] = "running"
  BY BackgroundSteps
<1>2. \A p \in Pumps : held'[p] # None => held[p] # None \/ pump[p] = "running"
  <2>1. ASSUME NEW p \in Pumps, PumpTakes(p) \/ PumpGives(p) \/ PumpGivesUp(p) \/ PumpExits(p)
        PROVE  \A q \in Pumps : held'[q] # None => held[q] # None \/ pump[q] = "running"
    BY <2>1 DEF PumpTakes, PumpGives, PumpGivesUp, PumpExits, TypeOK
  <2>2. \/ held' = held
        \/ \E p \in Pumps : PumpTakes(p) \/ PumpGives(p) \/ PumpGivesUp(p) \/ PumpExits(p)
    BY DEF Background, PeerConnects, ConnectionEnds, HandleMessage, CallStep, CallEnqueues, CallGivesUp,
           CreateBlock, OfferVertex, ConsensusTakes, HandleBroadcast, LoopExits, vars, pumpVars
  <2> QED
    BY <2>1, <2>2
<1>3. \A o, y : Pending(o, y)' <=> Pending(o, y)
  BY <1>1 DEF Pending, Has
<1> QED
  BY <1>1, <1>2, <1>3 DEF NotStopped, Pumps

-----------------------------------------------------------------------------
(* The vertices on their way to consensus.                                 *)
Line(h, s) == (IF h = None THEN <<>> ELSE <<h>>) \o s

LEMMA LineProperties ==
  ASSUME NEW s \in Seq(Items)
  PROVE  /\ Line(None, s) = s
         /\ \A h \in Items : Line(h, s) = <<h>> \o s /\ Tail(Line(h, s)) = s
         /\ s # <<>> => s = Line(Head(s), Tail(s))
         /\ \A h \in Items \cup {None}, e \in Items : Append(Line(h, s), e) = Line(h, Append(s, e))
<1>1. Line(None, s) = s
  BY ConcatEmptySeq DEF Line
<1>2. ASSUME NEW h \in Items PROVE Line(h, s) = <<h>> \o s
  BY DEF Line
<1>3. ASSUME NEW h \in Items PROVE Tail(Line(h, s)) = s
  <2> DEFINE w == <<h>> \o s
  <2>1. <<h>> \in Seq(Items) /\ Len(<<h>>) = 1
    OBVIOUS
  <2>2. /\ w \in Seq(Items) /\ Len(w) = 1 + Len(s) /\ Len(s) \in Nat
        /\ \A i \in 1 .. Len(s) : w[i + 1] = s[i]
    BY <2>1, ConcatProperties, LenProperties
  <2> HIDE DEF w
  <2>3. Tail(w) \in Seq(Items) /\ Len(Tail(w)) = Len(s) /\ \A i \in 1 .. Len(s) : Tail(w)[i] = s[i]
    BY <2>2
  <2>4. Tail(w) = s
    BY ONLY <2>3, s \in Seq(Items), SeqEqual
  <2> QED
    BY <1>2, <2>4 DEF w
<1>4. ASSUME s # <<>> PROVE s = Line(Head(s), Tail(s))
  <2>1. Head(s) \in Items
    BY <1>4
  <2>2. s = <<Head(s)>> \o Tail(s)
    BY <1>4, HeadFirst
  <2> QED
    BY <2>1, <2>2 DEF Line
<1>5. ASSUME NEW h \in Items \cup {None}, NEW e \in Items PROVE Append(Line(h, s), e) = Line(h, Append(s, e))
  <2> DEFINE p == IF h = None THEN <<>> ELSE <<h>>
  <2>1. p \in Seq(Items)
    BY EmptyIsSeq
  <2> HIDE DEF p
  <2>2. Append(p \o s, e) = p \o Append(s, e)
    <3>1. PICK w : w = p \o s
      OBVIOUS
    <3>2. p \in Seq(Items) /\ s \in Seq(Items) /\ e \in Items /\ w = p \o s
      BY <2>1, <3>1
    <3>3. Append(w, e) = p \o Append(s, e)
      BY ONLY <3>2, AppendAfterConcat, ZenonT(60)
    <3> QED
      BY <3>1, <3>3
  <2> QED
    BY <2>2 DEF Line, p
<1> QED
  BY <1>1, <1>2, <1>3, <1>4, <1>5

LEMMA InLine == VerticesInOrder <=> (~nodeCancelled => due = Line(held["vertices"], chan["received"]))
BY DEF VerticesInOrder, Line

LEMMA InLineNext == VerticesInOrder' <=> (~nodeCancelled' => due' = Line(held'["vertices"], chan'["received"]))
BY DEF VerticesInOrder, Line

(* What the vertex handler takes goes to the end of the line, what the     *)
(* pump gives to consensus comes from its front.                           *)
LEMMA NextInLine ==
  ASSUME TypeOK, NotStopped, VerticesInOrder, [Next]_vars, ~nodeCancelled'
  PROVE  due' = Line(held'["vertices"], chan'["received"])
<1> DEFINE h == held["vertices"]
           s == chan["received"]
<1> USE DEF lifeVars, compVars, netVars, pumpVars
<1>0. chan \in [Channels -> Fits] /\ "received" \in Channels /\ "vertices" \in Pumps
  BY DEF TypeOK, Fits, Channels, Pumps
<1>1. h \in Items \cup {None} /\ s \in Seq(Items)
  BY <1>0, FitsProperties DEF TypeOK
<1>2. ASSUME UNCHANGED <<due, nodeCancelled>>, held'["vertices"] = h, chan'["received"] = s
      PROVE  due' = Line(held'["vertices"], chan'["received"])
  BY <1>2, InLine
<1>3. CASE Start
  <2>1. ~nodeCancelled /\ ~running /\ held' = held /\ due' = <<>> /\ chan'["received"] = <<>>
    BY <1>0, <1>3 DEF Start
  <2>2. held'["vertices"] = None
    BY <2>1 DEF NotStopped
  <2>3. <<>> \in Seq(Items)
    BY EmptyIsSeq
  <2> QED
    BY <2>1, <2>2, <2>3, LineProperties
<1>4. CASE Stop \/ Lifecycle
  <2>1. UNCHANGED <<held, chan, due, nodeCancelled>>
    BY <1>4 DEF Stop, Lifecycle, StartOne, StartFails, ConnectComponents, Cancel, Await, StopReceiver, DrainAndClose
  <2> QED
    BY <1>2, <2>1
<1>5. ASSUME NEW i \in Items, NEW k \in calls, CallEnqueues(k)
      PROVE  due' = Line(held'["vertices"], chan'["received"])
  <2>1. k.item \in Items /\ UNCHANGED <<nodeCancelled, held>> /\ Inbox(k) \in Channels
    BY <1>5 DEF TypeOK, CallEnqueues, Inbox, Channels
  <2>2. CASE k.at = "vertex"
    <3>1. due' = Append(due, k.item) /\ chan'["received"] = Append(s, k.item)
      BY <1>0, <1>5, <2>1, <2>2 DEF CallEnqueues, Inbox
    <3>2. due = Line(h, s)
      BY <2>1, InLine
    <3>3. \A g \in Items \cup {None}, e \in Items : Append(Line(g, s), e) = Line(g, Append(s, e))
      BY <1>1, LineProperties
    <3> QED
      BY <1>1, <2>1, <3>1, <3>2, <3>3
  <2>3. CASE k.at # "vertex"
    <3>1. due' = due /\ Inbox(k) # "received"
      BY <1>5, <2>3 DEF CallEnqueues, Inbox
    <3>2. chan'["received"] = s
      BY <1>0, <1>5, <3>1 DEF CallEnqueues
    <3> QED
      BY <1>2, <2>1, <3>1, <3>2
  <2> QED
    BY <2>2, <2>3
<1>6. ASSUME NEW p \in Pumps, PumpTakes(p) PROVE due' = Line(held'["vertices"], chan'["received"])
  <2>1. UNCHANGED <<nodeCancelled, due>>
    BY <1>6 DEF PumpTakes
  <2>2. CASE p = "vertices"
    <3>1. ~cancelled["consensus"] /\ due = Line(h, s)
      BY <2>1, InLine DEF NotStopped
    <3>2. h = None /\ s # <<>> /\ held'["vertices"] = Head(s) /\ chan'["received"] = Tail(s)
      BY <1>0, <1>6, <2>2, <3>1, PumpEnds DEF PumpTakes, TypeOK
    <3>3. Line(None, s) = s /\ s = Line(Head(s), Tail(s))
      BY <1>1, <3>2, LineProperties
    <3> QED
      BY <2>1, <3>1, <3>2, <3>3
  <2>3. CASE p # "vertices"
    <3>1. held'["vertices"] = h /\ chan'["received"] = s
      BY <1>0, <1>6, <2>3, PumpEnds DEF PumpTakes, TypeOK
    <3> QED
      BY <1>2, <2>1, <3>1
  <2> QED
    BY <2>2, <2>3
<1>7. ASSUME NEW p \in Pumps, PumpGives(p) PROVE due' = Line(held'["vertices"], chan'["received"])
  <2>1. UNCHANGED nodeCancelled /\ chan'["received"] = s
    BY <1>0, <1>7, PumpEnds DEF PumpGives
  <2>2. CASE p = "vertices"
    <3>1. due = Line(h, s) /\ due' = Tail(due) /\ h # None /\ held'["vertices"] = None
      BY <1>7, <2>1, <2>2, InLine DEF PumpGives, TypeOK
    <3>2. Tail(Line(h, s)) = s /\ Line(None, s) = s
      BY <1>1, <3>1, LineProperties
    <3> QED
      BY <2>1, <3>1, <3>2
  <2>3. CASE p # "vertices"
    <3>1. held'["vertices"] = h /\ due' = due
      BY <1>0, <1>7, <2>3 DEF PumpGives, TypeOK
    <3> QED
      BY <1>2, <2>1, <3>1
  <2> QED
    BY <2>2, <2>3
<1>8. ASSUME NEW p \in Pumps, PumpGivesUp(p) \/ PumpExits(p) PROVE due' = Line(held'["vertices"], chan'["received"])
  <2>1. UNCHANGED <<nodeCancelled, due, chan>> /\ p = "broadcast"
    BY <1>8 DEF PumpGivesUp, PumpExits, NotStopped
  <2>2. held'["vertices"] = h
    BY <1>0, <1>8, <2>1 DEF PumpGivesUp, PumpExits, TypeOK
  <2> QED
    BY <1>2, <2>1, <2>2
<1>9. ASSUME NEW i, CreateBlock(i) \/ OfferVertex(i) \/ ConsensusTakes \/ HandleBroadcast
      PROVE  due' = Line(held'["vertices"], chan'["received"])
  <2>1. UNCHANGED <<nodeCancelled, due, held>> /\ chan'["received"] = s
    BY <1>0, <1>9 DEF CreateBlock, OfferVertex, ConsensusTakes, HandleBroadcast, Channels
  <2> QED
    BY <1>2, <2>1
<1>10. ASSUME UNCHANGED <<nodeCancelled, due, held, chan>> PROVE due' = Line(held'["vertices"], chan'["received"])
  BY <1>2, <1>10
<1>11. CASE UNCHANGED vars
  BY <1>10, <1>11 DEF vars
<1>12. ASSUME NEW x, PeerConnects(x) \/ ConnectionEnds(x) \/ LoopExits(x) \/ CallGivesUp(x) \/ \E i \in Items : HandleMessage(x, i)
       PROVE  due' = Line(held'["vertices"], chan'["received"])
  BY <1>10, <1>12 DEF PeerConnects, ConnectionEnds, LoopExits, CallGivesUp, HandleMessage
<1> QED
  BY <1>3, <1>4, <1>5, <1>6, <1>7, <1>8, <1>9, <1>11, <1>12 DEF Next, CallStep

(* Until the node is stopped, the vertices the vertex coordinator took     *)
(* from the network reach consensus in the same order and none is lost     *)
(* (node.go, connectComponents).                                           *)
THEOREM VerticesStayInOrder == SafeSpec => []VerticesInOrder
<1>1. Init => OrderInv
  <2> SUFFICES ASSUME Init PROVE OrderInv
    OBVIOUS
  <2>1. NotStopped
    <3>1. DOMAIN todo = {}
      BY EmptyIsSeq DEF Init
    <3> QED
      BY <3>1 DEF Init, NotStopped, Pending, Has, Components, Pumps
  <2>2. held["vertices"] = None /\ chan["received"] = <<>> /\ due = <<>>
    BY DEF Init, Pumps, Channels
  <2>3. Line(None, <<>>) = <<>>
    BY EmptyIsSeq, LineProperties
  <2> QED
    BY <2>1, <2>2, <2>3, InLine DEF OrderInv
<1>2. TypeOK /\ LifeInv /\ OrderInv /\ [Next]_vars => OrderInv'
  <2> SUFFICES ASSUME TypeOK, LifeInv, OrderInv, [Next]_vars PROVE OrderInv'
    OBVIOUS
  <2>1. NotStopped'
    BY LifecycleNotStopped, BackgroundNotStopped DEF OrderInv, Next, Background
  <2>2. VerticesInOrder'
    BY NextInLine, InLineNext DEF OrderInv
  <2> QED
    BY <2>1, <2>2 DEF OrderInv
<1>3. OrderInv => VerticesInOrder
  BY DEF OrderInv
<1> QED
  BY <1>1, <1>2, <1>3, NodeTypes, Life, PTL DEF SafeSpec
=============================================================================
