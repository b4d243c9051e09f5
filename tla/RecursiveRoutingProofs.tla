------------------------ MODULE RecursiveRoutingProofs ------------------------
(***************************************************************************)
(* No message comes back to a node of its recorded route, and none makes   *)
(* more hops than it may: for every overlay's tables, every form of        *)
(* recursive routing, and whatever is lost, fails or is sent again.        *)
(*                                                                         *)
(* When the tables lead to the key, every message gets closer to the key   *)
(* at each hop and has the hops that it takes to get there (GetsCloser),   *)
(* so that it is handled by the node that has the key (ClosestHandles).    *)
(* With an acknowledgement for each hop, a message that is not with a node *)
(* any more is with one that is closer, or was handled                     *)
(* (NothingAcknowledgedIsLost), so that in the end all are                 *)
(* (QuietIsHandled).                                                       *)
(***************************************************************************)
EXTENDS RecursiveRouting, SequenceTheorems, WellFoundedInduction, TLAPS

(***************************************************************************)
(* Routes                                                                  *)
(***************************************************************************)
LEMMA Appended ==
    ASSUME NEW s \in Seq(Node), NEW x \in Node
    PROVE  /\ Append(s, x) \in Seq(Node) /\ Len(s) \in Nat /\ Len(Append(s, x)) = Len(s) + 1
           /\ DOMAIN s = 1 .. Len(s) /\ DOMAIN Append(s, x) = 1 .. Len(s) + 1
           /\ \A i \in 1 .. Len(s) : Append(s, x)[i] = s[i]
           /\ Append(s, x)[Len(s) + 1] = x
           /\ ToSet(Append(s, x)) = ToSet(s) \cup {x}
<1>1. /\ Append(s, x) \in Seq(Node) /\ Len(s) \in Nat /\ Len(Append(s, x)) = Len(s) + 1
      /\ \A i \in 1 .. Len(s) : Append(s, x)[i] = s[i]
      /\ Append(s, x)[Len(s) + 1] = x
  BY AppendProperties, LenProperties
<1>2. DOMAIN s = 1 .. Len(s) /\ DOMAIN Append(s, x) = 1 .. Len(s) + 1
  BY <1>1, LenProperties
<1>3. 1 .. Len(s) + 1 = (1 .. Len(s)) \cup {Len(s) + 1}
  BY <1>1
<1> QED
  BY <1>1, <1>2, <1>3 DEF ToSet

\* A route goes on to a node that it has not been to...
LEMMA NoLoopGoesOn ==
    ASSUME NEW s \in Seq(Node), NEW x \in Node, NoLoop(s), x \notin ToSet(s)
    PROVE  NoLoop(Append(s, x))
<1>1. SUFFICES ASSUME NEW i \in 1 .. Len(s) + 1, NEW j \in 1 .. Len(s) + 1,
                      i < j, Append(s, x)[i] = Append(s, x)[j], NEW k \in i .. j
               PROVE  Append(s, x)[k] = Append(s, x)[i]
  BY Appended DEF NoLoop
<1>2. Len(s) \in Nat /\ i \in 1 .. Len(s) /\ k \in 1 .. Len(s) + 1
  BY <1>1, Appended
<1>3. j # Len(s) + 1
  BY <1>1, <1>2, Appended DEF ToSet
<1>4. j \in 1 .. Len(s) /\ k \in 1 .. Len(s)
  BY <1>1, <1>2, <1>3
<1>5. s[i] = s[j]
  BY <1>1, <1>2, <1>4, Appended
<1>6. s[k] = s[i]
  BY <1>1, <1>2, <1>4, <1>5, Appended DEF NoLoop
<1> QED
  BY <1>2, <1>4, <1>6, Appended

\* ... or stays where it is.
LEMMA NoLoopStays ==
    ASSUME NEW s \in Seq(Node), NEW x \in Node, NoLoop(Append(s, x))
    PROVE  NoLoop(s) /\ NoLoop(Append(Append(s, x), x))
<1> DEFINE t == Append(s, x)
<1>1. /\ t \in Seq(Node) /\ Len(s) \in Nat /\ Len(t) = Len(s) + 1
      /\ DOMAIN s = 1 .. Len(s) /\ DOMAIN t = 1 .. Len(s) + 1
      /\ \A i \in 1 .. Len(s) : t[i] = s[i]
      /\ t[Len(s) + 1] = x
  BY Appended
<1>2. /\ DOMAIN Append(t, x) = 1 .. Len(t) + 1
      /\ \A i \in 1 .. Len(t) : Append(t, x)[i] = t[i]
      /\ Append(t, x)[Len(t) + 1] = x
  <2> HIDE DEF t
  <2> QED BY <1>1, Appended
<1>3. \A i, j \in 1 .. Len(s) + 1 : i < j /\ t[i] = t[j] => \A k \in i .. j : t[k] = t[i]
  BY <1>1 DEF NoLoop
<1> HIDE DEF t
<1>4. NoLoop(s)
  <2>1. SUFFICES ASSUME NEW i \in 1 .. Len(s), NEW j \in 1 .. Len(s),
                        i < j, s[i] = s[j], NEW k \in i .. j
                 PROVE  s[k] = s[i]
    BY <1>1 DEF NoLoop
  <2>2. i \in 1 .. Len(s) + 1 /\ j \in 1 .. Len(s) + 1 /\ k \in 1 .. Len(s)
    BY <1>1, <2>1
  <2> QED BY <1>1, <1>3, <2>1, <2>2
<1>5. NoLoop(Append(t, x))
  <2>1. SUFFICES ASSUME NEW i \in 1 .. Len(t) + 1, NEW j \in 1 .. Len(t) + 1,
                        i < j, Append(t, x)[i] = Append(t, x)[j], NEW k \in i .. j
                 PROVE  Append(t, x)[k] = Append(t, x)[i]
    BY <1>2 DEF NoLoop
  <2>2. i \in 1 .. Len(t) /\ k \in 1 .. Len(t) + 1 /\ Append(t, x)[i] = t[i]
    BY <1>1, <1>2, <2>1
  <2>3. CASE j = Len(t) + 1 /\ i = Len(t)
    <3>1. k = i \/ k = j
      BY <1>1, <2>1, <2>3
    <3> QED BY <2>1, <3>1
  <2>4. CASE j = Len(t) + 1 /\ i # Len(t)
    <3>0. t[i] = x
      BY <1>2, <2>1, <2>2, <2>4
    <3>1. i < Len(s) + 1 /\ t[i] = t[Len(s) + 1] /\ Len(s) + 1 \in 1 .. Len(s) + 1
      BY <1>1, <2>1, <2>2, <2>4, <3>0
    <3>2. \A l \in i .. Len(s) + 1 : t[l] = t[i]
      BY <1>1, <1>3, <2>2, <3>1
    <3>3. CASE k = j
      BY <2>1, <3>3
    <3>4. CASE k # j
      <4>1. k \in i .. Len(s) + 1 /\ k \in 1 .. Len(t)
        BY <1>1, <2>1, <2>2, <2>4, <3>4
      <4> QED BY <1>2, <2>2, <3>2, <4>1
    <3> QED BY <3>3, <3>4
  <2>5. CASE j # Len(t) + 1
    <3>1. j \in 1 .. Len(s) + 1 /\ i \in 1 .. Len(s) + 1 /\ k \in 1 .. Len(t)
      BY <1>1, <2>1, <2>2, <2>5
    <3>2. t[i] = t[j]
      BY <1>1, <1>2, <2>1, <3>1
    <3> QED BY <1>1, <1>2, <1>3, <2>1, <2>2, <3>1, <3>2
  <2> QED BY <2>3, <2>4, <2>5
<1> QED
  BY <1>4, <1>5 DEF t

\* The recorded route and the two nodes between which a message is.
LEMMA WayIsNoLoop ==
    ASSUME NEW v \in Seq(Node), NEW a \in Node, NEW b \in Node,
           NoLoop(Append(v, a)), b \notin ToSet(v) \cup {a}
    PROVE  NoLoop(v \o <<a, b>>)
<1>1. Append(v, a) \in Seq(Node) /\ ToSet(Append(v, a)) = ToSet(v) \cup {a}
  BY Appended
<1>2. NoLoop(Append(Append(v, a), b))
  BY <1>1, NoLoopGoesOn
<1>3. /\ <<a, b>> \in Seq(Node) /\ v \o <<a, b>> \in Seq(Node)
      /\ Len(v \o <<a, b>>) = Len(v) + 2
      /\ \A i \in 1 .. Len(v) + 2 :
            (v \o <<a, b>>)[i] = IF i <= Len(v) THEN v[i] ELSE <<a, b>>[i - Len(v)]
  BY ConcatProperties
<1>4. /\ Append(Append(v, a), b) \in Seq(Node) /\ Len(Append(Append(v, a), b)) = Len(v) + 2
      /\ \A i \in 1 .. Len(v) + 2 :
            Append(Append(v, a), b)[i] = IF i <= Len(v) THEN v[i] ELSE <<a, b>>[i - Len(v)]
  <2>1. /\ Len(v) \in Nat /\ Len(Append(v, a)) = Len(v) + 1
        /\ \A i \in 1 .. Len(v) : Append(v, a)[i] = v[i]
        /\ Append(v, a)[Len(v) + 1] = a
    BY Appended
  <2>2. /\ Append(Append(v, a), b) \in Seq(Node) /\ Len(Append(Append(v, a), b)) = Len(v) + 1 + 1
        /\ \A i \in 1 .. Len(v) + 1 : Append(Append(v, a), b)[i] = Append(v, a)[i]
        /\ Append(Append(v, a), b)[Len(v) + 1 + 1] = b
    BY <1>1, <2>1, Appended
  <2>3. <<a, b>>[1] = a /\ <<a, b>>[2] = b
    OBVIOUS
  <2>4. ASSUME NEW i \in 1 .. Len(v) + 2
        PROVE  Append(Append(v, a), b)[i] = IF i <= Len(v) THEN v[i] ELSE <<a, b>>[i - Len(v)]
    <3>1. CASE i <= Len(v)
      BY <2>1, <2>2, <3>1
    <3>2. CASE i = Len(v) + 1
      <4>1. ~ (i <= Len(v)) /\ i - Len(v) = 1 /\ i \in 1 .. Len(v) + 1
        BY <2>1, <3>2
      <4> QED BY <2>1, <2>2, <2>3, <3>2, <4>1
    <3>3. CASE i = Len(v) + 2
      <4>1. ~ (i <= Len(v)) /\ i - Len(v) = 2 /\ i = Len(v) + 1 + 1
        BY <2>1, <3>3
      <4> QED BY <2>2, <2>3, <4>1
    <3> QED BY <2>1, <2>4, <3>1, <3>2, <3>3
  <2> QED BY <2>1, <2>2, <2>4
<1>5. v \o <<a, b>> = Append(Append(v, a), b)
  BY <1>3, <1>4, SeqEqual
<1> QED
  BY <1>2, <1>5

LEMMA Reversed ==
    ASSUME NEW s \in Seq(Node)
    PROVE  Reverse(s) \in Seq(Node) /\ Len(Reverse(s)) = Len(s)
<1>1. Len(s) \in Nat /\ \A i \in 1 .. Len(s) : s[i] \in Node
  BY LenProperties, ElementOfSeq
<1>2. \A i \in 1 .. Len(s) : Len(s) - i + 1 \in 1 .. Len(s)
  BY <1>1
<1>3. Reverse(s) \in [1 .. Len(s) -> Node]
  BY <1>1, <1>2 DEF Reverse
<1> QED
  BY <1>1, <1>3, SMT DEF Reverse
(***************************************************************************)
(* What the nodes' tables are assumed to return                            *)
(***************************************************************************)
\* Every set of natural numbers has a least one.
LEMMA Least ==
    ASSUME NEW S \in SUBSET Nat, S # {}
    PROVE  Min(S) \in S
<1> DEFINE R == OpToRel(<, Nat)
<1>1. IsWellFoundedOn(R, Nat)
  BY NatLessThanWellFounded
<1>2. \A x, y \in Nat : x < y => <<x, y>> \in R
  BY DEF OpToRel
<1> HIDE DEF R
<1>3. PICK x \in S : \A y \in S : ~ (<<y, x>> \in R)
  BY <1>1, WFMin
<1>4. \A y \in S : ~ (y < x)
  BY <1>2, <1>3
<1>5. x \in Nat /\ \A y \in S : y \in Nat
  BY <1>3
<1>6. \A y \in S : x <= y
  BY <1>4, <1>5
<1> QED
  BY <1>3, <1>6 DEF Min

LEMMA TableIsSequence ==
    ASSUME config \in Config, NEW self, self.node \in Node, NEW key \in Node
    PROVE  Table(self, key) \in Seq(Node)
BY RoutingAssumption DEF Table, Config

LEMMA FirstIsOne ==
    ASSUME config \in Config, NEW self, self.node \in Node, NEW key \in Node,
           NEW hops \in SUBSET FindNode(self, key), First(self, key, hops) # None
    PROVE  \E i \in hops : First(self, key, hops) = Table(self, key)[i] /\ Table(self, key)[i] \in Node
<1>1. Table(self, key) \in Seq(Node)
  BY TableIsSequence
<1>2. DOMAIN Table(self, key) = 1 .. Len(Table(self, key)) /\ Len(Table(self, key)) \in Nat
  BY <1>1, LenProperties
<1>3. hops \in SUBSET Nat
  BY <1>2 DEF FindNode
<1>4. hops # {} /\ First(self, key, hops) = Table(self, key)[Min(hops)]
  BY DEF First
<1>5. Min(hops) \in hops
  BY <1>3, <1>4, Least
<1>6. Min(hops) \in 1 .. Len(Table(self, key))
  BY <1>2, <1>5 DEF FindNode
<1>7. Table(self, key)[Min(hops)] \in Node
  BY <1>1, <1>6, ElementOfSeq
<1> QED
  BY <1>4, <1>5, <1>7

\* The next hop is no node that the message has left.
LEMMA NextHopIsNew ==
    ASSUME config \in Config, NEW self, self.node \in Node, NEW m, m.key \in Node, NEW lastHop,
           NextHop(self, m, lastHop) # None
    PROVE  /\ NextHop(self, m, lastHop) \in Node
           /\ NextHop(self, m, lastHop) \notin ToSet(m.visitedHops)
<1> DEFINE useful == {i \in FindNode(self, m.key) : Useful(self, Table(self, m.key)[i], m, lastHop)}
<1>1. NextHop(self, m, lastHop) = First(self, m.key, useful)
  BY DEF NextHop
<1>2. useful \in SUBSET FindNode(self, m.key)
  OBVIOUS
<1>3. \A i \in useful : Table(self, m.key)[i] \notin ToSet(m.visitedHops)
  BY DEF Useful
<1> HIDE DEF useful
<1> QED
  BY <1>1, <1>2, <1>3, FirstIsOne

(***************************************************************************)
(* Messages                                                                *)
(***************************************************************************)
MessageType ==
    [id : Nat, kind : {"lookup", "data", "answer"}, src : Node, key : Node \cup {None},
     hopCount : Nat, visitedHops : Seq(Node), nextHops : Seq(Node), sibling : BOOLEAN]

\* A message without a loop so far, which has not recorded more hops than it has made, at the
\* node n or on its way from it.
Straight(n, m) ==
    /\ m.key # None
    /\ Len(m.visitedHops) <= m.hopCount
    /\ NoLoop(Append(m.visitedHops, n))

\* On its way from one node to another.
Carried(from, to, m) ==
    /\ from \in Node /\ to \in Node /\ m \in MessageType
    /\ m.key # None => /\ m.hopCount <= HopCountMax
                       /\ m.hopCount + Len(m.nextHops) <= HopCountMax + 1
    /\ m.kind # "answer" => /\ Straight(from, m)
                            /\ Len(m.visitedHops) < m.hopCount
                            /\ Len(m.nextHops) <= 1
                            /\ to \notin ToSet(m.visitedHops) \cup {from}

\* With a node that looks for the next hop.
Held(n, m) ==
    /\ m \in MessageType /\ m.key # None /\ m.nextHops = <<>>
    /\ m.kind # "answer" => Straight(n, m)

\* At its destination.
Arrived(m) ==
    m \in MessageType /\ (m.kind # "answer" => Len(m.visitedHops) <= HopCountMax)

PacketOK(p) ==
    /\ p.type = "route" => Carried(p.from, p.to, p.msg)
    /\ p.type = "ack" => Carried(p.to, p.from, p.msg)
    /\ p.type = "direct" => Arrived(p.msg)
    /\ p.type = "app" => p.from \in Node /\ Held(p.to, p.msg)

\* What a handler may leave behind.
EffectOK(n, e) ==
    /\ \A p \in e.send : PacketOK(p)
    /\ \A c \in e.wait : Carried(n, c.dest, c.msg)
    /\ \A m \in e.here : Arrived(m) /\ e.here = {m}

LEMMA NothingOK ==
    ASSUME NEW n
    PROVE  EffectOK(n, Nothing)
BY DEF EffectOK, Nothing, Effect

LEMMA HereOK ==
    ASSUME NEW n, NEW m, Arrived(m)
    PROVE  EffectOK(n, Effect({}, {}, {m}))
BY DEF EffectOK, Effect

LEMMA OnePacketOK ==
    ASSUME NEW n, NEW p, PacketOK(p)
    PROVE  EffectOK(n, Effect({p}, {}, {}))
BY DEF EffectOK, Effect

LEMMA MessageIsTyped ==
    ASSUME NEW i \in Nat, NEW kind \in {"lookup", "data", "answer"}, NEW src \in Node, NEW key \in Node \cup {None}
    PROVE  /\ Message(i, kind, src, key) \in MessageType
           /\ Message(i, kind, src, key).kind = kind /\ Message(i, kind, src, key).key = key
           /\ Message(i, kind, src, key).hopCount = 0
           /\ Message(i, kind, src, key).visitedHops = <<>> /\ Message(i, kind, src, key).nextHops = <<>>
BY EmptySeq DEF Message, MessageType

LEMMA Fields ==
    ASSUME NEW m \in MessageType
    PROVE  /\ m.id \in Nat /\ m.kind \in {"lookup", "data", "answer"} /\ m.src \in Node
           /\ m.key \in Node \cup {None} /\ m.hopCount \in Nat /\ m.visitedHops \in Seq(Node)
           /\ m.nextHops \in Seq(Node) /\ m.sibling \in BOOLEAN
           /\ Len(m.visitedHops) \in Nat /\ Len(m.nextHops) \in Nat
BY LenProperties DEF MessageType

LEMMA HopsSet ==
    ASSUME NEW m \in MessageType, NEW h \in Nat
    PROVE  LET n == [m EXCEPT !.hopCount = h]
           IN  /\ n \in MessageType /\ n.hopCount = h /\ n.kind = m.kind /\ n.key = m.key
               /\ n.visitedHops = m.visitedHops /\ n.nextHops = m.nextHops
BY DEF MessageType

LEMMA NextHopsSet ==
    ASSUME NEW m \in MessageType, NEW route \in Seq(Node)
    PROVE  LET n == [m EXCEPT !.nextHops = route]
           IN  /\ n \in MessageType /\ n.hopCount = m.hopCount /\ n.kind = m.kind /\ n.key = m.key
               /\ n.visitedHops = m.visitedHops /\ n.nextHops = route
BY DEF MessageType

\* sendRouteMessage(): one hop more.
LEMMA SendRouteMessageOK ==
    ASSUME NEW self, self.node \in Node, NEW dest \in Node, NEW m \in MessageType,
           m.key # None => m.hopCount < HopCountMax /\ m.hopCount + Len(m.nextHops) <= HopCountMax,
           m.kind # "answer" => /\ Straight(self.node, m)
                                /\ Len(m.nextHops) <= 1
                                /\ dest \notin ToSet(m.visitedHops) \cup {self.node}
    PROVE  EffectOK(self.node, SendRouteMessage(self, dest, m))
<1> DEFINE h == HopsCounted(self, dest, m)
           sent == [m EXCEPT !.hopCount = h]
<1>1. /\ h \in Nat /\ h <= m.hopCount + 1 /\ m.hopCount <= h
      /\ dest # self.node => h = m.hopCount + 1
  BY Fields DEF HopsCounted
<1> HIDE DEF h
<1>2. /\ sent \in MessageType /\ sent.hopCount = h /\ sent.kind = m.kind /\ sent.key = m.key
      /\ sent.visitedHops = m.visitedHops /\ sent.nextHops = m.nextHops
  BY <1>1, HopsSet
<1> HIDE DEF sent
<1>3. Len(m.visitedHops) \in Nat /\ Len(m.nextHops) \in Nat /\ m.hopCount \in Nat /\ HopCountMax \in Nat
  BY Fields, RoutingAssumption
<1>4. m.key # None => h <= HopCountMax /\ h + Len(m.nextHops) <= HopCountMax + 1
  BY <1>1, <1>3
<1>5. ASSUME m.kind # "answer"
      PROVE  Straight(self.node, sent) /\ Len(m.visitedHops) < h
  <2>1. h = m.hopCount + 1 /\ Len(m.visitedHops) <= m.hopCount
    BY <1>1, <1>5 DEF Straight
  <2>2. Len(m.visitedHops) <= h /\ Len(m.visitedHops) < h
    BY <1>3, <2>1
  <2> QED BY <1>2, <1>5, <2>2 DEF Straight
<1>6. Carried(self.node, dest, sent)
  BY <1>2, <1>4, <1>5 DEF Carried
<1>7. PacketOK(Packet("route", self.node, dest, sent))
  BY <1>6 DEF PacketOK, Packet
<1>8. SendRouteMessage(self, dest, m) =
        Effect({Packet("route", self.node, dest, sent)}, IF config.acks THEN {[dest |-> dest, msg |-> sent]} ELSE {}, {})
  BY DEF SendRouteMessage, sent, h
<1> QED
  BY <1>6, <1>7, <1>8 DEF EffectOK, Effect

\* sendToKey() with a source route.
LEMMA SendToSourceRouteOK ==
    ASSUME NEW self, self.node \in Node, NEW route \in Seq(Node), route # <<>>, NEW m \in MessageType,
           m.key # None => m.hopCount + Len(route) <= HopCountMax,
           m.kind # "answer" => /\ Straight(self.node, m)
                                /\ Len(route) <= 1
                                /\ route[1] \notin ToSet(m.visitedHops) \cup {self.node}
    PROVE  EffectOK(self.node, SendToSourceRoute(self, route, m))
<1> DEFINE n == [m EXCEPT !.nextHops = route]
<1>1. /\ n \in MessageType /\ n.hopCount = m.hopCount /\ n.kind = m.kind /\ n.key = m.key
      /\ n.visitedHops = m.visitedHops /\ n.nextHops = route
  BY NextHopsSet
<1>2. SendToSourceRoute(self, route, m) = SendRouteMessage(self, route[1], n)
  BY DEF SendToSourceRoute
<1> HIDE DEF n
<1>3. Len(route) \in Nat \ {0} /\ route[1] \in Node
  BY EmptySeq, ElementOfSeq
<1>4. m.key # None => m.hopCount < HopCountMax
  BY <1>3, Fields, RoutingAssumption
<1>5. m.kind # "answer" => Straight(self.node, n)
  BY <1>1 DEF Straight
<1> QED
  BY <1>1, <1>2, <1>3, <1>4, <1>5, SendRouteMessageOK

LEMMA NoLoopOfOne ==
    ASSUME NEW x \in Node
    PROVE  NoLoop(Append(<<>>, x))
<1>1. <<>> \in Seq(Node) /\ Len(<<>>) = 0
  BY EmptySeq
<1>2. DOMAIN Append(<<>>, x) = 1 .. 1
  BY <1>1, Appended
<1>3. \A i, j \in 1 .. 1 : ~ (i < j)
  OBVIOUS
<1> QED
  BY <1>2, <1>3 DEF NoLoop

\* handleBaseOverlayMessage() records the node before and takes the next hops out.
LEMMA RecordedFields ==
    ASSUME NEW m \in MessageType, NEW lastHop \in Node
    PROVE  LET r == Recorded(m, lastHop)
           IN  /\ r \in MessageType /\ r.id = m.id /\ r.kind = m.kind /\ r.key = m.key
               /\ r.hopCount = m.hopCount /\ r.nextHops = <<>>
               /\ \/ r.visitedHops = m.visitedHops
                  \/ r.visitedHops = Append(m.visitedHops, lastHop)
<1> DEFINE v == Append(m.visitedHops, lastHop)
           n == [m EXCEPT !.visitedHops = v, !.nextHops = <<>>]
<1>1. v \in Seq(Node) /\ <<>> \in Seq(Node)
  BY Fields, Appended, EmptySeq
<1> HIDE DEF v
<1>2. /\ n \in MessageType /\ n.id = m.id /\ n.kind = m.kind /\ n.key = m.key
      /\ n.hopCount = m.hopCount /\ n.nextHops = <<>> /\ n.visitedHops = v
  BY <1>1 DEF MessageType
<1>3. Recorded(m, lastHop) = n \/ (Recorded(m, lastHop) = m /\ m.nextHops = <<>>)
  BY DEF Recorded, n, v
<1> HIDE DEF n
<1> QED
  BY <1>2, <1>3 DEF v

\* A message has no loop either at the node where it arrives, or where it is sent again.
LEMMA StraightWhenRecorded ==
    ASSUME NEW m \in MessageType, NEW lastHop \in Node, NEW n \in Node,
           Straight(lastHop, m), Len(m.visitedHops) < m.hopCount,
           n \notin ToSet(m.visitedHops) \cup {lastHop} \/ n = lastHop
    PROVE  Straight(n, Recorded(m, lastHop))
<1> DEFINE r == Recorded(m, lastHop)
           v == m.visitedHops
           w == Append(v, lastHop)
<1>1. /\ v \in Seq(Node) /\ m.hopCount \in Nat
      /\ r.key = m.key /\ r.hopCount = m.hopCount /\ (r.visitedHops = v \/ r.visitedHops = w)
  BY Fields, RecordedFields
<1>2. w \in Seq(Node) /\ Len(v) \in Nat /\ Len(w) = Len(v) + 1 /\ ToSet(w) = ToSet(v) \cup {lastHop}
  BY <1>1, Appended
<1>3. NoLoop(w) /\ m.key # None
  BY DEF Straight
<1>4. NoLoop(v) /\ NoLoop(Append(w, lastHop))
  BY <1>1, <1>3, NoLoopStays
<1> HIDE DEF r
<1>5. CASE r.visitedHops = v
  <2>1. NoLoop(Append(v, n))
    BY <1>1, <1>3, <1>4, NoLoopGoesOn
  <2>2. Len(v) <= m.hopCount
    BY <1>1, <1>2
  <2> QED BY <1>1, <1>3, <1>5, <2>1, <2>2 DEF Straight, r
<1>6. CASE r.visitedHops = w
  <2> HIDE DEF w
  <2>1. NoLoop(Append(w, n))
    BY <1>2, <1>3, <1>4, NoLoopGoesOn
  <2>2. Len(w) <= m.hopCount
    BY <1>1, <1>2
  <2> QED BY <1>1, <1>3, <1>6, <2>1, <2>2 DEF Straight, r
<1> QED
  BY <1>1, <1>5, <1>6

\* sendToKey() without a source route.
LEMMA RouteToKeyOK ==
    ASSUME config \in Config, NEW self, self.node \in Node, NEW m, Held(self.node, m),
           NEW lastHop \in Node, NEW shown
    PROVE  EffectOK(self.node, RouteToKey(self, m, lastHop, shown))
<1> DEFINE next == NextHop(self, m, lastHop)
           e == RouteToKey(self, m, lastHop, shown)
<1>1. m \in MessageType /\ m.key \in Node /\ m.nextHops = <<>>
  BY Fields DEF Held
<1>2. /\ m.hopCount \in Nat /\ HopCountMax \in Nat /\ Len(m.visitedHops) \in Nat /\ Len(m.nextHops) = 0
      /\ m.visitedHops \in Seq(Node) /\ m.key # None
  BY <1>1, Fields, RoutingAssumption, EmptySeq DEF Held
<1>3. CASE TooFar(m) \/ next = None
  <2>1. e = Nothing
    BY <1>3 DEF RouteToKey
  <2> QED BY <2>1, NothingOK
<1>4. CASE ~(TooFar(m) \/ next = None)
  <2>1. m.hopCount < HopCountMax /\ next \in Node /\ next \notin ToSet(m.visitedHops)
    BY <1>1, <1>2, <1>4, NextHopIsNew DEF TooFar
  <2>2. CASE config.forward /\ m.kind = "data" /\ ~shown
    <3>1. e = Effect({Packet("app", lastHop, self.node, Shown(m))}, {}, {})
      BY <1>4, <2>2 DEF RouteToKey
    <3>2. /\ Shown(m) \in MessageType /\ Shown(m).key = m.key /\ Shown(m).hopCount = m.hopCount
          /\ Shown(m).nextHops = <<>> /\ Shown(m).visitedHops = <<>>
      BY <1>1, EmptySeq DEF Shown, MessageType
    <3>3. Straight(self.node, Shown(m))
      BY <1>2, <3>2, EmptySeq, NoLoopOfOne DEF Straight
    <3>4. Held(self.node, Shown(m))
      BY <1>2, <3>2, <3>3 DEF Held
    <3>5. PacketOK(Packet("app", lastHop, self.node, Shown(m)))
      BY <3>4 DEF PacketOK, Packet
    <3> QED BY <3>1, <3>5, OnePacketOK
  <2>3. CASE ~(config.forward /\ m.kind = "data" /\ ~shown) /\ next = self.node
    <3>1. e = Effect({}, {}, {Recorded(m, lastHop)})
      BY <1>4, <2>3 DEF RouteToKey
    <3>2. /\ Recorded(m, lastHop) \in MessageType /\ Recorded(m, lastHop).kind = m.kind
          /\ \/ Recorded(m, lastHop).visitedHops = m.visitedHops
             \/ Recorded(m, lastHop).visitedHops = Append(m.visitedHops, lastHop)
      BY <1>1, RecordedFields
    <3>3. Len(Append(m.visitedHops, lastHop)) = Len(m.visitedHops) + 1
      BY <1>2, Appended
    <3>4. m.kind # "answer" => Len(m.visitedHops) <= m.hopCount
      BY DEF Held, Straight
    <3>5. m.kind # "answer" =>
            /\ Len(m.visitedHops) <= HopCountMax /\ Len(Append(m.visitedHops, lastHop)) <= HopCountMax
      BY <1>2, <2>1, <3>3, <3>4
    <3>6. Arrived(Recorded(m, lastHop))
      BY <3>2, <3>5 DEF Arrived
    <3> QED BY <3>1, <3>6, HereOK
  <2>4. CASE ~(config.forward /\ m.kind = "data" /\ ~shown) /\ next # self.node
    <3>1. e = SendRouteMessage(self, next, m)
      BY <1>4, <2>4 DEF RouteToKey
    <3>2. m.kind # "answer" => Straight(self.node, m)
      BY DEF Held
    <3> HIDE DEF e, next
    <3>3. EffectOK(self.node, SendRouteMessage(self, next, m))
      BY <1>1, <1>2, <2>1, <2>4, <3>2, SendRouteMessageOK
    <3> QED BY <3>1, <3>3 DEF e, next
  <2> QED BY <2>2, <2>3, <2>4
<1> QED
  BY <1>3, <1>4

\* An answer has no key but the caller's, and goes back over as many hops as the call came.
LEMMA AnswerOK ==
    ASSUME config \in Config, NEW self, self.node \in Node, NEW m \in MessageType, NEW arrived,
           arrived => Len(m.visitedHops) <= HopCountMax
    PROVE  EffectOK(self.node, Answer(self, m, arrived))
<1> DEFINE known  == arrived \/ config.acks
           key    == IF config.routing = "full" /\ known THEN m.src ELSE None
           plain  == Message(m.id, "answer", self.node, key)
           sib    == IsSiblingFor(self, m.key)
           answer == [plain EXCEPT !.sibling = sib]
           e      == Answer(self, m, arrived)
<1>1. /\ m.src \in Node /\ m.id \in Nat /\ m.visitedHops \in Seq(Node) /\ Len(m.visitedHops) \in Nat
      /\ HopCountMax \in Nat /\ None \notin Node
  BY Fields, RoutingAssumption
<1>2. key \in Node \cup {None}
  BY <1>1
<1>3. sib \in BOOLEAN
  BY DEF IsSiblingFor
<1>4. \/ e = Effect({Packet("direct", self.node, m.src, answer)}, {}, {})
      \/ e = SendToSourceRoute(self, Reverse(m.visitedHops), answer) /\ arrived /\ m.visitedHops # <<>>
      \/ e = RouteToKey(self, answer, self.node, FALSE) /\ key # None
      \/ e = SendToSourceRoute(self, <<m.src>>, answer) /\ key = None
  BY DEF Answer
<1> HIDE DEF e, known, key, sib
<1>5. /\ plain \in MessageType /\ plain.kind = "answer" /\ plain.key = key
      /\ plain.hopCount = 0 /\ plain.nextHops = <<>>
  BY <1>1, <1>2, MessageIsTyped
<1> HIDE DEF plain
<1>6. /\ answer \in MessageType /\ answer.kind = "answer" /\ answer.key = key
      /\ answer.hopCount = 0 /\ answer.nextHops = <<>>
  BY <1>3, <1>5 DEF MessageType
<1> HIDE DEF answer
<1>7. CASE e = Effect({Packet("direct", self.node, m.src, answer)}, {}, {})
  <2>1. PacketOK(Packet("direct", self.node, m.src, answer))
    BY <1>6 DEF PacketOK, Packet, Arrived
  <2> QED BY <1>7, <2>1, OnePacketOK DEF e
<1>8. CASE e = SendToSourceRoute(self, Reverse(m.visitedHops), answer) /\ arrived /\ m.visitedHops # <<>>
  <2> DEFINE back == Reverse(m.visitedHops)
  <2>1. /\ back \in Seq(Node) /\ Len(back) = Len(m.visitedHops)
        /\ Len(m.visitedHops) # 0 /\ Len(m.visitedHops) <= HopCountMax
    BY <1>1, <1>8, Reversed, EmptySeq
  <2> HIDE DEF back
  <2>2. back # <<>> /\ answer.hopCount + Len(back) <= HopCountMax
    BY <1>1, <1>6, <2>1, EmptySeq
  <2>3. EffectOK(self.node, SendToSourceRoute(self, back, answer))
    BY <1>6, <2>1, <2>2, SendToSourceRouteOK
  <2> QED BY <1>8, <2>3 DEF e, back
<1>9. CASE e = RouteToKey(self, answer, self.node, FALSE) /\ key # None
  <2>1. Held(self.node, answer)
    BY <1>6, <1>9 DEF Held
  <2>2. EffectOK(self.node, RouteToKey(self, answer, self.node, FALSE))
    BY <2>1, RouteToKeyOK
  <2> QED BY <1>9, <2>2 DEF e
<1>10. CASE e = SendToSourceRoute(self, <<m.src>>, answer) /\ key = None
  <2>1. <<m.src>> \in Seq(Node) /\ <<m.src>> # <<>>
    BY <1>1
  <2>2. EffectOK(self.node, SendToSourceRoute(self, <<m.src>>, answer))
    BY <1>6, <1>10, <2>1, SendToSourceRouteOK
  <2> QED BY <1>10, <2>2 DEF e
<1> QED
  BY <1>4, <1>7, <1>8, <1>9, <1>10

LEMMA SendToKeyOK ==
    ASSUME config \in Config, NEW self, self.node \in Node, NEW m, Held(self.node, m),
           NEW lastHop \in Node, NEW shown
    PROVE  EffectOK(self.node, SendToKey(self, m, lastHop, shown))
<1>1. m \in MessageType
  BY DEF Held
<1>2. EffectOK(self.node, Answer(self, m, FALSE))
  BY <1>1, AnswerOK
<1>3. EffectOK(self.node, RouteToKey(self, m, lastHop, shown))
  BY RouteToKeyOK
<1> QED
  BY <1>2, <1>3 DEF SendToKey

\* handleBaseOverlayMessage(), for a message that has come from lastHop or is sent again.
LEMMA HandleRouteOK ==
    ASSUME config \in Config, NEW self, self.node \in Node, NEW m \in MessageType, NEW lastHop \in Node,
           m.key # None => m.hopCount <= HopCountMax /\ m.hopCount + Len(m.nextHops) <= HopCountMax + 1,
           m.kind # "answer" => /\ Straight(lastHop, m)
                                /\ Len(m.visitedHops) < m.hopCount
                                /\ Len(m.nextHops) <= 1
                                /\ self.node \notin ToSet(m.visitedHops) \cup {lastHop} \/ self.node = lastHop
    PROVE  EffectOK(self.node, HandleRoute(self, m, lastHop))
<1> DEFINE route == IF m.nextHops = <<>> THEN <<>> ELSE Tail(m.nextHops)
           r     == Recorded(m, lastHop)
           e     == HandleRoute(self, m, lastHop)
<1>1. /\ m.hopCount \in Nat /\ HopCountMax \in Nat /\ m.nextHops \in Seq(Node) /\ Len(m.nextHops) \in Nat
      /\ m.visitedHops \in Seq(Node) /\ Len(m.visitedHops) \in Nat
      /\ <<>> \in Seq(Node) /\ Len(<<>>) = 0
  BY Fields, RoutingAssumption, EmptySeq
<1>2. /\ r \in MessageType /\ r.kind = m.kind /\ r.key = m.key /\ r.hopCount = m.hopCount /\ r.nextHops = <<>>
      /\ r.visitedHops = m.visitedHops \/ r.visitedHops = Append(m.visitedHops, lastHop)
  BY RecordedFields
<1>3. m.kind # "answer" => Straight(self.node, r)
  BY StraightWhenRecorded
<1>4. /\ route \in Seq(Node)
      /\ route # <<>> => Len(route) = Len(m.nextHops) - 1 /\ Len(route) # 0
  BY <1>1, HeadTailProperties, EmptySeq
<1>5. \/ route # <<>> /\ e = SendToSourceRoute(self, route, r)
      \/ route = <<>> /\ e = Effect({}, {}, {r})
      \/ route = <<>> /\ ~AtDestination(self, m) /\ e = SendToKey(self, r, lastHop, FALSE)
  BY DEF HandleRoute
<1> HIDE DEF route, r, e
<1>6. CASE route # <<>> /\ e = SendToSourceRoute(self, route, r)
  <2>1. m.kind = "answer"
    BY <1>1, <1>4, <1>6
  <2>2. r.key # None => r.hopCount + Len(route) <= HopCountMax
    BY <1>1, <1>2, <1>4, <1>6
  <2> QED BY <1>2, <1>4, <1>6, <2>1, <2>2, SendToSourceRouteOK DEF e
<1>7. CASE route = <<>> /\ e = Effect({}, {}, {r})
  <2>1. m.kind # "answer" => Len(r.visitedHops) <= HopCountMax
    <3>1. m.kind # "answer" => Len(r.visitedHops) <= m.hopCount
      BY <1>2, <1>3 DEF Straight
    <3>2. m.kind # "answer" => m.key # None
      BY DEF Straight
    <3>3. r.visitedHops \in Seq(Node)
      BY <1>2, Fields
    <3>4. Len(r.visitedHops) \in Nat
      BY <3>3, LenProperties
    <3> QED BY <1>1, <3>1, <3>2, <3>4
  <2>2. Arrived(r)
    BY <1>2, <2>1 DEF Arrived
  <2> QED BY <1>7, <2>2, HereOK DEF e
<1>8. CASE route = <<>> /\ ~AtDestination(self, m) /\ e = SendToKey(self, r, lastHop, FALSE)
  <2>1. m.key # None
    BY <1>8 DEF AtDestination
  <2>2. Held(self.node, r)
    BY <1>2, <1>3, <2>1 DEF Held
  <2>3. EffectOK(self.node, SendToKey(self, r, lastHop, FALSE))
    BY <2>2, SendToKeyOK
  <2> QED BY <1>8, <2>3 DEF e
<1> QED
  BY <1>5, <1>6, <1>7, <1>8 DEF e

LEMMA HandledOK ==
    ASSUME config \in Config, NEW self, self.node \in Node, NEW e, EffectOK(self.node, e)
    PROVE  EffectOK(self.node, Handled(self, e))
<1>1. CASE ~ \E m \in e.here : m.kind = "lookup"
  BY <1>1 DEF Handled
<1>2. CASE \E m \in e.here : m.kind = "lookup"
  <2> DEFINE one == CHOOSE m \in e.here : TRUE
  <2>1. one \in e.here
    BY <1>2
  <2>2. Handled(self, e) = Answer(self, one, TRUE)
    BY <1>2 DEF Handled
  <2> HIDE DEF one
  <2>3. e.here = {one} /\ Arrived(one)
    BY <2>1 DEF EffectOK
  <2>4. one.kind = "lookup"
    BY <1>2, <2>3
  <2>5. one \in MessageType /\ Len(one.visitedHops) <= HopCountMax
    BY <2>3, <2>4 DEF Arrived
  <2> QED BY <2>2, <2>5, AnswerOK
<1> QED
  BY <1>1, <1>2

\* internalHandleRpcTimeout()
LEMMA ResentOK ==
    ASSUME config \in Config, NEW self, NEW dest, NEW m, Carried(self.node, dest, m)
    PROVE  EffectOK(self.node, Resent(self, m))
<1>1. m \in MessageType /\ self.node \in Node /\ m.nextHops \in Seq(Node)
  BY Fields DEF Carried
<1>2. CASE Resent(self, m) = Nothing
  BY <1>2, NothingOK
<1>3. CASE m.key # None /\ Resent(self, m) = HandleRoute(self, m, self.node)
  <2>1. EffectOK(self.node, HandleRoute(self, m, self.node))
    BY <1>1, <1>3, HandleRouteOK DEF Carried
  <2> QED BY <1>3, <2>1
<1>4. CASE /\ m.key = None /\ m.nextHops # <<>>
           /\ Resent(self, m) = HandleRoute(self, [m EXCEPT !.nextHops = Tail(m.nextHops)], self.node)
  <2> DEFINE n == [m EXCEPT !.nextHops = Tail(m.nextHops)]
  <2>1. Tail(m.nextHops) \in Seq(Node)
    BY <1>1, <1>4, HeadTailProperties
  <2>2. n \in MessageType /\ n.key = m.key /\ n.kind = m.kind
    BY <1>1, <2>1, NextHopsSet
  <2>3. m.kind = "answer"
    BY <1>4 DEF Carried, Straight
  <2> HIDE DEF n
  <2>4. EffectOK(self.node, HandleRoute(self, n, self.node))
    BY <1>1, <1>4, <2>2, <2>3, HandleRouteOK
  <2> QED BY <1>4, <2>4 DEF n
<1>5. m.nextHops = <<>> => ~(Len(m.nextHops) > 1)
  BY EmptySeq
<1> QED
  BY <1>2, <1>3, <1>4, <1>5 DEF Resent


(***************************************************************************)
(* The invariant                                                           *)
(***************************************************************************)
NodesOK ==
    /\ alive \subseteq Node
    /\ removed \in [Node -> SUBSET Node] /\ \A n \in Node : n \notin removed[n]

CallsOK ==
    /\ pending = [n \in Node |-> pending[n]]
    /\ \A n \in Node : \A c \in pending[n] : Carried(n, c.dest, c.msg)

States == {"new", "sent", "waiting", "valid", "failed"}
LookupType == [state : States, retries : Nat]
RequestsOK ==
    /\ lookup \in [Requests -> LookupType]
    /\ delivered \in [Requests -> SUBSET Node]

IInv ==
    /\ config \in Config
    /\ NodesOK
    /\ \A p \in packets : PacketOK(p)
    /\ CallsOK
    /\ RequestsOK

LEMMA UsesBound ==
    ASSUME config \in Config, NEW bound \in {"failures", "losses", "early"}, Uses(bound)
    PROVE  config' \in Config /\ Requests' = Requests
BY DEF Uses, Config, Requests

LEMMA RequestFields ==
    ASSUME config \in Config, NEW i \in Requests
    PROVE  /\ i \in Nat /\ config.requests[i].src \in Node /\ config.requests[i].key \in Node
           /\ config.requests[i].kind \in {"lookup", "data"}
           /\ config.requests[i].via \in Node \cup {None}
           /\ config.requests[i].via # config.requests[i].src
<1>1. config.requests \in Seq(RequestType)
  BY DEF Config
<1>2. i \in 1 .. Len(config.requests) /\ Len(config.requests) \in Nat
  BY <1>1, LenProperties DEF Requests
<1>3. config.requests[i] \in RequestType
  BY <1>1, <1>2, ElementOfSeq
<1> QED
  BY <1>2, <1>3 DEF RequestType

LEMMA InitOK == Init => IInv
<1> SUFFICES ASSUME Init PROVE IInv
  OBVIOUS
<1>1. config \in Config
  BY RoutingAssumption DEF Init
<1>2. NodesOK
  BY DEF Init, NodesOK
<1>3. CallsOK
  BY DEF Init, CallsOK
<1>4. config.retries \in Nat
  BY <1>1 DEF Config
<1>5. RequestsOK
  BY <1>4 DEF Init, RequestsOK, LookupType, States
<1> QED
  BY <1>1, <1>2, <1>3, <1>5 DEF Init, IInv

\* What the handler of a packet, or of the end of a NextHopCall, leaves behind.
LEMMA LeavesOK ==
    ASSUME IInv, NEW self, self.node \in Node, NEW old, NEW over, NEW effect, NEW ack,
           EffectOK(self.node, effect), \A p \in ack : PacketOK(p),
           Leaves(self, old, over, effect, ack)
    PROVE  /\ \A p \in packets' : PacketOK(p)
           /\ pending' = [n \in Node |-> pending'[n]]
           /\ \A n \in Node : \A c \in pending'[n] : Carried(n, c.dest, c.msg)
           /\ lookup' \in [Requests -> LookupType]
           /\ delivered' \in [Requests -> SUBSET Node]
<1> DEFINE h == Handled(self, effect)
<1>1. config \in Config /\ CallsOK /\ RequestsOK /\ (\A p \in packets : PacketOK(p))
  BY DEF IInv
<1>2. EffectOK(self.node, h)
  BY <1>1, HandledOK
<1>3. /\ packets' = (packets \ old) \cup h.send \cup ack
      /\ pending' = [pending EXCEPT ![self.node] = (@ \ over) \cup h.wait]
      /\ lookup' = Finished(self, h.here)
      /\ delivered' = [i \in Requests |->
                          IF \E m \in effect.here : m.kind # "answer" /\ m.id = i
                          THEN delivered[i] \cup {self.node} ELSE delivered[i]]
  BY DEF Leaves
<1> HIDE DEF h
<1>4. \A p \in packets' : PacketOK(p)
  BY <1>1, <1>2, <1>3 DEF EffectOK
<1>5. /\ pending' = [n \in Node |-> pending'[n]]
      /\ \A n \in Node : \A c \in pending'[n] : Carried(n, c.dest, c.msg)
  <2>1. pending' = [n \in Node |-> IF n = self.node THEN (pending[n] \ over) \cup h.wait ELSE pending[n]]
    BY <1>1, <1>3 DEF CallsOK
  <2>2. ASSUME NEW n \in Node, NEW c \in pending'[n]
        PROVE  Carried(n, c.dest, c.msg)
    BY <1>1, <1>2, <2>1, <2>2 DEF CallsOK, EffectOK
  <2> QED BY <2>1, <2>2
<1>6. lookup' \in [Requests -> LookupType]
  <2>1. ASSUME NEW i \in Requests, NEW s \in States
        PROVE  lookup[i] \in LookupType /\ [lookup[i] EXCEPT !.state = s] \in LookupType
    BY <1>1 DEF RequestsOK, LookupType
  <2>2. ASSUME NEW i \in Requests
        PROVE  Finished(self, h.here)[i] \in LookupType
    <3>1. /\ [lookup[i] EXCEPT !.state = "valid"] \in LookupType /\ [lookup[i] EXCEPT !.state = "failed"] \in LookupType
          /\ lookup[i] \in LookupType
      BY <2>1 DEF States
    <3>2. \/ Finished(self, h.here)[i] = lookup[i]
          \/ Finished(self, h.here)[i] = [lookup[i] EXCEPT !.state = "valid"]
          \/ Finished(self, h.here)[i] = [lookup[i] EXCEPT !.state = "failed"]
      BY DEF Finished
    <3> QED BY <3>1, <3>2
  <2>3. Finished(self, h.here) = [i \in Requests |-> Finished(self, h.here)[i]]
    BY DEF Finished
  <2> QED BY <1>3, <2>2, <2>3
<1>7. delivered' \in [Requests -> SUBSET Node]
  BY <1>1, <1>3 DEF RequestsOK
<1> QED
  BY <1>4, <1>5, <1>6, <1>7


(***************************************************************************)
(* The steps                                                               *)
(***************************************************************************)
LEMMA SentOK ==
    ASSUME config \in Config, NEW i \in Requests
    PROVE  EffectOK(config.requests[i].src, Sent(i))
<1> DEFINE q == config.requests[i]
           m == Message(i, q.kind, q.src, q.key)
           self == Self(q.src)
<1>1. /\ i \in Nat /\ q.src \in Node /\ q.key \in Node /\ q.kind \in {"lookup", "data", "answer"}
      /\ q.via \in Node \cup {None} /\ q.via # q.src /\ q.key # None /\ HopCountMax \in Nat \ {0}
  BY RequestFields, RoutingAssumption
<1>2. self.node = q.src
  BY DEF Self
<1>3. /\ Sent(i) = IF q.via = None THEN SendToKey(self, m, q.src, FALSE)
                   ELSE SendToSourceRoute(self, <<q.via>>, m)
  BY DEF Sent
<1> HIDE DEF q, self
<1>4. /\ m \in MessageType /\ m.key = q.key /\ m.hopCount = 0
      /\ m.visitedHops = <<>> /\ m.nextHops = <<>>
  BY <1>1, MessageIsTyped
<1> HIDE DEF m
<1>5. Len(<<>>) = 0 /\ NoLoop(Append(<<>>, q.src)) /\ ToSet(<<>>) = {}
  <2>1. Len(<<>>) = 0 /\ NoLoop(Append(<<>>, q.src))
    BY <1>1, EmptySeq, NoLoopOfOne
  <2>2. DOMAIN <<>> = {}
    OBVIOUS
  <2> QED BY <2>1, <2>2 DEF ToSet
<1>6. Straight(q.src, m)
  BY <1>1, <1>4, <1>5 DEF Straight
<1>7. CASE q.via = None
  <2>1. Held(q.src, m)
    BY <1>1, <1>4, <1>6 DEF Held
  <2>2. EffectOK(q.src, SendToKey(self, m, q.src, FALSE))
    BY <1>1, <1>2, <2>1, SendToKeyOK
  <2> QED BY <1>3, <1>7, <2>2 DEF q
<1>8. CASE q.via # None
  <2> DEFINE route == <<q.via>>
  <2>1. route \in Seq(Node) /\ route # <<>> /\ Len(route) = 1 /\ route[1] = q.via
    BY <1>1, <1>8
  <2> HIDE DEF route
  <2>2. m.hopCount + Len(route) <= HopCountMax /\ Len(route) <= 1
    BY <1>1, <1>4, <2>1
  <2>3. route[1] \notin ToSet(m.visitedHops) \cup {self.node}
    BY <1>1, <1>2, <1>4, <1>5, <2>1
  <2>4. EffectOK(self.node, SendToSourceRoute(self, route, m))
    BY <1>1, <1>2, <1>4, <1>6, <2>1, <2>2, <2>3, SendToSourceRouteOK
  <2> QED BY <1>2, <1>3, <1>8, <2>4 DEF q, route
<1> QED
  BY <1>7, <1>8

LEMMA EmitsOK ==
    ASSUME IInv, NEW i \in Requests, Emits(i), lookup[i].state = "new" \/ lookup[i].retries > 0
    PROVE  /\ \A p \in packets' : PacketOK(p)
           /\ pending' = [n \in Node |-> pending'[n]]
           /\ \A n \in Node : \A c \in pending'[n] : Carried(n, c.dest, c.msg)
           /\ lookup' \in [Requests -> LookupType]
           /\ delivered' \in [Requests -> SUBSET Node]
<1> DEFINE q == config.requests[i]
           e == Sent(i)
           h == Handled(Self(q.src), e)
<1>1. config \in Config /\ CallsOK /\ RequestsOK /\ (\A p \in packets : PacketOK(p))
  BY DEF IInv
<1>2. q.src \in Node /\ q.kind \in {"lookup", "data"}
  BY <1>1, RequestFields
<1>3. EffectOK(q.src, h)
  <2>1. EffectOK(q.src, e)
    BY <1>1, SentOK
  <2>2. Self(q.src).node = q.src
    BY DEF Self
  <2> HIDE DEF e, q
  <2> QED BY <1>1, <1>2, <2>1, <2>2, HandledOK
<1>4. /\ packets' = packets \cup h.send
      /\ pending' = [pending EXCEPT ![q.src] = pending[q.src] \cup h.wait]
      /\ delivered' = [delivered EXCEPT ![i] = IF e.here = {} THEN delivered[i] ELSE delivered[i] \cup {q.src}]
      /\ lookup' = [lookup EXCEPT ![i] =
                      [state |-> IF q.kind = "data" THEN "sent"
                                 ELSE IF h.here = {} THEN "waiting" ELSE "valid",
                       retries |-> IF lookup[i].state = "new" THEN lookup[i].retries ELSE lookup[i].retries - 1]]
  BY DEF Emits
<1> HIDE DEF h, e, q
<1>5. \A p \in packets' : PacketOK(p)
  BY <1>1, <1>3, <1>4 DEF EffectOK
<1>6. /\ pending' = [n \in Node |-> pending'[n]]
      /\ \A n \in Node : \A c \in pending'[n] : Carried(n, c.dest, c.msg)
  <2>1. pending' = [n \in Node |-> IF n = q.src THEN pending[n] \cup h.wait ELSE pending[n]]
    BY <1>1, <1>4 DEF CallsOK
  <2>2. ASSUME NEW n \in Node, NEW c \in pending'[n]
        PROVE  Carried(n, c.dest, c.msg)
    BY <1>1, <1>3, <2>1, <2>2 DEF CallsOK, EffectOK
  <2> QED BY <2>1, <2>2
<1>7. lookup' \in [Requests -> LookupType]
  <2> DEFINE left == IF lookup[i].state = "new" THEN lookup[i].retries ELSE lookup[i].retries - 1
             state == IF q.kind = "data" THEN "sent" ELSE IF h.here = {} THEN "waiting" ELSE "valid"
  <2>1. lookup[i].retries \in Nat
    BY <1>1 DEF RequestsOK, LookupType
  <2>2. left \in Nat
    BY <2>1
  <2>3. state \in States
    BY DEF States
  <2>4. lookup' = [lookup EXCEPT ![i] = [state |-> state, retries |-> left]]
    BY <1>4
  <2> HIDE DEF left, state
  <2>5. [state |-> state, retries |-> left] \in LookupType
    BY <2>2, <2>3 DEF LookupType
  <2> QED BY <1>1, <2>4, <2>5 DEF RequestsOK
<1>8. delivered' \in [Requests -> SUBSET Node]
  BY <1>1, <1>2, <1>4 DEF RequestsOK
<1> QED
  BY <1>5, <1>6, <1>7, <1>8

LEMMA StartOK ==
    ASSUME IInv, NEW i \in Requests, Start(i)
    PROVE  IInv'
<1>1. Emits(i) /\ lookup[i].state = "new" /\ UNCHANGED <<config, alive, removed, stranded>>
  BY DEF Start
<1>2. Requests' = Requests
  BY <1>1 DEF Requests
<1> QED
  BY <1>1, <1>2, EmitsOK DEF IInv, NodesOK, CallsOK, RequestsOK

LEMMA HandleLookupTimeoutOK ==
    ASSUME IInv, NEW i \in Requests, HandleLookupTimeout(i)
    PROVE  IInv'
<1>1. config \in Config /\ CallsOK /\ RequestsOK /\ NodesOK /\ (\A p \in packets : PacketOK(p))
  BY DEF IInv
<1>2. config' \in Config /\ Requests' = Requests
  <2>1. CASE Uses("early")
    BY <1>1, <2>1, UsesBound
  <2>2. CASE UNCHANGED config
    BY <1>1, <2>2 DEF Requests
  <2> QED BY <2>1, <2>2 DEF HandleLookupTimeout
<1>3. NodesOK'
  BY <1>1 DEF NodesOK, HandleLookupTimeout
<1>4. CASE lookup[i].retries > 0
  <2>1. Emits(i)
    BY <1>4 DEF HandleLookupTimeout
  <2> QED BY <1>2, <1>3, <1>4, <2>1, EmitsOK DEF IInv, CallsOK, RequestsOK
<1>5. CASE ~(lookup[i].retries > 0)
  <2>1. lookup' = [lookup EXCEPT ![i] = [lookup[i] EXCEPT !.state = "failed"]]
        /\ UNCHANGED <<packets, pending, delivered>>
    BY <1>5 DEF HandleLookupTimeout
  <2>2. [lookup[i] EXCEPT !.state = "failed"] \in LookupType
    BY <1>1 DEF RequestsOK, LookupType, States
  <2>3. lookup' \in [Requests -> LookupType]
    BY <1>1, <2>1, <2>2 DEF RequestsOK
  <2> QED BY <1>1, <1>2, <1>3, <2>1, <2>3 DEF IInv, CallsOK, RequestsOK
<1> QED
  BY <1>4, <1>5

\* The packets whose handler has an effect.
LEMMA HandlesOK ==
    ASSUME IInv, NEW p \in packets, p.to \in Node, NEW effect, NEW ack,
           EffectOK(p.to, effect), \A q \in ack : PacketOK(q),
           Leaves(Self(p.to), {p}, {}, effect, ack), UNCHANGED <<config, alive, removed, stranded>>
    PROVE  IInv'
<1>1. Self(p.to).node = p.to
  BY DEF Self
<1> DEFINE self == Self(p.to)
<1> HIDE DEF self
<1>2. self.node \in Node /\ EffectOK(self.node, effect) /\ Leaves(self, {p}, {}, effect, ack)
  BY <1>1 DEF self
<1>3. Requests' = Requests
  BY DEF Requests
<1> QED
  BY <1>2, <1>3, LeavesOK DEF IInv, NodesOK, CallsOK, RequestsOK

LEMMA HandleRouteMessageOK ==
    ASSUME IInv, NEW p \in packets, HandleRouteMessage(p)
    PROVE  IInv'
<1> DEFINE self == Self(p.to)
           ack == IF config.acks THEN {Packet("ack", p.to, p.from, p.msg)} ELSE {}
<1>1. config \in Config /\ Carried(p.from, p.to, p.msg) /\ self.node = p.to
  BY DEF IInv, PacketOK, HandleRouteMessage, Self
<1>2. \A q \in ack : PacketOK(q)
  BY <1>1 DEF PacketOK, Packet
<1>3. Leaves(self, {p}, {}, HandleRoute(self, p.msg, p.from), ack) /\ UNCHANGED <<config, alive, removed, stranded>>
  BY DEF HandleRouteMessage
<1> HIDE DEF self, ack
<1>4. EffectOK(p.to, HandleRoute(self, p.msg, p.from))
  <2>1. EffectOK(self.node, HandleRoute(self, p.msg, p.from))
    BY <1>1, HandleRouteOK DEF Carried
  <2> QED BY <1>1, <2>1
<1>5. p.to \in Node
  BY <1>1 DEF Carried
<1> QED
  BY <1>2, <1>3, <1>4, <1>5, HandlesOK DEF self

LEMMA HandleNextHopResponseOK ==
    ASSUME IInv, NEW p \in packets, HandleNextHopResponse(p)
    PROVE  IInv'
<1>1. /\ packets' = packets \ {p}
      /\ pending' = [pending EXCEPT ![p.to] = pending[p.to] \ {[dest |-> p.from, msg |-> p.msg]}]
      /\ UNCHANGED <<config, alive, removed, lookup, delivered, stranded>>
  BY DEF HandleNextHopResponse
<1>2. CallsOK /\ Requests' = Requests
  BY <1>1 DEF IInv, Requests
<1>3. pending' = [n \in Node |-> IF n = p.to THEN pending[n] \ {[dest |-> p.from, msg |-> p.msg]} ELSE pending[n]]
  BY <1>1, <1>2 DEF CallsOK
<1>4. CallsOK'
  BY <1>2, <1>3 DEF CallsOK
<1> QED
  BY <1>1, <1>2, <1>4 DEF IInv, NodesOK, RequestsOK

LEMMA HandleDirectResponseOK ==
    ASSUME IInv, NEW p \in packets, HandleDirectResponse(p)
    PROVE  IInv'
<1>1. Arrived(p.msg) /\ p.to \in Node
  BY DEF IInv, PacketOK, NodesOK, HandleDirectResponse
<1>2. EffectOK(p.to, Effect({}, {}, {p.msg}))
  BY <1>1, HereOK
<1>3. Leaves(Self(p.to), {p}, {}, Effect({}, {}, {p.msg}), {}) /\ UNCHANGED <<config, alive, removed, stranded>>
  BY DEF HandleDirectResponse
<1> QED
  BY <1>1, <1>2, <1>3, HandlesOK

LEMMA HandleForwardOK ==
    ASSUME IInv, NEW p \in packets, HandleForward(p)
    PROVE  IInv'
<1> DEFINE self == Self(p.to)
<1>1. config \in Config /\ p.from \in Node /\ Held(p.to, p.msg) /\ p.to \in Node /\ self.node = p.to
  BY DEF IInv, PacketOK, NodesOK, HandleForward, Self
<1>2. Leaves(self, {p}, {}, SendToKey(self, p.msg, p.from, TRUE), {}) /\ UNCHANGED <<config, alive, removed, stranded>>
  BY DEF HandleForward
<1> HIDE DEF self
<1>3. EffectOK(p.to, SendToKey(self, p.msg, p.from, TRUE))
  <2>1. EffectOK(self.node, SendToKey(self, p.msg, p.from, TRUE))
    BY <1>1, SendToKeyOK
  <2> QED BY <1>1, <2>1
<1> DEFINE e == SendToKey(self, p.msg, p.from, TRUE)
<1>4. EffectOK(p.to, e) /\ Leaves(Self(p.to), {p}, {}, e, {})
  BY <1>2, <1>3 DEF self
<1> HIDE DEF e
<1> QED
  BY <1>1, <1>2, <1>4, HandlesOK

LEMMA HandleNextHopTimeoutOK ==
    ASSUME IInv, NEW n \in Node, NEW c \in pending[n], HandleNextHopTimeout(n, c)
    PROVE  IInv'
<1> DEFINE self == [node |-> n, gone |-> removed[n] \cup ({c.dest} \ {n})]
<1>1. config \in Config /\ NodesOK /\ Carried(n, c.dest, c.msg) /\ self.node = n
  BY DEF IInv, CallsOK
<1>2. config' \in Config /\ Requests' = Requests
  <2>1. CASE Uses("early")
    BY <1>1, <2>1, UsesBound
  <2>2. CASE UNCHANGED config
    BY <1>1, <2>2 DEF Requests
  <2> QED BY <2>1, <2>2 DEF HandleNextHopTimeout
<1>3. NodesOK'
  <2>1. removed' = [removed EXCEPT ![n] = removed[n] \cup ({c.dest} \ {n})] /\ alive' = alive
    BY DEF HandleNextHopTimeout
  <2>2. c.dest \in Node
    BY <1>1 DEF Carried
  <2> QED BY <1>1, <2>1, <2>2 DEF NodesOK
<1>4. Leaves(self, {}, {c}, Resent(self, c.msg), {})
  BY DEF HandleNextHopTimeout
<1> HIDE DEF self
<1>5. EffectOK(self.node, Resent(self, c.msg))
  BY <1>1, ResentOK
<1> QED
  BY <1>1, <1>2, <1>3, <1>4, <1>5, LeavesOK DEF IInv, CallsOK, RequestsOK

LEMMA FailOK ==
    ASSUME IInv, NEW n \in Node, Fail(n)
    PROVE  IInv'
<1>1. /\ Uses("failures") /\ alive' = alive \ {n} /\ pending' = [pending EXCEPT ![n] = {}]
      /\ UNCHANGED <<removed, packets, lookup, delivered>>
  BY DEF Fail
<1>2. config' \in Config /\ Requests' = Requests
  BY <1>1, UsesBound DEF IInv
<1>3. CallsOK
  BY DEF IInv
<1>4. pending' = [k \in Node |-> IF k = n THEN {} ELSE pending[k]]
  BY <1>1, <1>3 DEF CallsOK
<1>5. CallsOK'
  BY <1>3, <1>4 DEF CallsOK
<1> QED
  BY <1>1, <1>2, <1>5 DEF IInv, NodesOK, RequestsOK

LEMMA GoneOK ==
    ASSUME IInv, NEW p \in packets, Drop(p) \/ Lose(p)
    PROVE  IInv'
<1>1. packets' = packets \ {p} /\ UNCHANGED <<alive, removed, pending, lookup, delivered>>
  BY DEF Drop, Lose
<1>2. config' \in Config /\ Requests' = Requests
  <2>1. CASE Uses("losses")
    BY <2>1, UsesBound DEF IInv
  <2>2. CASE UNCHANGED config
    BY <2>2 DEF IInv, Requests
  <2> QED BY <2>1, <2>2 DEF Drop, Lose
<1> QED
  BY <1>1, <1>2 DEF IInv, NodesOK, CallsOK, RequestsOK

LEMMA UnchangedOK ==
    ASSUME IInv, UNCHANGED vars
    PROVE  IInv'
BY DEF vars, IInv, NodesOK, CallsOK, RequestsOK, Requests

LEMMA NextOK ==
    ASSUME IInv, Next
    PROVE  IInv'
<1>1. ASSUME NEW i \in Requests, Start(i) \/ HandleLookupTimeout(i)
      PROVE  IInv'
  BY <1>1, StartOK, HandleLookupTimeoutOK
<1>2. ASSUME NEW p \in packets, Arrive(p) \/ Lose(p)
      PROVE  IInv'
  BY <1>2, HandleRouteMessageOK, HandleNextHopResponseOK, HandleDirectResponseOK, HandleForwardOK, GoneOK DEF Arrive
<1>3. ASSUME NEW n \in Node, Fail(n) \/ \E c \in pending[n] : HandleNextHopTimeout(n, c)
      PROVE  IInv'
  BY <1>3, FailOK, HandleNextHopTimeoutOK
<1> QED
  BY <1>1, <1>2, <1>3 DEF Next

LEMMA NoLoopFollows == IInv => RecordedRouteHasNoLoop
<1> SUFFICES ASSUME IInv PROVE RecordedRouteHasNoLoop
  OBVIOUS
<1>1. NodesOK /\ RequestsOK /\ (\A p \in packets : PacketOK(p))
  BY DEF IInv
<1>2. \A m \in Routed : m.key # None => m.hopCount <= HopCountMax
  BY <1>1 DEF Routed, PacketOK, Carried
<1>3. TypeOK
  BY <1>1, <1>2 DEF TypeOK, NodesOK, RequestsOK, LookupType
<1>4. ASSUME NEW p \in packets, p.type = "route", p.msg.kind # "answer"
      PROVE  NoLoop(p.msg.visitedHops \o <<p.from, p.to>>)
  <2>1. Carried(p.from, p.to, p.msg)
    BY <1>1, <1>4 DEF PacketOK
  <2>2. /\ p.msg.visitedHops \in Seq(Node) /\ p.from \in Node /\ p.to \in Node
        /\ NoLoop(Append(p.msg.visitedHops, p.from))
        /\ p.to \notin ToSet(p.msg.visitedHops) \cup {p.from}
    BY <1>4, <2>1, Fields DEF Carried, Straight
  <2> QED BY <2>2, WayIsNoLoop
<1> QED
  BY <1>3, <1>4 DEF RecordedRouteHasNoLoop

\* In every state the messages on their way, those that wait for an acknowledgement, and those
\* that the application was shown, keep to their hop count and their recorded route.
THEOREM Invariance == Spec => []IInv
<1>1. IInv /\ [Next]_vars => IInv'
  BY NextOK, UnchangedOK
<1> QED
  BY InitOK, <1>1, PTL DEF Spec

\* No message that goes to a key comes back to a node of its recorded route that it has left,
\* whatever the tables of the nodes are, and none makes more than HopCountMax hops: the loop
\* detection and the hop count of sendToKey(), together with resending and forward().
THEOREM NoLoops == Spec => []RecordedRouteHasNoLoop
BY Invariance, NoLoopFollows, PTL

(***************************************************************************)
(* Tables that lead to the key                                             *)
(***************************************************************************)
\* How far each node is from a key.
Distance(key) ==
    IF config.table \in Close THEN CHOOSE hops \in SpareWays(config.table, key) : TRUE
    ELSE CHOOSE hops \in Ways(config.table, key) : TRUE

FirstHop(n, key) == Tables[config.table][n][key][1]
SecondHop(n, key) == Tables[config.table][n][key][2]

\* What a node may have removed, that the tables still lead to the key.
Leads(gone) ==
    \/ config.table \in Close /\ \A x, y \in gone : x = y
    \/ config.table \in Chain /\ gone = {}

HopFacts(gone, n, key) ==
    /\ FirstHop(n, key) \in Node /\ 1 \in DOMAIN Tables[config.table][n][key]
    /\ FirstHop(n, key) = n <=> n = key
    /\ n # key => Distance(key)[FirstHop(n, key)] < Distance(key)[n]
    /\ gone # {} =>
        /\ SecondHop(n, key) \in Node /\ 2 \in DOMAIN Tables[config.table][n][key]
        /\ FirstHop(n, key) # SecondHop(n, key)
        /\ n # key /\ SecondHop(n, key) = n => FirstHop(n, key) = key
        /\ n # key /\ SecondHop(n, key) # n => Distance(key)[SecondHop(n, key)] + 1 < Distance(key)[n]

LEMMA DistanceFacts ==
    ASSUME config \in Config, NEW gone, Leads(gone), NEW key \in Node
    PROVE  /\ Distance(key) \in [Node -> 0 .. HopCountMax - 1]
           /\ \A n \in Node : HopFacts(gone, n, key)
<1> DEFINE t == config.table
           d == Distance(key)
<1>1. t \in DOMAIN Tables /\ \A n \in Node : Tables[t][n][key] \in Seq(Node)
  BY RoutingAssumption DEF Config
<1>2. d \in Ways(t, key) /\ (gone # {} => d \in SpareWays(t, key))
  <2>1. CASE t \in Close
    <3>1. SpareWays(t, key) # {}
      BY <2>1 DEF Close
    <3>2. d \in SpareWays(t, key)
      BY <2>1, <3>1 DEF Distance
    <3> QED BY <3>2 DEF SpareWays
  <2>2. CASE t \notin Close
    <3>1. gone = {} /\ Ways(t, key) # {}
      BY <2>2 DEF Leads, Chain
    <3>2. d \in Ways(t, key)
      BY <2>2, <3>1 DEF Distance
    <3> QED BY <3>1, <3>2
  <2> QED BY <2>1, <2>2
<1> HIDE DEF d
<1>3. d \in [Node -> 0 .. HopCountMax - 1]
  BY <1>2 DEF Ways
<1>4. ASSUME NEW n \in Node
      PROVE  HopFacts(gone, n, key)
  <2> DEFINE s == Tables[t][n][key]
  <2>1. s \in Seq(Node) /\ s # <<>>
    BY <1>1, <1>2 DEF Ways
  <2>2. Len(s) \in Nat \ {0} /\ DOMAIN s = 1 .. Len(s)
    BY <2>1, EmptySeq, LenProperties
  <2>3. 1 \in DOMAIN s /\ s[1] \in Node
    BY <2>1, <2>2, ElementOfSeq
  <2>4. (s[1] = n <=> n = key) /\ (n # key => d[s[1]] < d[n])
    BY <1>2 DEF Ways
  <2>5. gone # {} => /\ Len(s) > 1 /\ s[1] # s[2]
                     /\ n # key => IF s[2] = n THEN s[1] = key ELSE d[s[2]] + 1 < d[n]
    BY <1>2 DEF SpareWays
  <2>6. gone # {} => 2 \in DOMAIN s /\ s[2] \in Node
    BY <2>1, <2>2, <2>5, ElementOfSeq
  <2> HIDE DEF s
  <2>7. FirstHop(n, key) = s[1] /\ SecondHop(n, key) = s[2]
    BY DEF FirstHop, SecondHop, s
  <2> QED BY <2>1, <2>3, <2>4, <2>5, <2>6, <2>7 DEF s, HopFacts, d
<1> QED
  BY <1>3, <1>4 DEF d, t

LEMMA MinIs ==
    ASSUME NEW S \in SUBSET Nat, NEW x \in S, \A y \in S : x <= y
    PROVE  Min(S) = x
<1>1. Min(S) \in S /\ \A y \in S : Min(S) <= y
  BY DEF Min
<1>2. Min(S) \in Nat /\ x \in Nat /\ Min(S) <= x /\ x <= Min(S)
  BY <1>1
<1> QED
  BY <1>2

\* The first of some next hops is the first one of the table, or the second one without it.
LEMMA FirstOf ==
    ASSUME config \in Config, NEW self, self.node \in Node, NEW key \in Node,
           NEW hops \in SUBSET DOMAIN Table(self, key)
    PROVE  /\ 1 \in hops => First(self, key, hops) = Table(self, key)[1]
           /\ 1 \notin hops /\ 2 \in hops => First(self, key, hops) = Table(self, key)[2]
<1>1. DOMAIN Table(self, key) \subseteq Nat \ {0}
  <2>1. Table(self, key) \in Seq(Node)
    BY TableIsSequence
  <2> QED BY <2>1, LenProperties
<1>2. hops \in SUBSET Nat /\ 0 \notin hops
  BY <1>1
<1>3. ASSUME 1 \in hops PROVE Min(hops) = 1
  BY <1>2, <1>3, MinIs
<1>4. ASSUME 1 \notin hops, 2 \in hops PROVE Min(hops) = 2
  <2>1. \A y \in hops : 2 <= y
    BY <1>2, <1>4
  <2> QED BY <1>2, <1>4, <2>1, MinIs
<1> QED
  BY <1>3, <1>4 DEF First

\* The node that is responsible for a key: it has the key, or has lost the node that has it.
LEMMA SiblingFacts ==
    ASSUME config \in Config, NEW self, self.node \in Node, self.gone \in SUBSET (Node \ {self.node}),
           Leads(self.gone), NEW key \in Node
    PROVE  /\ self.node = key => IsSiblingFor(self, key)
           /\ IsSiblingFor(self, key) /\ self.node # key => key \in self.gone
           /\ ~IsSiblingFor(self, key) /\ FirstHop(self.node, key) \in self.gone =>
                SecondHop(self.node, key) # self.node /\ SecondHop(self.node, key) \notin self.gone
           /\ FindNode(self, key) # {}
<1> DEFINE n == self.node
           s == Table(self, key)
           f == FindNode(self, key)
<1>1. /\ s[1] \in Node /\ 1 \in DOMAIN s /\ (s[1] = n <=> n = key)
      /\ self.gone # {} => /\ s[2] \in Node /\ 2 \in DOMAIN s /\ s[1] # s[2]
                           /\ n # key /\ s[2] = n => s[1] = key
      /\ s[1] = FirstHop(n, key) /\ s[2] = SecondHop(n, key)
  <2>1. HopFacts(self.gone, n, key)
    BY DistanceFacts
  <2>2. s = Tables[config.table][n][key] /\ s[1] = FirstHop(n, key) /\ s[2] = SecondHop(n, key)
    BY DEF Table, FirstHop, SecondHop
  <2> HIDE DEF s, n
  <2> QED BY <2>1, <2>2 DEF HopFacts
<1>2. \A x, y \in self.gone : x = y
  BY DEF Leads
<1>3. f \in SUBSET DOMAIN s /\ \A i \in DOMAIN s : i \in f <=> s[i] \notin self.gone
  BY DEF FindNode
<1> HIDE DEF n, s, f
<1>4. CASE s[1] \notin self.gone
  <2>1. 1 \in f
    BY <1>1, <1>3, <1>4
  <2>2. First(self, key, f) = s[1]
    BY <1>3, <2>1, FirstOf DEF s, f
  <2> QED BY <1>1, <1>4, <2>1, <2>2 DEF IsSiblingFor, f, n, s
<1>5. CASE s[1] \in self.gone
  <2>1. 1 \notin f /\ self.gone # {}
    BY <1>1, <1>3, <1>5
  <2>2. s[2] \notin self.gone
    BY <1>1, <1>2, <1>5, <2>1
  <2>3. 2 \in f
    BY <1>1, <1>3, <2>1, <2>2
  <2>4. First(self, key, f) = s[2]
    BY <1>3, <2>1, <2>3, FirstOf DEF s, f
  <2>5. n # key
    BY <1>1, <1>5 DEF n
  <2>6. IsSiblingFor(self, key) <=> s[2] = n
    BY <2>4 DEF IsSiblingFor, f, n
  <2> QED BY <1>1, <1>5, <2>1, <2>2, <2>3, <2>5, <2>6 DEF n, s, f
<1> QED
  BY <1>4, <1>5

\* Where a message has been is not closer to its key than the node n.
Closing(n, m) ==
    \A x \in ToSet(m.visitedHops) \cup {m.src} : Distance(m.key)[x] >= Distance(m.key)[n]

\* The hops that are left suffice, for a message that is with the node n.
Budget(gone, n, m) ==
    \/ m.hopCount + Distance(m.key)[n] <= HopCountMax
    \/ FirstHop(n, m.key) \in gone /\ m.hopCount + Distance(m.key)[n] <= HopCountMax + 1
    \/ m.hopCount <= 1

\* They suffice, too, when the message is sent again by n since dest is removed.
Resends(gone, n, dest, m) ==
    \/ dest = FirstHop(n, m.key) /\ m.hopCount + Distance(m.key)[n] <= HopCountMax + 1
    \/ m.hopCount <= 1
    \/ FirstHop(n, m.key) \in gone /\ dest # FirstHop(n, m.key)

\* A next hop that a node chooses is closer to the key.
Chooses(self, m, next) ==
    /\ next \in Node /\ next # self.node
    /\ Distance(m.key)[next] < Distance(m.key)[self.node]
    /\ m.hopCount < HopCountMax
    /\ m.hopCount + 1 + Distance(m.key)[next] <= HopCountMax
    /\ \/ next = FirstHop(self.node, m.key) /\ m.hopCount + 1 + Distance(m.key)[self.node] <= HopCountMax + 1
       \/ m.hopCount = 0
       \/ FirstHop(self.node, m.key) \in self.gone /\ next # FirstHop(self.node, m.key)

LEMMA GoesCloser ==
    ASSUME config \in Config, NEW self, self.node \in Node, self.gone \in SUBSET (Node \ {self.node}),
           Leads(self.gone), NEW m \in MessageType, m.key \in Node, NEW lastHop \in Node,
           Closing(self.node, m), Distance(m.key)[lastHop] >= Distance(m.key)[self.node],
           Budget(self.gone, self.node, m), ~IsSiblingFor(self, m.key)
    PROVE  Chooses(self, m, NextHop(self, m, lastHop))
<1> DEFINE n == self.node
           s == Table(self, m.key)
           f == FindNode(self, m.key)
           d == Distance(m.key)
           useful == {i \in f : Useful(self, s[i], m, lastHop)}
           next == NextHop(self, m, lastHop)
           one == FirstHop(n, m.key)
           two == SecondHop(n, m.key)
<1>1. d \in [Node -> 0 .. HopCountMax - 1] /\ HopFacts(self.gone, n, m.key)
  BY DistanceFacts
<1>2. n # m.key /\ (one \in self.gone => two # n /\ two \notin self.gone)
  BY SiblingFacts
<1>3. /\ one \in Node /\ 1 \in DOMAIN s /\ one # n /\ d[one] < d[n]
      /\ self.gone # {} => two \in Node /\ 2 \in DOMAIN s /\ one # two
      /\ self.gone # {} /\ two # n => d[two] + 1 < d[n]
      /\ s[1] = one /\ s[2] = two
  <2>1. s = Tables[config.table][n][m.key] /\ s[1] = one /\ s[2] = two
    BY DEF Table, FirstHop, SecondHop
  <2> HIDE DEF s, n, one, two, d
  <2> QED BY <1>1, <1>2, <2>1 DEF HopFacts, one, two, d
<1>4. m.hopCount \in Nat /\ HopCountMax \in Nat \ {0} /\ n \in Node /\ lastHop \in Node /\ m.src \in Node
  BY Fields, RoutingAssumption
<1>5. d[lastHop] >= d[n] /\ \A x \in ToSet(m.visitedHops) \cup {m.src} : d[x] >= d[n]
  BY DEF Closing
<1>6. \/ m.hopCount + d[n] <= HopCountMax
      \/ one \in self.gone /\ m.hopCount + d[n] <= HopCountMax + 1
      \/ m.hopCount <= 1
  BY DEF Budget
<1>7. f \in SUBSET DOMAIN s /\ (\A i \in DOMAIN s : i \in f <=> s[i] \notin self.gone)
      /\ useful \in SUBSET DOMAIN s /\ useful \subseteq f
  BY DEF FindNode
<1>8. next = First(self, m.key, useful)
  BY DEF NextHop
<1>9. /\ 1 \in useful => next = one
      /\ 1 \notin useful /\ 2 \in useful => next = two
  <2>1. m.key \in Node
    OBVIOUS
  <2> HIDE DEF useful, next
  <2> QED BY <1>3, <1>7, <1>8, <2>1, FirstOf
<1>10. d \in [Node -> Nat] /\ \A x \in Node : d[x] \in Nat /\ d[x] <= HopCountMax - 1
  <2> HIDE DEF d
  <2> QED BY <1>1, <1>4
<1>11. ASSUME NEW x \in Node, d[x] < d[n], NEW i \in f, s[i] = x
       PROVE  i \in useful
  <2>1. x # lastHop /\ x \notin ToSet(m.visitedHops) \cup {m.src} /\ x # n
    <3> HIDE DEF d, n
    <3>1. \A y \in Node : d[y] >= d[n] => y # x
      BY <1>4, <1>10, <1>11
    <3>2. \A y \in ToSet(m.visitedHops) \cup {m.src} : y # x
      BY <1>4, <1>5, <1>10, <1>11
    <3> QED BY <1>4, <1>5, <1>10, <1>11, <3>1, <3>2
  <2> QED BY <1>11, <2>1 DEF Useful
<1> HIDE DEF n, s, f, d, useful, next, one, two
<1>12. CASE one \notin self.gone
  <2>1. next = one
    BY <1>3, <1>7, <1>9, <1>11, <1>12
  <2>2. d[one] \in Nat /\ d[n] \in Nat /\ d[n] <= HopCountMax - 1 /\ d[one] < d[n]
    BY <1>3, <1>4, <1>10
  <2>3. m.hopCount < HopCountMax /\ m.hopCount + 1 + d[one] <= HopCountMax
        /\ m.hopCount + 1 + d[n] <= HopCountMax + 1
    BY <1>4, <1>6, <1>12, <2>2
  <2> QED BY <1>3, <2>1, <2>2, <2>3 DEF Chooses, n, d, next, one
<1>13. CASE one \in self.gone
  <2>1. self.gone # {} /\ two # n /\ two \notin self.gone
    BY <1>2, <1>13
  <2>2. 1 \notin useful
    BY <1>3, <1>7, <1>13
  <2>3. two \in Node /\ d[two] + 1 < d[n] /\ d[two] \in Nat /\ d[n] \in Nat /\ d[n] <= HopCountMax - 1
    BY <1>3, <1>4, <1>10, <2>1
  <2>4. d[two] < d[n]
    BY <2>3
  <2>5. next = two
    BY <1>3, <1>7, <1>9, <1>11, <2>1, <2>2, <2>3, <2>4
  <2>6. m.hopCount < HopCountMax /\ m.hopCount + 1 + d[two] <= HopCountMax
    BY <1>4, <1>6, <2>3
  <2> QED BY <1>3, <1>13, <2>1, <2>3, <2>4, <2>5, <2>6 DEF Chooses, n, d, next, one
<1> QED
  BY <1>12, <1>13

(***************************************************************************)
(* Messages belong to requests                                             *)
(***************************************************************************)
\* A message of a request, or the answer to a lookup.
Own(m) ==
    /\ m \in MessageType /\ m.id \in Requests
    /\ LET q == config.requests[m.id] IN
        IF m.kind = "answer"
        THEN /\ q.kind = "lookup"
             /\ m.key # None => m.key = q.src /\ config.routing = "full"
             /\ config.routing = "full" /\ config.acks => m.key # None
        ELSE m.kind = q.kind /\ m.src = q.src /\ m.key = q.key

OwnPacket(n, p) ==
    /\ p = Packet(p.type, p.from, p.to, p.msg) /\ p.type \in {"route", "direct", "app"}
    /\ p.type = "route" => p.from = n
    /\ p.type = "direct" => p.msg.kind = "answer"
    /\ p.type = "app" => p.to = n /\ p.msg.kind = "data"

\* A message that a message m leaves behind.
Follows(m, k) == Own(k) /\ k.id = m.id /\ (m.kind = "answer" => k.kind = "answer")

\* All that a handler of the node n leaves behind for m is of the same request.
OwnEffect(m, n, e) ==
    /\ \A p \in e.send : OwnPacket(n, p) /\ Follows(m, p.msg)
    /\ \A c \in e.wait : config.acks /\ c = [dest |-> c.dest, msg |-> c.msg] /\ Follows(m, c.msg)
    /\ \A k \in e.here : Follows(m, k)

LEMMA OwnCopy ==
    ASSUME NEW m, Own(m), NEW k \in MessageType,
           k.id = m.id, k.kind = m.kind, k.src = m.src, k.key = m.key
    PROVE  Own(k)
BY DEF Own

LEMMA OwnHops ==
    ASSUME NEW m, Own(m), NEW h \in Nat
    PROVE  LET k == [m EXCEPT !.hopCount = h]
           IN  /\ Own(k) /\ k.id = m.id /\ k.hopCount = h /\ k.kind = m.kind /\ k.key = m.key /\ k.src = m.src
               /\ k.visitedHops = m.visitedHops /\ k.nextHops = m.nextHops
<1> DEFINE k == [m EXCEPT !.hopCount = h]
<1>1. /\ k \in MessageType /\ k.hopCount = h /\ k.kind = m.kind /\ k.key = m.key /\ k.id = m.id /\ k.src = m.src
      /\ k.visitedHops = m.visitedHops /\ k.nextHops = m.nextHops
  BY DEF MessageType, Own
<1> HIDE DEF k
<1> QED
  BY <1>1, OwnCopy DEF k

LEMMA OwnNextHops ==
    ASSUME NEW m, Own(m), NEW route \in Seq(Node)
    PROVE  LET k == [m EXCEPT !.nextHops = route]
           IN  /\ Own(k) /\ k.id = m.id /\ k.hopCount = m.hopCount /\ k.kind = m.kind /\ k.key = m.key /\ k.src = m.src
               /\ k.visitedHops = m.visitedHops /\ k.nextHops = route
<1> DEFINE k == [m EXCEPT !.nextHops = route]
<1>1. /\ k \in MessageType /\ k.hopCount = m.hopCount /\ k.kind = m.kind /\ k.key = m.key /\ k.id = m.id /\ k.src = m.src
      /\ k.visitedHops = m.visitedHops /\ k.nextHops = route
  BY DEF MessageType, Own
<1> HIDE DEF k
<1> QED
  BY <1>1, OwnCopy DEF k

LEMMA OwnRecorded ==
    ASSUME NEW m, Own(m), NEW lastHop \in Node
    PROVE  LET r == Recorded(m, lastHop)
           IN  /\ Own(r) /\ r.id = m.id /\ r.hopCount = m.hopCount /\ r.kind = m.kind /\ r.key = m.key /\ r.src = m.src
               /\ r.nextHops = <<>>
               /\ IF m.nextHops # <<>> \/ config.routing = "source" \/ config.record
                  THEN r.visitedHops = Append(m.visitedHops, lastHop) ELSE r.visitedHops = m.visitedHops
<1> DEFINE v == Append(m.visitedHops, lastHop)
           k == [m EXCEPT !.visitedHops = v, !.nextHops = <<>>]
           recorded == m.nextHops # <<>> \/ config.routing = "source" \/ config.record
<1>1. m \in MessageType /\ v \in Seq(Node) /\ <<>> \in Seq(Node)
  BY Fields, Appended, EmptySeq DEF Own
<1> HIDE DEF v
<1>2. /\ k \in MessageType /\ k.id = m.id /\ k.kind = m.kind /\ k.key = m.key /\ k.src = m.src
      /\ k.hopCount = m.hopCount /\ k.nextHops = <<>> /\ k.visitedHops = v
  BY <1>1 DEF MessageType
<1> HIDE DEF k
<1>3. Own(k)
  BY <1>2, OwnCopy
<1>4. IF recorded THEN Recorded(m, lastHop) = k ELSE Recorded(m, lastHop) = m /\ m.nextHops = <<>>
  BY DEF Recorded, k, v, recorded
<1>5. CASE recorded
  BY <1>2, <1>3, <1>4, <1>5 DEF v
<1>6. CASE ~recorded
  BY <1>4, <1>6
<1> QED
  BY <1>5, <1>6

LEMMA OwnShown ==
    ASSUME NEW m, Own(m)
    PROVE  /\ Own(Shown(m)) /\ Shown(m).id = m.id /\ Shown(m).hopCount = m.hopCount /\ Shown(m).kind = m.kind
           /\ Shown(m).key = m.key /\ Shown(m).src = m.src
           /\ Shown(m).nextHops = <<>> /\ Shown(m).visitedHops = <<>>
<1>1. /\ Shown(m) \in MessageType /\ Shown(m).key = m.key /\ Shown(m).hopCount = m.hopCount
      /\ Shown(m).nextHops = <<>> /\ Shown(m).visitedHops = <<>> /\ Shown(m).id = m.id
      /\ Shown(m).kind = m.kind /\ Shown(m).src = m.src
  BY EmptySeq DEF Shown, MessageType, Own
<1> QED
  BY <1>1, OwnCopy

LEMMA OwnFollows ==
    ASSUME NEW m, NEW k, k.id = m.id, m.kind = "answer" => k.kind = "answer", NEW n, NEW e, OwnEffect(k, n, e)
    PROVE  OwnEffect(m, n, e)
BY DEF OwnEffect, Follows

LEMMA OwnNothing ==
    ASSUME NEW m, NEW n
    PROVE  OwnEffect(m, n, Nothing)
BY DEF Follows, OwnEffect, Nothing, Effect

LEMMA OwnHere ==
    ASSUME NEW n, NEW m, Own(m)
    PROVE  OwnEffect(m, n, Effect({}, {}, {m}))
BY DEF Follows, OwnEffect, Effect

\* sendRouteMessage()
LEMMA SendOwn ==
    ASSUME NEW self, NEW dest, NEW m, Own(m)
    PROVE  OwnEffect(m, self.node, SendRouteMessage(self, dest, m))
<1> DEFINE sent == [m EXCEPT !.hopCount = HopsCounted(self, dest, m)]
<1>1. HopsCounted(self, dest, m) \in Nat
  BY Fields DEF HopsCounted, Own
<1>2. Own(sent) /\ sent.id = m.id /\ sent.kind = m.kind
  BY <1>1, OwnHops
<1> HIDE DEF sent
<1>3. SendRouteMessage(self, dest, m) =
        Effect({Packet("route", self.node, dest, sent)}, IF config.acks THEN {[dest |-> dest, msg |-> sent]} ELSE {}, {})
  BY DEF SendRouteMessage, sent
<1>4. OwnPacket(self.node, Packet("route", self.node, dest, sent)) /\ Packet("route", self.node, dest, sent).msg = sent
  BY DEF OwnPacket, Packet
<1> QED
  BY <1>2, <1>3, <1>4 DEF Follows, OwnEffect, Effect

LEMMA SourceRouteOwn ==
    ASSUME NEW self, NEW route \in Seq(Node), NEW m, Own(m)
    PROVE  OwnEffect(m, self.node, SendToSourceRoute(self, route, m))
<1> DEFINE k == [m EXCEPT !.nextHops = route]
<1>1. Own(k) /\ k.id = m.id /\ k.kind = m.kind
  BY OwnNextHops
<1>2. SendToSourceRoute(self, route, m) = SendRouteMessage(self, route[1], k)
  BY DEF SendToSourceRoute
<1> HIDE DEF k
<1> QED
  BY <1>1, <1>2, SendOwn, OwnFollows

LEMMA RouteToKeyOwn ==
    ASSUME NEW self, NEW m, Own(m), NEW lastHop \in Node, NEW shown
    PROVE  OwnEffect(m, self.node, RouteToKey(self, m, lastHop, shown))
<1> DEFINE next == NextHop(self, m, lastHop)
           e == RouteToKey(self, m, lastHop, shown)
           p == Packet("app", lastHop, self.node, Shown(m))
<1>1. \/ e = Nothing
      \/ config.forward /\ m.kind = "data" /\ e = Effect({p}, {}, {})
      \/ e = Effect({}, {}, {Recorded(m, lastHop)})
      \/ e = SendRouteMessage(self, next, m)
  BY DEF RouteToKey
<1>2. OwnEffect(m, self.node, SendRouteMessage(self, next, m)) /\ OwnEffect(m, self.node, Nothing)
  BY SendOwn, OwnNothing
<1>3. OwnEffect(m, self.node, Effect({}, {}, {Recorded(m, lastHop)}))
  <2>1. Own(Recorded(m, lastHop)) /\ Recorded(m, lastHop).id = m.id /\ Recorded(m, lastHop).kind = m.kind
    BY OwnRecorded
  <2> QED BY <2>1 DEF Follows, OwnEffect, Effect
<1>4. config.forward /\ m.kind = "data" => OwnEffect(m, self.node, Effect({p}, {}, {}))
  <2>1. Own(Shown(m)) /\ Shown(m).id = m.id /\ Shown(m).kind = m.kind
    BY OwnShown
  <2>2. p.msg = Shown(m) /\ (m.kind = "data" => OwnPacket(self.node, p))
    BY <2>1 DEF OwnPacket, Packet
  <2> HIDE DEF p
  <2> QED BY <2>1, <2>2 DEF Follows, OwnEffect, Effect
<1> HIDE DEF e, p, next
<1>5. OwnEffect(m, self.node, e)
  BY <1>1, <1>2, <1>3, <1>4
<1> QED
  BY <1>5 DEF e

\* The answer to a lookup.
Reply(self, m, arrived) ==
    [Message(m.id, "answer", self.node, IF config.routing = "full" /\ (arrived \/ config.acks) THEN m.src ELSE None)
        EXCEPT !.sibling = IsSiblingFor(self, m.key)]

LEMMA ReplyOwn ==
    ASSUME config \in Config, NEW self, self.node \in Node, NEW m, Own(m), m.kind = "lookup", NEW arrived
    PROVE  LET answer == Reply(self, m, arrived)
           IN  /\ Own(answer) /\ answer.id = m.id /\ answer.kind = "answer" /\ answer.src = self.node
               /\ answer.key = IF config.routing = "full" /\ (arrived \/ config.acks) THEN m.src ELSE None
               /\ answer.hopCount = 0 /\ answer.visitedHops = <<>> /\ answer.nextHops = <<>>
<1> DEFINE key == IF config.routing = "full" /\ (arrived \/ config.acks) THEN m.src ELSE None
           plain == Message(m.id, "answer", self.node, key)
           sib == IsSiblingFor(self, m.key)
           answer == [plain EXCEPT !.sibling = sib]
<1>1. /\ m.id \in Nat /\ m.src \in Node /\ m.id \in Requests /\ config.requests[m.id].kind = "lookup"
      /\ m.src = config.requests[m.id].src
  BY Fields DEF Own
<1>2. /\ key \in Node \cup {None} /\ (key # None => key = m.src /\ config.routing = "full")
      /\ config.routing = "full" /\ config.acks => key # None
  BY <1>1, RoutingAssumption
<1>3. sib \in BOOLEAN
  BY DEF IsSiblingFor
<1> HIDE DEF key, sib
<1>4. /\ plain \in MessageType /\ plain.id = m.id /\ plain.kind = "answer" /\ plain.src = self.node /\ plain.key = key
      /\ plain.hopCount = 0 /\ plain.visitedHops = <<>> /\ plain.nextHops = <<>>
  BY <1>1, <1>2, EmptySeq DEF Message, MessageType
<1> HIDE DEF plain
<1>5. /\ answer \in MessageType /\ answer.id = m.id /\ answer.kind = "answer" /\ answer.src = self.node /\ answer.key = key
      /\ answer.hopCount = 0 /\ answer.visitedHops = <<>> /\ answer.nextHops = <<>>
  BY <1>3, <1>4 DEF MessageType
<1> HIDE DEF answer
<1>6. Own(answer)
  BY <1>1, <1>2, <1>5 DEF Own
<1>7. Reply(self, m, arrived) = answer
  BY DEF Reply, answer, plain, key, sib
<1> QED
  BY <1>5, <1>6, <1>7 DEF key

LEMMA AnswerCases ==
    ASSUME NEW self, NEW m, NEW arrived
    PROVE  LET answer == Reply(self, m, arrived)
               known  == arrived \/ config.acks
           IN  Answer(self, m, arrived) =
                IF config.routing = "semi" /\ known THEN Effect({Packet("direct", self.node, m.src, answer)}, {}, {})
                ELSE IF arrived /\ m.visitedHops # <<>> THEN SendToSourceRoute(self, Reverse(m.visitedHops), answer)
                ELSE IF (IF config.routing = "full" /\ known THEN m.src ELSE None) # None
                     THEN RouteToKey(self, answer, self.node, FALSE)
                ELSE SendToSourceRoute(self, <<m.src>>, answer)
BY DEF Answer, Reply

LEMMA AnswerOwn ==
    ASSUME config \in Config, NEW self, self.node \in Node, NEW m, Own(m), m.kind = "lookup", NEW arrived
    PROVE  /\ OwnEffect(m, self.node, Answer(self, m, arrived))
           /\ OwnEffect(Reply(self, m, arrived), self.node, Answer(self, m, arrived))
<1> DEFINE answer == Reply(self, m, arrived)
           p == Packet("direct", self.node, m.src, answer)
<1>1. Own(answer) /\ answer.id = m.id /\ answer.kind = "answer"
  BY ReplyOwn
<1>2. \/ Answer(self, m, arrived) = Effect({p}, {}, {})
      \/ Answer(self, m, arrived) = SendToSourceRoute(self, Reverse(m.visitedHops), answer)
      \/ Answer(self, m, arrived) = RouteToKey(self, answer, self.node, FALSE)
      \/ Answer(self, m, arrived) = SendToSourceRoute(self, <<m.src>>, answer)
  BY AnswerCases
<1>3. Reverse(m.visitedHops) \in Seq(Node) /\ <<m.src>> \in Seq(Node)
  BY Reversed, Fields DEF Own
<1> HIDE DEF answer
<1>4. OwnPacket(self.node, p) /\ p.msg = answer
  BY <1>1 DEF OwnPacket, Packet
<1>5. OwnEffect(answer, self.node, Effect({p}, {}, {}))
  <2> HIDE DEF p
  <2> QED BY <1>1, <1>4 DEF Follows, OwnEffect, Effect
<1>6. OwnEffect(answer, self.node, SendToSourceRoute(self, Reverse(m.visitedHops), answer))
  BY <1>1, <1>3, SourceRouteOwn, OwnFollows
<1>7. OwnEffect(answer, self.node, SendToSourceRoute(self, <<m.src>>, answer))
  BY <1>1, <1>3, SourceRouteOwn, OwnFollows
<1>8. OwnEffect(answer, self.node, RouteToKey(self, answer, self.node, FALSE))
  BY <1>1, RouteToKeyOwn, OwnFollows
<1>9. OwnEffect(answer, self.node, Answer(self, m, arrived))
  BY <1>2, <1>5, <1>6, <1>7, <1>8
<1> QED
  BY <1>1, <1>9, OwnFollows DEF answer

LEMMA SendToKeyOwn ==
    ASSUME config \in Config, NEW self, self.node \in Node, NEW m, Own(m), NEW lastHop \in Node, NEW shown
    PROVE  OwnEffect(m, self.node, SendToKey(self, m, lastHop, shown))
<1>1. OwnEffect(m, self.node, RouteToKey(self, m, lastHop, shown))
  BY RouteToKeyOwn
<1>2. m.kind = "lookup" => OwnEffect(m, self.node, Answer(self, m, FALSE))
  BY AnswerOwn
<1>3. \/ SendToKey(self, m, lastHop, shown) = RouteToKey(self, m, lastHop, shown)
      \/ m.kind = "lookup" /\ SendToKey(self, m, lastHop, shown) = Answer(self, m, FALSE)
  BY DEF SendToKey
<1> QED
  BY <1>1, <1>2, <1>3

LEMMA HandleRouteOwn ==
    ASSUME config \in Config, NEW self, self.node \in Node, NEW m, Own(m), NEW lastHop \in Node
    PROVE  OwnEffect(m, self.node, HandleRoute(self, m, lastHop))
<1> DEFINE route == IF m.nextHops = <<>> THEN <<>> ELSE Tail(m.nextHops)
           r     == Recorded(m, lastHop)
           e     == HandleRoute(self, m, lastHop)
<1>1. Own(r) /\ r.id = m.id /\ r.kind = m.kind
  BY OwnRecorded
<1>2. route \in Seq(Node)
  BY Fields, HeadTailProperties, EmptySeq DEF Own
<1>3. \/ e = SendToSourceRoute(self, route, r)
      \/ e = Effect({}, {}, {r})
      \/ e = SendToKey(self, r, lastHop, FALSE)
  BY DEF HandleRoute
<1> HIDE DEF route, r, e
<1>4. OwnEffect(m, self.node, SendToSourceRoute(self, route, r))
  BY <1>1, <1>2, SourceRouteOwn, OwnFollows
<1>5. OwnEffect(m, self.node, SendToKey(self, r, lastHop, FALSE))
  BY <1>1, SendToKeyOwn, OwnFollows
<1>6. OwnEffect(m, self.node, Effect({}, {}, {r}))
  BY <1>1, OwnHere, OwnFollows
<1> QED
  BY <1>3, <1>4, <1>5, <1>6 DEF e

LEMMA HandledOwn ==
    ASSUME config \in Config, NEW self, self.node \in Node, NEW k, NEW e, OwnEffect(k, self.node, e),
           \A m \in e.here : e.here = {m}
    PROVE  OwnEffect(k, self.node, Handled(self, e))
<1>1. CASE ~ \E m \in e.here : m.kind = "lookup"
  BY <1>1 DEF Handled
<1>2. CASE \E m \in e.here : m.kind = "lookup"
  <2> DEFINE one == CHOOSE m \in e.here : TRUE
  <2>1. one \in e.here
    BY <1>2
  <2>2. Handled(self, e) = Answer(self, one, TRUE)
    BY <1>2 DEF Handled
  <2> HIDE DEF one
  <2>3. Follows(k, one) /\ Own(one) /\ one.id = k.id /\ one.kind = "lookup"
    BY <1>2, <2>1 DEF Follows, OwnEffect
  <2>4. OwnEffect(one, self.node, Answer(self, one, TRUE))
    <3>1. config \in Config /\ self.node \in Node /\ Own(one) /\ one.kind = "lookup"
      BY <2>3
    <3> QED BY ONLY <3>1, AnswerOwn
  <2> QED BY <2>2, <2>3, <2>4, OwnFollows DEF Follows
<1> QED
  BY <1>1, <1>2

LEMMA ResentOwn ==
    ASSUME config \in Config, NEW self, self.node \in Node, NEW m, Own(m)
    PROVE  OwnEffect(m, self.node, Resent(self, m))
<1> DEFINE k == [m EXCEPT !.nextHops = Tail(m.nextHops)]
<1>1. OwnEffect(m, self.node, Nothing) /\ OwnEffect(m, self.node, HandleRoute(self, m, self.node))
  BY OwnNothing, HandleRouteOwn
<1>2. m.nextHops \in Seq(Node)
  BY Fields DEF Own
<1>3. ASSUME m.nextHops # <<>>
      PROVE  OwnEffect(m, self.node, HandleRoute(self, k, self.node))
  <2>1. Tail(m.nextHops) \in Seq(Node)
    BY <1>2, <1>3, HeadTailProperties
  <2>2. Own(k) /\ k.id = m.id /\ k.kind = m.kind
    BY <2>1, OwnNextHops
  <2> HIDE DEF k
  <2> QED BY <2>2, HandleRouteOwn, OwnFollows
<1>4. m.nextHops = <<>> => ~(Len(m.nextHops) > 1)
  BY EmptySeq
<1> QED
  BY <1>1, <1>3, <1>4 DEF Resent

LEMMA SentOwn ==
    ASSUME config \in Config, NEW i \in Requests
    PROVE  OwnEffect([id |-> i, kind |-> config.requests[i].kind], config.requests[i].src, Sent(i))
<1> DEFINE q == config.requests[i]
           m == Message(i, q.kind, q.src, q.key)
           self == Self(q.src)
<1>1. /\ i \in Nat /\ q.src \in Node /\ q.key \in Node /\ q.kind \in {"lookup", "data"}
      /\ q.via \in Node \cup {None}
  BY RequestFields
<1>2. /\ m \in MessageType /\ m.id = i /\ m.kind = q.kind /\ m.src = q.src /\ m.key = q.key
  BY <1>1, EmptySeq DEF Message, MessageType
<1>3. self.node = q.src
  BY DEF Self
<1>4. Sent(i) = IF q.via = None THEN SendToKey(self, m, q.src, FALSE)
                ELSE SendToSourceRoute(self, <<q.via>>, m)
  BY DEF Sent
<1> HIDE DEF m, self
<1>5. Own(m)
  BY <1>1, <1>2 DEF Own
<1> HIDE DEF q
<1>6. OwnEffect(m, q.src, SendToKey(self, m, q.src, FALSE))
  BY <1>1, <1>2, <1>3, <1>5, SendToKeyOwn
<1>7. q.via # None => OwnEffect(m, q.src, SendToSourceRoute(self, <<q.via>>, m))
  <2>1. q.via # None => <<q.via>> \in Seq(Node)
    BY <1>1
  <2> QED BY <1>1, <1>2, <1>3, <1>5, <2>1, SourceRouteOwn
<1> DEFINE k == [id |-> i, kind |-> q.kind]
<1>8. k.id = m.id /\ k.kind = m.kind
  BY <1>2
<1> HIDE DEF k
<1>9. OwnEffect(k, q.src, Sent(i))
  BY <1>4, <1>6, <1>7, <1>8, OwnFollows
<1> QED
  BY <1>9 DEF q, k

(***************************************************************************)
(* Recorded routes that do not stay anywhere                               *)
(***************************************************************************)
Proceeds(v) == \A j \in DOMAIN v : j + 1 \in DOMAIN v => v[j] # v[j + 1]

LEMMA ProceedsOn ==
    ASSUME NEW v \in Seq(Node), NEW a \in Node, NEW b \in Node, a # b, Proceeds(Append(v, a))
    PROVE  Proceeds(Append(Append(v, a), b))
<1> DEFINE w == Append(v, a)
<1>1. w \in Seq(Node) /\ Len(v) \in Nat /\ Len(w) = Len(v) + 1 /\ DOMAIN w = 1 .. Len(v) + 1 /\ w[Len(v) + 1] = a
  BY Appended
<1> HIDE DEF w
<1>2. /\ DOMAIN Append(w, b) = 1 .. Len(w) + 1 /\ Append(w, b)[Len(w) + 1] = b
      /\ \A j \in 1 .. Len(w) : Append(w, b)[j] = w[j]
  BY <1>1, Appended
<1>3. SUFFICES ASSUME NEW j \in 1 .. Len(w) + 1, j + 1 \in 1 .. Len(w) + 1
               PROVE  Append(w, b)[j] # Append(w, b)[j + 1]
  BY <1>2 DEF Proceeds, w
<1>4. CASE j + 1 = Len(w) + 1
  <2>1. j = Len(w) /\ j \in 1 .. Len(w)
    BY <1>1, <1>3, <1>4
  <2> QED BY <1>1, <1>2, <1>4, <2>1
<1>5. CASE j + 1 # Len(w) + 1
  <2>1. j \in 1 .. Len(w) /\ j + 1 \in 1 .. Len(w) /\ j \in DOMAIN w /\ j + 1 \in DOMAIN w
    BY <1>1, <1>3, <1>5
  <2>2. w[j] # w[j + 1]
    BY <2>1 DEF Proceeds, w
  <2> QED BY <1>2, <2>1, <2>2
<1> QED
  BY <1>4, <1>5

LEMMA ProceedsOfOne ==
    ASSUME NEW a \in Node
    PROVE  Proceeds(Append(<<>>, a))
<1>1. <<>> \in Seq(Node) /\ Len(<<>>) = 0
  BY EmptySeq
<1>2. DOMAIN Append(<<>>, a) = 1 .. 1
  BY <1>1, Appended
<1>3. \A j \in 1 .. 1 : ~(j + 1 \in 1 .. 1)
  OBVIOUS
<1> QED
  BY <1>2, <1>3 DEF Proceeds

\* The way back over a recorded route.
LEMMA WayBack ==
    ASSUME NEW v \in Seq(Node), v # <<>>
    PROVE  /\ Reverse(v) \in Seq(Node) /\ Reverse(v) # <<>> /\ Len(Reverse(v)) \in Nat \ {0}
           /\ Reverse(v)[Len(Reverse(v))] = v[1]
           /\ \A n \in Node : Proceeds(Append(v, n)) => Reverse(v)[1] # n /\ Proceeds(Reverse(v))
<1> DEFINE w == Reverse(v)
           l == Len(v)
<1>1. w \in Seq(Node) /\ Len(w) = l /\ l \in Nat \ {0}
  BY Reversed, EmptySeq, LenProperties
<1>2. DOMAIN w = 1 .. l /\ \A j \in 1 .. l : w[j] = v[l - j + 1]
  <2>1. w = [j \in 1 .. l |-> v[(l - j) + 1]]
    BY DEF Reverse
  <2> HIDE DEF w
  <2> QED BY <2>1
<1>3. w # <<>> /\ w[l] = v[1]
  <2>1. l \in 1 .. l /\ l - l + 1 = 1
    BY <1>1
  <2>2. w[l] = v[l - l + 1]
    BY <1>2, <2>1
  <2> QED BY <1>1, <2>1, <2>2, EmptySeq
<1>4. ASSUME NEW n \in Node, Proceeds(Append(v, n))
      PROVE  w[1] # n /\ Proceeds(w)
  <2> DEFINE a == Append(v, n)
  <2>1. DOMAIN a = 1 .. l + 1 /\ a[l + 1] = n /\ \A j \in 1 .. l : a[j] = v[j]
    BY Appended
  <2>2. \A j \in DOMAIN a : j + 1 \in DOMAIN a => a[j] # a[j + 1]
    BY <1>4 DEF Proceeds
  <2> HIDE DEF a, w
  <2>3. w[1] # n
    <3>1. l \in DOMAIN a /\ l + 1 \in DOMAIN a /\ l \in 1 .. l /\ 1 \in 1 .. l /\ l - 1 + 1 = l
      BY <1>1, <2>1
    <3>2. a[l] # n /\ a[l] = v[l]
      BY <2>1, <2>2, <3>1
    <3>3. w[1] = v[l - 1 + 1]
      BY <1>2, <3>1
    <3> QED BY <3>1, <3>2, <3>3
  <2>4. ASSUME NEW j \in 1 .. l, j + 1 \in 1 .. l
        PROVE  w[j] # w[j + 1]
    <3> DEFINE k == l - j
    <3>1. k \in Nat /\ k \in 1 .. l /\ k + 1 \in 1 .. l /\ l - j + 1 = k + 1 /\ l - (j + 1) + 1 = k
      BY <1>1, <2>4
    <3> HIDE DEF k
    <3>2. w[j] = v[k + 1] /\ w[j + 1] = v[k]
      BY <1>2, <2>4, <3>1
    <3>3. k \in DOMAIN a /\ k + 1 \in DOMAIN a
      BY <1>1, <2>1, <3>1
    <3>4. a[k] # a[k + 1] /\ a[k] = v[k] /\ a[k + 1] = v[k + 1]
      BY <2>1, <2>2, <3>1, <3>3
    <3> QED BY <3>2, <3>4
  <2> QED BY <1>2, <2>3, <2>4 DEF Proceeds
<1> QED
  BY <1>1, <1>3, <1>4 DEF w

\* A route without its first hop.
LEMMA WayOn ==
    ASSUME NEW v \in Seq(Node), v # <<>>
    PROVE  /\ Tail(v) \in Seq(Node) /\ Len(v) \in Nat \ {0} /\ Len(Tail(v)) = Len(v) - 1
           /\ Tail(v) = <<>> <=> Len(v) = 1
           /\ Tail(v) # <<>> => /\ Tail(v)[Len(Tail(v))] = v[Len(v)]
                                /\ Proceeds(v) => Tail(v)[1] # v[1] /\ Proceeds(Tail(v))
<1> DEFINE w == Tail(v)
           l == Len(v)
<1>1. /\ w \in Seq(Node) /\ l \in Nat \ {0} /\ Len(w) = l - 1
      /\ \A j \in 1 .. l - 1 : w[j] = v[j + 1]
  BY HeadTailProperties, EmptySeq, LenProperties
<1>2. w = <<>> <=> l = 1
  <2>1. w = <<>> <=> Len(w) = 0
    BY <1>1, EmptySeq
  <2> QED BY <1>1, <2>1
<1>3. DOMAIN w = 1 .. l - 1 /\ DOMAIN v = 1 .. l
  BY <1>1, LenProperties
<1> HIDE DEF w, l
<1>4. ASSUME w # <<>>
      PROVE  /\ w[Len(w)] = v[l]
             /\ Proceeds(v) => w[1] # v[1] /\ Proceeds(w)
  <2>1. l - 1 \in 1 .. l - 1 /\ l - 1 + 1 = l /\ 1 \in 1 .. l - 1 /\ 1 \in DOMAIN v /\ 1 + 1 \in DOMAIN v
    BY <1>1, <1>2, <1>3, <1>4
  <2>2. w[Len(w)] = v[l]
    BY <1>1, <2>1
  <2>3. ASSUME Proceeds(v)
        PROVE  w[1] # v[1] /\ Proceeds(w)
    <3>1. \A j \in DOMAIN v : j + 1 \in DOMAIN v => v[j] # v[j + 1]
      BY <2>3 DEF Proceeds
    <3>2. w[1] = v[1 + 1] /\ v[1] # v[1 + 1]
      BY <1>1, <2>1, <3>1
    <3>3. ASSUME NEW j \in DOMAIN w, j + 1 \in DOMAIN w
          PROVE  w[j] # w[j + 1]
      <4>1. j \in 1 .. l - 1 /\ j + 1 \in 1 .. l - 1 /\ j + 1 \in DOMAIN v /\ j + 1 + 1 \in DOMAIN v
        BY <1>1, <1>3, <3>3
      <4> QED BY <1>1, <3>1, <4>1
    <3> QED BY <3>2, <3>3 DEF Proceeds
  <2> QED BY <2>2, <2>3
<1> QED
  BY <1>1, <1>2, <1>4 DEF w, l

(***************************************************************************)
(* Messages on their way to the key, and answers on their way back         *)
(***************************************************************************)
\* A call and the answer to it are routed to a key; an answer may follow a route.
Stream(m) == IF m.kind # "answer" THEN "ask" ELSE IF m.nextHops = <<>> THEN "answer" ELSE "route"

\* The caller gets an answer although the nodes `failed` are removed from tables: it is not one of
\* them, or none is and the answer goes over a route.
Due(i, failed) ==
    LET q == config.requests[i] IN
    /\ q.kind = "lookup"
    /\ \/ config.routing = "full" /\ q.src \notin failed
       \/ config.routing = "source" /\ failed = {} /\ q.src # q.key

Matters(failed, m) == m.kind = "answer" => Due(m.id, failed)

\* The recorded route of a lookup at the node n: it begins with the caller.
Traced(failed, n, m) == m.kind = "lookup" =>
    /\ m.visitedHops # <<>> => m.visitedHops[1] = m.src
    /\ m.visitedHops = <<>> /\ (m.nextHops # <<>> \/ config.routing = "source" \/ config.record) => n = m.src
    /\ config.routing = "source" /\ failed = {} => Proceeds(Append(m.visitedHops, n))

\* A message at a node that looks for the next hop.
AtNode(failed, n, m) ==
    /\ Own(m) /\ m.key \in Node /\ m.nextHops = <<>>
    /\ Closing(n, m) /\ Traced(failed, n, m)

\* A message between two nodes: to a key, or on the way back.
Onward(failed, from, to, m) ==
    /\ m.key \in Node /\ Len(m.nextHops) <= 1
    /\ Closing(from, m) /\ Traced(failed, from, m)
    /\ Distance(m.key)[to] < Distance(m.key)[from]
    /\ m.hopCount + Distance(m.key)[to] <= HopCountMax

Backward(failed, from, to, m) ==
    /\ m.nextHops[1] = to /\ m.nextHops[Len(m.nextHops)] = config.requests[m.id].src
    /\ config.routing = "source" => from # to /\ Proceeds(m.nextHops)

Going(failed, from, to, m) ==
    IF Stream(m) = "route" THEN Backward(failed, from, to, m) ELSE Onward(failed, from, to, m)

\* A message that the application was shown.
Rests(gone, from, n, m) ==
    /\ m.key \in Node /\ m.nextHops = <<>> /\ m.visitedHops = <<>>
    /\ Closing(n, m) /\ Distance(m.key)[from] >= Distance(m.key)[n]
    /\ m.hopCount < HopCountMax /\ Budget(gone, n, m)

\* A message at its destination: the node has the key, or has lost the node that has it.
Reached(failed, gone, n, m) ==
    /\ n = m.key \/ m.key \in gone
    /\ m.kind = "lookup" =>
        /\ m.visitedHops # <<>> => m.visitedHops[1] = m.src
        /\ config.routing = "source" => m.visitedHops # <<>>
        /\ config.routing = "source" /\ failed = {} /\ m.src # m.key => Proceeds(Append(m.visitedHops, n))

GoodEffect(failed, gone, n, e) ==
    /\ \A p \in e.send :
        /\ p.type = "route" /\ Matters(failed, p.msg) => Going(failed, n, p.to, p.msg)
        /\ p.type = "app" => Rests(gone, p.from, n, p.msg)
    /\ \A c \in e.wait : Matters(failed, c.msg) =>
        /\ Going(failed, n, c.dest, c.msg)
        /\ Stream(c.msg) # "route" => Resends(gone, n, c.dest, c.msg)
    /\ \A m \in e.here : m.kind # "answer" => Reached(failed, gone, n, m)

\* How far a message is from its end, with a node and with the next one.
Height(n, m) == IF Stream(m) = "route" THEN Len(m.nextHops) ELSE Distance(m.key)[n]
Below(dest, m) == IF Stream(m) = "route" THEN Len(m.nextHops) - 1 ELSE Distance(m.key)[dest]

\* The node n still has the message of the stream s, not further from its end than r, or it has
\* arrived.
Takes(s, r, n, e) ==
    \/ \E p \in e.send : p.type = "app" /\ Stream(p.msg) = s /\ Height(n, p.msg) <= r
    \/ \E c \in e.wait : Stream(c.msg) = s /\ Height(n, c.msg) <= r /\ Below(c.dest, c.msg) < r
    \/ \E m \in e.here : IF s = "ask" THEN m.kind # "answer"
                         ELSE m.kind = "answer" /\ n = config.requests[m.id].src

LEMMA IdleGood ==
    ASSUME NEW failed, NEW gone, NEW n, NEW m, m.kind = "answer", ~Due(m.id, failed), NEW e, OwnEffect(m, n, e)
    PROVE  GoodEffect(failed, gone, n, e)
<1>1. ASSUME NEW p \in e.send
      PROVE  ~Matters(failed, p.msg) /\ p.type # "app"
  <2>1. p.msg.id = m.id /\ p.msg.kind = "answer" /\ OwnPacket(n, p)
    BY DEF OwnEffect, Follows
  <2> QED BY <2>1 DEF Matters, OwnPacket
<1>2. ASSUME NEW c \in e.wait
      PROVE  ~Matters(failed, c.msg)
  <2>1. c.msg.id = m.id /\ c.msg.kind = "answer"
    BY DEF OwnEffect, Follows
  <2> QED BY <2>1 DEF Matters
<1>3. \A k \in e.here : k.kind = "answer"
  BY DEF OwnEffect, Follows
<1> QED
  BY <1>1, <1>2, <1>3 DEF GoodEffect

\* Distances are small numbers.
LEMMA Distances ==
    ASSUME config \in Config, NEW gone, Leads(gone), NEW key \in Node, NEW n \in Node
    PROVE  Distance(key)[n] \in Nat /\ Distance(key)[n] <= HopCountMax - 1
<1>1. Distance(key) \in [Node -> 0 .. HopCountMax - 1] /\ HopCountMax \in Nat \ {0}
  BY DistanceFacts, RoutingAssumption
<1> QED
  BY <1>1

\* sendRouteMessage() to a closer node.
LEMMA SendGood ==
    ASSUME config \in Config, NEW failed, NEW self, self.node \in Node,
           self.gone \in SUBSET (Node \ {self.node}), Leads(self.gone), self.gone \subseteq failed,
           NEW m, Own(m), m.key \in Node, Stream(m) # "route", Len(m.nextHops) <= 1,
           Closing(self.node, m), Traced(failed, self.node, m), NEW dest, Chooses(self, m, dest)
    PROVE  LET e == SendRouteMessage(self, dest, m) IN
            /\ GoodEffect(failed, self.gone, self.node, e)
            /\ config.acks => Takes(Stream(m), Distance(m.key)[self.node], self.node, e)
<1> DEFINE n == self.node
           h == HopsCounted(self, dest, m)
           sent == [m EXCEPT !.hopCount = h]
           p == Packet("route", n, dest, sent)
           c == [dest |-> dest, msg |-> sent]
           e == SendRouteMessage(self, dest, m)
<1>1. /\ dest \in Node /\ dest # n /\ Distance(m.key)[dest] < Distance(m.key)[n]
      /\ m.hopCount + 1 + Distance(m.key)[dest] <= HopCountMax
      /\ \/ dest = FirstHop(n, m.key) /\ m.hopCount + 1 + Distance(m.key)[n] <= HopCountMax + 1
         \/ m.hopCount = 0
         \/ FirstHop(n, m.key) \in self.gone /\ dest # FirstHop(n, m.key)
  BY DEF Chooses
<1>2. h = m.hopCount + 1 /\ h \in Nat
  BY <1>1, Fields DEF HopsCounted, Own
<1> HIDE DEF h
<1>3. /\ Own(sent) /\ sent.id = m.id /\ sent.hopCount = h /\ sent.kind = m.kind /\ sent.key = m.key /\ sent.src = m.src
      /\ sent.visitedHops = m.visitedHops /\ sent.nextHops = m.nextHops
  BY <1>2, OwnHops
<1>4. e = Effect({p}, IF config.acks THEN {c} ELSE {}, {})
  BY DEF SendRouteMessage, h
<1>5. c.dest = dest /\ c.msg = sent /\ p.to = dest /\ p.msg = sent /\ p.type = "route"
  BY DEF Packet
<1> HIDE DEF sent, p, c, e
<1>6. Stream(sent) = Stream(m)
  BY <1>3 DEF Stream
<1>7. Onward(failed, n, dest, sent)
  <2>1. Closing(n, sent) /\ Traced(failed, n, sent)
    BY <1>3 DEF Closing, Traced
  <2> QED BY <1>1, <1>2, <1>3, <2>1 DEF Onward
<1>8. Going(failed, n, dest, sent)
  BY <1>6, <1>7 DEF Going
<1>9. Resends(self.gone, n, dest, sent)
  BY <1>1, <1>2, <1>3 DEF Resends
<1>10. GoodEffect(failed, self.gone, n, e)
  BY <1>4, <1>5, <1>8, <1>9 DEF GoodEffect, Effect
<1>11. ASSUME config.acks
       PROVE  Takes(Stream(m), Distance(m.key)[n], n, e)
  <2>1. c \in e.wait
    BY <1>4, <1>11 DEF Effect
  <2>2. Height(n, sent) = Distance(m.key)[n] /\ Below(dest, sent) = Distance(m.key)[dest]
    BY <1>3, <1>6 DEF Height, Below
  <2>3. Distance(m.key)[n] \in Nat
    BY Distances
  <2>4. Height(n, sent) <= Distance(m.key)[n]
    BY <2>2, <2>3
  <2> QED BY <1>1, <1>5, <1>6, <2>1, <2>2, <2>4 DEF Takes
<1> QED
  BY <1>10, <1>11 DEF e, n

\* sendToKey() at the node that is responsible.
LEMMA ChoosesItself ==
    ASSUME config \in Config, NEW self, self.node \in Node,
           self.gone \in SUBSET (Node \ {self.node}), Leads(self.gone),
           NEW m, m.key \in Node, m.visitedHops = <<>>, NEW lastHop, IsSiblingFor(self, m.key)
    PROVE  NextHop(self, m, lastHop) = self.node
<1> DEFINE n == self.node
           s == Table(self, m.key)
           f == FindNode(self, m.key)
           useful == {i \in f : Useful(self, s[i], m, lastHop)}
<1>1. /\ HopFacts(self.gone, n, m.key)
  BY DistanceFacts
<1>2. ToSet(m.visitedHops) = {}
  BY DEF ToSet
<1>3. Useful(self, n, m, lastHop)
  BY <1>2 DEF Useful
<1>4. s[1] = FirstHop(n, m.key) /\ s[2] = SecondHop(n, m.key) /\ s = Tables[config.table][n][m.key]
  BY DEF Table, FirstHop, SecondHop
<1>5. /\ f \in SUBSET DOMAIN s /\ (\A i \in DOMAIN s : i \in f <=> s[i] \notin self.gone)
      /\ useful \in SUBSET DOMAIN s /\ useful \subseteq f
      /\ \A i \in f : s[i] = n => i \in useful
  BY <1>3 DEF FindNode
<1>6. First(self, m.key, f) = n
  BY DEF IsSiblingFor
<1>7. NextHop(self, m, lastHop) = First(self, m.key, useful)
  BY DEF NextHop
<1>8. /\ 1 \in f => First(self, m.key, f) = s[1]
      /\ 1 \notin f /\ 2 \in f => First(self, m.key, f) = s[2]
      /\ 1 \in useful => First(self, m.key, useful) = s[1]
      /\ 1 \notin useful /\ 2 \in useful => First(self, m.key, useful) = s[2]
  <2>1. m.key \in Node /\ f \in SUBSET DOMAIN Table(self, m.key) /\ useful \in SUBSET DOMAIN Table(self, m.key)
    BY <1>5
  <2> HIDE DEF f, useful
  <2> QED BY <2>1, FirstOf
<1> HIDE DEF s, f, useful, n
<1>9. CASE s[1] \notin self.gone
  <2>1. 1 \in f
    BY <1>1, <1>4, <1>5, <1>9 DEF HopFacts
  <2> QED BY <1>5, <1>6, <1>7, <1>8, <2>1 DEF n
<1>10. CASE s[1] \in self.gone
  <2>1. \A x, y \in self.gone : x = y
    BY DEF Leads
  <2>2. 1 \notin f /\ 2 \in f
    BY <1>1, <1>4, <1>5, <1>10, <2>1 DEF HopFacts
  <2> QED BY <1>5, <1>6, <1>7, <1>8, <2>2 DEF n
<1> QED
  BY <1>9, <1>10

\* What is known of a node that handles a message.
Handler(failed, self) ==
    /\ self.node \in Node /\ self.gone \in SUBSET (Node \ {self.node})
    /\ Leads(self.gone) /\ self.gone \subseteq failed

LEMMA RouteToKeyGood ==
    ASSUME config \in Config, NEW failed, NEW self, Handler(failed, self),
           NEW m, AtNode(failed, self.node, m), m.kind = "answer" => Due(m.id, failed),
           NEW lastHop \in Node, Distance(m.key)[lastHop] >= Distance(m.key)[self.node],
           Budget(self.gone, self.node, m), NEW shown,
           IsSiblingFor(self, m.key) =>
                m.visitedHops = <<>> /\ m.hopCount < HopCountMax /\ (m.kind = "lookup" => lastHop = self.node)
    PROVE  LET e == RouteToKey(self, m, lastHop, shown) IN
            /\ GoodEffect(failed, self.gone, self.node, e)
            /\ config.acks => Takes(Stream(m), Distance(m.key)[self.node], self.node, e)
            /\ NextHop(self, m, lastHop) # None
<1> DEFINE n == self.node
           next == NextHop(self, m, lastHop)
           e == RouteToKey(self, m, lastHop, shown)
           r == Recorded(m, lastHop)
           p == Packet("app", lastHop, n, Shown(m))
<1>1. /\ n \in Node /\ self.gone \in SUBSET (Node \ {n}) /\ Leads(self.gone) /\ self.gone \subseteq failed
      /\ Own(m) /\ m \in MessageType /\ m.key \in Node /\ m.nextHops = <<>> /\ Closing(n, m) /\ Traced(failed, n, m)
      /\ HopCountMax \in Nat /\ None \notin Node
  BY RoutingAssumption DEF Handler, AtNode, Own
<1>2. Stream(m) # "route" /\ Stream(m) = (IF m.kind # "answer" THEN "ask" ELSE "answer")
  BY <1>1 DEF Stream
<1>3. Distance(m.key)[n] \in Nat
  BY <1>1, Distances
<1>4. IF IsSiblingFor(self, m.key) THEN next = n ELSE Chooses(self, m, next)
  <2>1. CASE IsSiblingFor(self, m.key)
    BY <1>1, <2>1, ChoosesItself
  <2>2. CASE ~IsSiblingFor(self, m.key)
    BY <1>1, <2>2, GoesCloser
  <2> QED BY <2>1, <2>2
<1>5. next \in Node /\ next # None /\ m.hopCount < HopCountMax /\ (next = n <=> IsSiblingFor(self, m.key))
  BY <1>1, <1>4 DEF Chooses
<1>6. ~TooFar(m)
  <2>1. m.hopCount \in Nat
    BY <1>1, Fields
  <2> QED BY <1>1, <1>5, <2>1 DEF TooFar
<1>7. e = IF config.forward /\ m.kind = "data" /\ ~shown THEN Effect({p}, {}, {})
          ELSE IF next = n THEN Effect({}, {}, {r}) ELSE SendRouteMessage(self, next, m)
  BY <1>5, <1>6 DEF RouteToKey
<1> HIDE DEF next
<1>8. CASE config.forward /\ m.kind = "data" /\ ~shown
  <2>1. e = Effect({p}, {}, {})
    BY <1>7, <1>8
  <2> DEFINE k == Shown(m)
  <2>2. /\ k.id = m.id /\ k.hopCount = m.hopCount /\ k.kind = m.kind /\ k.key = m.key
        /\ k.src = m.src /\ k.nextHops = <<>> /\ k.visitedHops = <<>>
    BY <1>1, OwnShown
  <2>3. p.type = "app" /\ p.from = lastHop /\ p.msg = k
    BY DEF Packet
  <2> HIDE DEF k, p, e
  <2>4. ToSet(<<>>) = {}
    BY DEF ToSet
  <2>5. Closing(n, k)
    BY <1>1, <2>2, <2>4 DEF Closing
  <2>6. Budget(self.gone, n, k)
    BY <2>2 DEF Budget
  <2>7. Rests(self.gone, lastHop, n, k)
    BY <1>1, <1>5, <2>2, <2>5, <2>6 DEF Rests
  <2>8. GoodEffect(failed, self.gone, n, e)
    BY <2>1, <2>3, <2>7 DEF GoodEffect, Effect
  <2>9. Stream(k) = Stream(m) /\ Height(n, k) = Distance(m.key)[n]
    BY <1>2, <2>2 DEF Stream, Height
  <2>10. Takes(Stream(m), Distance(m.key)[n], n, e)
    <3>1. p \in e.send
      BY <2>1 DEF Effect
    <3>2. Height(n, p.msg) <= Distance(m.key)[n] /\ Stream(p.msg) = Stream(m)
      BY <1>3, <2>3, <2>9
    <3> QED BY <2>3, <3>1, <3>2 DEF Takes
  <2> QED BY <1>5, <2>8, <2>10 DEF e, n, next
<1>9. CASE ~(config.forward /\ m.kind = "data" /\ ~shown) /\ next = n
  <2>1. e = Effect({}, {}, {r})
    BY <1>7, <1>9
  <2>2. /\ r.id = m.id /\ r.kind = m.kind /\ r.key = m.key /\ r.src = m.src
        /\ IF config.routing = "source" \/ config.record
           THEN r.visitedHops = Append(m.visitedHops, lastHop) ELSE r.visitedHops = m.visitedHops
    BY <1>1, OwnRecorded
  <2> HIDE DEF r, e
  <2>3. m.visitedHops = <<>> /\ (m.kind = "lookup" => lastHop = n)
    BY <1>5, <1>9
  <2>4. n = m.key \/ m.key \in self.gone
    BY <1>1, <1>5, <1>9, SiblingFacts
  <2>5. Append(<<>>, lastHop) # <<>> /\ Append(<<>>, lastHop)[1] = lastHop
    <3>1. <<>> \in Seq(Node) /\ Len(<<>>) = 0 /\ Len(Append(<<>>, lastHop)) = Len(<<>>) + 1
          /\ Append(<<>>, lastHop)[Len(<<>>) + 1] = lastHop
      BY EmptySeq, Appended
    <3>2. Len(Append(<<>>, lastHop)) = 1
      BY <3>1
    <3> QED BY <3>1, <3>2
  <2>6. m.kind = "lookup" /\ (config.routing = "source" \/ config.record) => n = m.src
    BY <1>1, <2>3 DEF Traced
  <2>7. m.kind = "lookup" =>
        /\ r.visitedHops # <<>> => r.visitedHops[1] = r.src
        /\ config.routing = "source" => r.visitedHops # <<>>
    BY <2>2, <2>3, <2>5, <2>6
  <2>8. m.kind = "lookup" /\ failed = {} /\ r.src # r.key => Proceeds(Append(r.visitedHops, n))
    <3>1. ASSUME m.kind = "lookup", failed = {}, r.src # r.key
          PROVE  r.visitedHops = <<>>
      <4>1. n = m.key
        BY <1>1, <2>4, <3>1
      <4> QED BY <2>2, <2>3, <2>6, <3>1, <4>1
    <3> QED BY <1>1, <3>1, ProceedsOfOne
  <2>9. m.kind # "answer" => Reached(failed, self.gone, n, r)
    BY <2>2, <2>4, <2>7, <2>8 DEF Reached
  <2>10. GoodEffect(failed, self.gone, n, e)
    BY <2>1, <2>2, <2>9 DEF GoodEffect, Effect
  <2>11. m.kind = "answer" => n = config.requests[r.id].src
    <3>1. ASSUME m.kind = "answer" PROVE n = config.requests[m.id].src
      <4>1. m.key = config.requests[m.id].src /\ config.routing = "full"
        BY <1>1, <3>1 DEF Own
      <4>2. m.key \notin failed
        BY <3>1, <4>1 DEF Due
      <4> QED BY <1>1, <2>4, <4>1, <4>2
    <3> QED BY <2>2, <3>1
  <2>12. Takes(Stream(m), Distance(m.key)[n], n, e)
    <3>1. r \in e.here
      BY <2>1 DEF Effect
    <3> QED BY <1>2, <2>2, <2>11, <3>1 DEF Takes
  <2> QED BY <1>5, <2>10, <2>12 DEF e, n, next
<1>10. CASE ~(config.forward /\ m.kind = "data" /\ ~shown) /\ next # n
  <2>1. e = SendRouteMessage(self, next, m)
    BY <1>7, <1>10
  <2>2. Chooses(self, m, next)
    BY <1>4, <1>5, <1>10
  <2>3. Len(m.nextHops) <= 1
    BY <1>1, EmptySeq
  <2> HIDE DEF e
  <2>4. LET f == SendRouteMessage(self, next, m) IN
        /\ GoodEffect(failed, self.gone, self.node, f)
        /\ config.acks => Takes(Stream(m), Distance(m.key)[self.node], self.node, f)
    BY <1>1, <1>2, <2>2, <2>3, SendGood
  <2> QED BY <1>5, <2>1, <2>4 DEF e, n, next
<1> QED
  BY <1>8, <1>9, <1>10

LEMMA SendToKeyGood ==
    ASSUME config \in Config, NEW failed, NEW self, Handler(failed, self),
           NEW m, AtNode(failed, self.node, m), m.kind = "answer" => Due(m.id, failed),
           NEW lastHop \in Node, Distance(m.key)[lastHop] >= Distance(m.key)[self.node],
           Budget(self.gone, self.node, m), NEW shown,
           IsSiblingFor(self, m.key) =>
                m.visitedHops = <<>> /\ m.hopCount < HopCountMax /\ (m.kind = "lookup" => lastHop = self.node)
    PROVE  LET e == SendToKey(self, m, lastHop, shown) IN
            /\ GoodEffect(failed, self.gone, self.node, e)
            /\ config.acks => Takes(Stream(m), Distance(m.key)[self.node], self.node, e)
<1> DEFINE e == RouteToKey(self, m, lastHop, shown)
<1>1. /\ GoodEffect(failed, self.gone, self.node, e)
      /\ config.acks => Takes(Stream(m), Distance(m.key)[self.node], self.node, e)
      /\ NextHop(self, m, lastHop) # None
  BY RouteToKeyGood
<1>2. SendToKey(self, m, lastHop, shown) = e
  BY <1>1 DEF SendToKey
<1> QED
  BY <1>1, <1>2

\* sendToKey() with a source route, for an answer.
LEMMA SourceRouteGood ==
    ASSUME config \in Config, NEW failed, NEW self, Handler(failed, self),
           NEW m, Own(m), m.kind = "answer", NEW route \in Seq(Node), route # <<>>,
           route[Len(route)] = config.requests[m.id].src,
           config.routing = "source" => self.node # route[1] /\ Proceeds(route)
    PROVE  LET e == SendToSourceRoute(self, route, m) IN
            /\ GoodEffect(failed, self.gone, self.node, e)
            /\ config.acks => Takes("route", Len(route), self.node, e)
<1> DEFINE n == self.node
           k == [m EXCEPT !.nextHops = route]
           dest == route[1]
           h == HopsCounted(self, dest, k)
           sent == [k EXCEPT !.hopCount = h]
           p == Packet("route", n, dest, sent)
           c == [dest |-> dest, msg |-> sent]
           e == SendToSourceRoute(self, route, m)
<1>1. Own(k) /\ k.id = m.id /\ k.kind = m.kind /\ k.nextHops = route
  BY OwnNextHops
<1> HIDE DEF k
<1>2. h \in Nat
  BY <1>1, Fields DEF HopsCounted, Own
<1> HIDE DEF h
<1>3. sent.id = m.id /\ sent.kind = m.kind /\ sent.nextHops = route
  BY <1>1, <1>2, OwnHops
<1>4. e = Effect({p}, IF config.acks THEN {c} ELSE {}, {})
  BY DEF SendToSourceRoute, SendRouteMessage, h, k
<1>5. c.dest = dest /\ c.msg = sent /\ p.to = dest /\ p.msg = sent /\ p.type = "route"
  BY DEF Packet
<1>6. Len(route) \in Nat \ {0} /\ dest = route[1]
  BY EmptySeq, LenProperties
<1> HIDE DEF sent, p, c, e, dest
<1>7. Stream(sent) = "route"
  BY <1>3 DEF Stream
<1>8. Going(failed, n, dest, sent)
  BY <1>3, <1>6, <1>7 DEF Going, Backward
<1>9. GoodEffect(failed, self.gone, n, e)
  BY <1>4, <1>5, <1>7, <1>8 DEF GoodEffect, Effect
<1>10. ASSUME config.acks
       PROVE  Takes("route", Len(route), n, e)
  <2>1. c \in e.wait
    BY <1>4, <1>10 DEF Effect
  <2>2. Height(n, sent) = Len(route) /\ Below(dest, sent) = Len(route) - 1
    BY <1>3, <1>7 DEF Height, Below
  <2>3. Height(n, sent) <= Len(route) /\ Below(dest, sent) < Len(route)
    BY <1>6, <2>2
  <2> QED BY <1>5, <1>7, <2>1, <2>3 DEF Takes
<1> QED
  BY <1>9, <1>10 DEF e, n

\* The answer to a lookup that has arrived.
LEMMA AnswerGood ==
    ASSUME config \in Config, NEW failed, NEW self, Handler(failed, self),
           NEW m, Own(m), m.kind = "lookup", Reached(failed, self.gone, self.node, m)
    PROVE  LET e == Answer(self, m, TRUE) IN
            /\ GoodEffect(failed, self.gone, self.node, e)
            /\ config.acks /\ Due(m.id, failed) => \E s \in {"answer", "route"} : \E r \in Nat : Takes(s, r, self.node, e)
<1> DEFINE n == self.node
           answer == Reply(self, m, TRUE)
           e == Answer(self, m, TRUE)
           v == m.visitedHops
<1>1. /\ n \in Node /\ Leads(self.gone) /\ m \in MessageType /\ v \in Seq(Node) /\ m.src \in Node
      /\ HopCountMax \in Nat \ {0} /\ None \notin Node
      /\ m.src = config.requests[m.id].src /\ m.key = config.requests[m.id].key
  BY Fields, RoutingAssumption DEF Handler, Own
<1>2. /\ Own(answer) /\ answer.id = m.id /\ answer.kind = "answer" /\ answer.src = n
      /\ answer.key = IF config.routing = "full" THEN m.src ELSE None
      /\ answer.hopCount = 0 /\ answer.visitedHops = <<>> /\ answer.nextHops = <<>>
  <2>1. PICK arrived : arrived = TRUE
    OBVIOUS
  <2> DEFINE a == Reply(self, m, arrived)
  <2>2. /\ Own(a) /\ a.id = m.id /\ a.kind = "answer" /\ a.src = self.node
        /\ a.key = IF config.routing = "full" /\ (arrived \/ config.acks) THEN m.src ELSE None
        /\ a.hopCount = 0 /\ a.visitedHops = <<>> /\ a.nextHops = <<>>
    <3>1. config \in Config /\ self.node \in Node /\ Own(m) /\ m.kind = "lookup"
      BY <1>1
    <3> QED BY ONLY <3>1, ReplyOwn
  <2>3. answer = a
    BY <2>1
  <2> HIDE DEF a, answer
  <2> QED BY <2>1, <2>2, <2>3
<1>3. OwnEffect(answer, n, e)
  BY <1>1, AnswerOwn
<1>4. e = IF config.routing = "semi" THEN Effect({Packet("direct", n, m.src, answer)}, {}, {})
          ELSE IF v # <<>> THEN SendToSourceRoute(self, Reverse(v), answer)
          ELSE IF config.routing = "full" THEN RouteToKey(self, answer, n, FALSE)
          ELSE SendToSourceRoute(self, <<m.src>>, answer)
  BY <1>1, AnswerCases
<1> HIDE DEF answer, e
<1>5. CASE ~Due(m.id, failed)
  <2>1. GoodEffect(failed, self.gone, n, e)
    BY <1>2, <1>3, <1>5, IdleGood
  <2> QED BY <1>5, <2>1 DEF e, n
<1>6. CASE Due(m.id, failed)
  <2>1. config.routing \in {"full", "source"} /\ (config.routing = "source" => failed = {} /\ m.src # m.key)
    BY <1>1, <1>6 DEF Due
  <2>2. /\ v # <<>> => v[1] = m.src
        /\ config.routing = "source" => v # <<>> /\ Proceeds(Append(v, n))
    BY <2>1 DEF Reached
  <2>3. CASE v # <<>>
    <3> DEFINE back == Reverse(v)
    <3>1. /\ back \in Seq(Node) /\ back # <<>> /\ Len(back) \in Nat \ {0} /\ back[Len(back)] = m.src
          /\ config.routing = "source" => n # back[1] /\ Proceeds(back)
      BY <1>1, <2>2, <2>3, WayBack
    <3> HIDE DEF back
    <3>2. LET f == SendToSourceRoute(self, back, answer) IN
            /\ GoodEffect(failed, self.gone, self.node, f)
            /\ config.acks => Takes("route", Len(back), self.node, f)
      BY <1>1, <1>2, <3>1, SourceRouteGood
    <3>3. e = SendToSourceRoute(self, back, answer)
      BY <1>4, <2>1, <2>3 DEF back
    <3> QED BY <3>1, <3>2, <3>3 DEF e
  <2>4. CASE v = <<>>
    <3>1. config.routing = "full" /\ answer.key = m.src
      BY <1>2, <2>1, <2>2, <2>4
    <3>2. e = RouteToKey(self, answer, n, FALSE)
      BY <1>4, <2>4, <3>1
    <3>3. Distance(m.src)[n] \in Nat
      BY <1>1, Distances
    <3>4. ToSet(<<>>) = {}
      BY DEF ToSet
    <3>5. AtNode(failed, n, answer)
      <4>1. Closing(n, answer)
        BY <1>2, <3>1, <3>3, <3>4 DEF Closing
      <4>2. Traced(failed, n, answer)
        BY <1>2 DEF Traced
      <4> QED BY <1>1, <1>2, <3>1, <4>1, <4>2 DEF AtNode
    <3>6. Budget(self.gone, n, answer)
      BY <1>2 DEF Budget
    <3>7. answer.hopCount < HopCountMax /\ Distance(answer.key)[n] >= Distance(answer.key)[n]
      BY <1>1, <1>2, <3>1, <3>3
    <3>8. Stream(answer) = "answer"
      BY <1>2 DEF Stream
    <3>9. Due(answer.id, failed)
      BY <1>2, <1>6
    <3>10. PICK shown : shown = FALSE
      OBVIOUS
    <3>11. LET f == RouteToKey(self, answer, n, shown) IN
            /\ GoodEffect(failed, self.gone, self.node, f)
            /\ config.acks => Takes(Stream(answer), Distance(answer.key)[self.node], self.node, f)
            /\ NextHop(self, answer, n) # None
      <4>1. /\ config \in Config /\ Handler(failed, self) /\ AtNode(failed, self.node, answer)
            /\ (answer.kind = "answer" => Due(answer.id, failed)) /\ n \in Node
            /\ Distance(answer.key)[n] >= Distance(answer.key)[self.node]
            /\ Budget(self.gone, self.node, answer)
            /\ (IsSiblingFor(self, answer.key) =>
                answer.visitedHops = <<>> /\ answer.hopCount < HopCountMax /\ (answer.kind = "lookup" => n = self.node))
        BY <1>1, <1>2, <3>5, <3>6, <3>7, <3>9
      <4> QED BY ONLY <4>1, RouteToKeyGood
    <3> QED BY <3>1, <3>2, <3>3, <3>8, <3>10, <3>11 DEF e
  <2> QED BY <2>3, <2>4
<1> QED
  BY <1>5, <1>6

LEMMA HandledGood ==
    ASSUME config \in Config, NEW failed, NEW self, Handler(failed, self),
           NEW k, NEW e, OwnEffect(k, self.node, e), GoodEffect(failed, self.gone, self.node, e),
           \A m \in e.here : e.here = {m}
    PROVE  LET h == Handled(self, e) IN
            /\ GoodEffect(failed, self.gone, self.node, h)
            /\ config.acks /\ Due(k.id, failed) /\ (\E m \in e.here : m.kind = "lookup") =>
                \E s \in {"answer", "route"} : \E r \in Nat : Takes(s, r, self.node, h)
            /\ (\A m \in e.here : m.kind # "lookup") => h = e
<1>1. CASE \A m \in e.here : m.kind # "lookup"
  BY <1>1 DEF Handled
<1>2. CASE \E m \in e.here : m.kind = "lookup"
  <2> DEFINE one == CHOOSE m \in e.here : TRUE
  <2>1. one \in e.here
    BY <1>2
  <2>2. Handled(self, e) = Answer(self, one, TRUE)
    BY <1>2 DEF Handled
  <2> HIDE DEF one
  <2>3. Own(one) /\ one.id = k.id /\ one.kind = "lookup"
    BY <1>2, <2>1 DEF OwnEffect, Follows
  <2>4. Reached(failed, self.gone, self.node, one)
    BY <2>1, <2>3 DEF GoodEffect
  <2>5. LET f == Answer(self, one, TRUE) IN
            /\ GoodEffect(failed, self.gone, self.node, f)
            /\ config.acks /\ Due(one.id, failed) => \E s \in {"answer", "route"} : \E r \in Nat : Takes(s, r, self.node, f)
    <3>1. /\ config \in Config /\ Handler(failed, self) /\ Own(one) /\ one.kind = "lookup"
          /\ Reached(failed, self.gone, self.node, one)
      BY <2>3, <2>4
    <3> QED BY ONLY <3>1, AnswerGood
  <2> QED BY <1>2, <2>2, <2>3, <2>5
<1> QED
  BY <1>1, <1>2

\* handleBaseOverlayMessage(), for a message to a key.
LEMMA KeyedGood ==
    ASSUME config \in Config, NEW failed, NEW self, Handler(failed, self),
           NEW m, Own(m), m.key \in Node, Stream(m) # "route", Len(m.nextHops) <= 1,
           m.kind = "answer" => Due(m.id, failed),
           NEW lastHop \in Node, Distance(m.key)[lastHop] >= Distance(m.key)[self.node],
           Closing(self.node, m), Traced(failed, lastHop, m), failed = {} => lastHop # self.node,
           Budget(self.gone, self.node, m)
    PROVE  LET e == HandleRoute(self, m, lastHop) IN
            /\ GoodEffect(failed, self.gone, self.node, e)
            /\ config.acks => Takes(Stream(m), Distance(m.key)[self.node], self.node, e)
<1> DEFINE n == self.node
           r == Recorded(m, lastHop)
           v == m.visitedHops
           e == HandleRoute(self, m, lastHop)
           records == m.nextHops # <<>> \/ config.routing = "source" \/ config.record
<1>1. /\ n \in Node /\ self.gone \in SUBSET (Node \ {n}) /\ Leads(self.gone) /\ self.gone \subseteq failed
      /\ m \in MessageType /\ v \in Seq(Node) /\ m.nextHops \in Seq(Node) /\ m.key # None
  BY Fields, RoutingAssumption DEF Handler, Own
<1>2. /\ Own(r) /\ r.id = m.id /\ r.hopCount = m.hopCount /\ r.kind = m.kind /\ r.key = m.key /\ r.src = m.src
      /\ r.nextHops = <<>>
      /\ IF records THEN r.visitedHops = Append(v, lastHop) ELSE r.visitedHops = v
  BY OwnRecorded
<1>3. e = IF IsSiblingFor(self, m.key) THEN Effect({}, {}, {r}) ELSE SendToKey(self, r, lastHop, FALSE)
  <2>1. m.nextHops # <<>> => Tail(m.nextHops) = <<>>
    <3>1. ASSUME m.nextHops # <<>> PROVE Tail(m.nextHops) = <<>>
      <4>1. Len(m.nextHops) \in Nat \ {0} /\ (Tail(m.nextHops) = <<>> <=> Len(m.nextHops) = 1)
        BY <1>1, <3>1, WayOn
      <4> QED BY <4>1
    <3> QED BY <3>1
  <2> QED BY <1>1, <2>1 DEF HandleRoute, AtDestination
<1>4. Stream(r) = Stream(m) /\ Stream(m) = (IF m.kind # "answer" THEN "ask" ELSE "answer")
  BY <1>2 DEF Stream
<1> HIDE DEF r, e
<1>5. /\ Append(v, lastHop) # <<>> /\ ToSet(Append(v, lastHop)) = ToSet(v) \cup {lastHop}
      /\ IF v = <<>> THEN Append(v, lastHop)[1] = lastHop ELSE Append(v, lastHop)[1] = v[1]
      /\ Append(v, lastHop) \in Seq(Node)
  <2>1. /\ Append(v, lastHop) \in Seq(Node) /\ Len(v) \in Nat /\ Len(Append(v, lastHop)) = Len(v) + 1
        /\ \A i \in 1 .. Len(v) : Append(v, lastHop)[i] = v[i]
        /\ Append(v, lastHop)[Len(v) + 1] = lastHop
        /\ ToSet(Append(v, lastHop)) = ToSet(v) \cup {lastHop}
    BY <1>1, Appended
  <2>2. Append(v, lastHop) # <<>> /\ (v = <<>> <=> Len(v) = 0)
    BY <1>1, <2>1, EmptySeq
  <2>3. v # <<>> => 1 \in 1 .. Len(v)
    BY <2>1, <2>2
  <2> QED BY <2>1, <2>2, <2>3
<1>6. Closing(n, r)
  <2>1. \A x \in ToSet(v) \cup {m.src} : Distance(m.key)[x] >= Distance(m.key)[n]
    BY DEF Closing
  <2>2. \A x \in ToSet(r.visitedHops) : x \in ToSet(v) \/ x = lastHop
    BY <1>2, <1>5
  <2> QED BY <1>2, <2>1, <2>2 DEF Closing
<1>7. m.kind = "lookup" =>
        /\ r.visitedHops # <<>> => r.visitedHops[1] = r.src
        /\ config.routing = "source" => r.visitedHops # <<>>
        /\ config.routing = "source" /\ failed = {} => Proceeds(Append(r.visitedHops, n))
  <2>1. SUFFICES ASSUME m.kind = "lookup"
                 PROVE  /\ r.visitedHops # <<>> => r.visitedHops[1] = r.src
                        /\ config.routing = "source" => r.visitedHops # <<>>
                        /\ config.routing = "source" /\ failed = {} => Proceeds(Append(r.visitedHops, n))
    OBVIOUS
  <2>2. /\ v # <<>> => v[1] = m.src
        /\ v = <<>> /\ records => lastHop = m.src
        /\ config.routing = "source" /\ failed = {} => Proceeds(Append(v, lastHop))
    BY <2>1 DEF Traced
  <2>3. config.routing = "source" /\ failed = {} => Proceeds(Append(Append(v, lastHop), n))
    BY <1>1, <2>2, ProceedsOn
  <2> QED BY <1>2, <1>5, <2>2, <2>3
<1>8. m.kind = "lookup" => (r.visitedHops = <<>> => ~records)
  BY <1>2, <1>5
<1>9. Traced(failed, n, r)
  BY <1>2, <1>7, <1>8 DEF Traced
<1>10. CASE IsSiblingFor(self, m.key)
  <2>1. n = m.key \/ m.key \in self.gone
    BY <1>1, <1>10, SiblingFacts
  <2>2. m.kind # "answer" => Reached(failed, self.gone, n, r)
    BY <1>2, <1>7, <2>1 DEF Reached
  <2>3. e = Effect({}, {}, {r})
    BY <1>3, <1>10
  <2>4. GoodEffect(failed, self.gone, n, e)
    BY <1>2, <2>2, <2>3 DEF GoodEffect, Effect
  <2>5. ASSUME m.kind = "answer" PROVE n = config.requests[r.id].src
    <3>1. m.key = config.requests[m.id].src /\ config.routing = "full"
      BY <1>1, <2>5 DEF Own
    <3>2. m.key \notin failed
      BY <2>5, <3>1 DEF Due
    <3> QED BY <1>1, <1>2, <2>1, <3>1, <3>2
  <2>6. Takes(Stream(m), Distance(m.key)[n], n, e)
    <3>1. r \in e.here
      BY <2>3 DEF Effect
    <3> QED BY <1>2, <1>4, <2>5, <3>1 DEF Takes
  <2> QED BY <2>4, <2>6 DEF e, n
<1>11. CASE ~IsSiblingFor(self, m.key)
  <2>1. PICK shown : shown = FALSE
    OBVIOUS
  <2>2. e = SendToKey(self, r, lastHop, shown)
    BY <1>3, <1>11, <2>1
  <2>3. /\ config \in Config /\ Handler(failed, self) /\ AtNode(failed, self.node, r)
        /\ (r.kind = "answer" => Due(r.id, failed)) /\ lastHop \in Node
        /\ Distance(r.key)[lastHop] >= Distance(r.key)[self.node]
        /\ Budget(self.gone, self.node, r)
        /\ (IsSiblingFor(self, r.key) =>
                r.visitedHops = <<>> /\ r.hopCount < HopCountMax /\ (r.kind = "lookup" => lastHop = self.node))
    BY <1>2, <1>6, <1>9, <1>11 DEF AtNode, Budget
  <2>4. LET f == SendToKey(self, r, lastHop, shown) IN
            /\ GoodEffect(failed, self.gone, self.node, f)
            /\ config.acks => Takes(Stream(r), Distance(r.key)[self.node], self.node, f)
    BY ONLY <2>3, SendToKeyGood
  <2> QED BY <1>2, <1>4, <2>2, <2>4 DEF e, n
<1> QED
  BY <1>10, <1>11

\* ... and for an answer on its way back.
LEMMA RoutedGood ==
    ASSUME config \in Config, NEW failed, NEW self, Handler(failed, self),
           NEW m, Own(m), Stream(m) = "route", Due(m.id, failed),
           NEW lastHop \in Node,
           m.nextHops[Len(m.nextHops)] = config.requests[m.id].src,
           Len(m.nextHops) = 1 => self.node = config.requests[m.id].src,
           config.routing = "source" => m.nextHops[1] = self.node /\ Proceeds(m.nextHops)
    PROVE  LET e == HandleRoute(self, m, lastHop) IN
            /\ GoodEffect(failed, self.gone, self.node, e)
            /\ config.acks => Takes("route", Len(m.nextHops) - 1, self.node, e)
<1> DEFINE n == self.node
           r == Recorded(m, lastHop)
           w == Tail(m.nextHops)
           e == HandleRoute(self, m, lastHop)
<1>1. /\ n \in Node /\ self.gone \in SUBSET (Node \ {n}) /\ Leads(self.gone) /\ self.gone \subseteq failed
      /\ m \in MessageType /\ m.nextHops \in Seq(Node) /\ m.nextHops # <<>> /\ m.kind = "answer"
  BY Fields DEF Handler, Own, Stream
<1>2. Own(r) /\ r.id = m.id /\ r.kind = m.kind
  BY OwnRecorded
<1>3. /\ w \in Seq(Node) /\ Len(m.nextHops) \in Nat \ {0} /\ Len(w) = Len(m.nextHops) - 1
      /\ w = <<>> <=> Len(m.nextHops) = 1
      /\ w # <<>> => /\ w[Len(w)] = m.nextHops[Len(m.nextHops)]
                     /\ Proceeds(m.nextHops) => w[1] # m.nextHops[1] /\ Proceeds(w)
  BY <1>1, WayOn
<1>4. e = IF w # <<>> THEN SendToSourceRoute(self, w, r)
          ELSE IF AtDestination(self, m) THEN Effect({}, {}, {r})
          ELSE SendToKey(self, r, lastHop, FALSE)
  BY <1>1 DEF HandleRoute
<1> HIDE DEF r, w, e
<1>5. CASE w # <<>>
  <2>1. LET f == SendToSourceRoute(self, w, r) IN
            /\ GoodEffect(failed, self.gone, self.node, f)
            /\ config.acks => Takes("route", Len(w), self.node, f)
    <3>1. /\ config \in Config /\ Handler(failed, self) /\ Own(r) /\ r.kind = "answer" /\ w \in Seq(Node) /\ w # <<>>
          /\ w[Len(w)] = config.requests[r.id].src
          /\ (config.routing = "source" => self.node # w[1] /\ Proceeds(w))
      BY <1>1, <1>2, <1>3, <1>5
    <3> QED BY ONLY <3>1, SourceRouteGood
  <2> QED BY <1>3, <1>4, <1>5, <2>1 DEF e, n
<1>6. CASE w = <<>>
  <2>1. n = config.requests[m.id].src
    BY <1>3, <1>6
  <2>2. AtDestination(self, m)
    <3>1. m.key # None => m.key = n
      BY <1>1, <2>1 DEF Own
    <3>2. m.key # None => IsSiblingFor(self, m.key)
      BY <1>1, <3>1, SiblingFacts
    <3> QED BY <3>2 DEF AtDestination
  <2>3. e = Effect({}, {}, {r})
    BY <1>4, <1>6, <2>2
  <2>4. GoodEffect(failed, self.gone, n, e)
    BY <1>1, <1>2, <2>3 DEF GoodEffect, Effect
  <2>5. Takes("route", Len(m.nextHops) - 1, n, e)
    <3>1. r \in e.here
      BY <2>3 DEF Effect
    <3> QED BY <1>1, <1>2, <2>1, <3>1 DEF Takes
  <2> QED BY <2>4, <2>5 DEF e, n
<1> QED
  BY <1>5, <1>6

\* A message that arrives at a node.
LEMMA HandleRouteGood ==
    ASSUME config \in Config, NEW failed, NEW self, Handler(failed, self),
           NEW m, Own(m), NEW lastHop \in Node, Matters(failed, m) => Going(failed, lastHop, self.node, m)
    PROVE  LET e == HandleRoute(self, m, lastHop) IN
            /\ GoodEffect(failed, self.gone, self.node, e)
            /\ config.acks /\ Matters(failed, m) => Takes(Stream(m), Below(self.node, m), self.node, e)
<1> DEFINE n == self.node
           e == HandleRoute(self, m, lastHop)
<1>1. n \in Node /\ Leads(self.gone) /\ m \in MessageType /\ m.src \in Node
  BY Fields DEF Handler, Own
<1>2. CASE ~Matters(failed, m)
  <2>1. OwnEffect(m, n, e)
    BY <1>1, HandleRouteOwn
  <2>2. GoodEffect(failed, self.gone, n, e)
    BY <1>2, <2>1, IdleGood DEF Matters
  <2> QED BY <1>2, <2>2
<1>3. CASE Matters(failed, m) /\ Stream(m) = "route"
  <2>1. m.kind = "answer" /\ m.nextHops # <<>>
    BY <1>3 DEF Stream
  <2>2. Due(m.id, failed) /\ Backward(failed, lastHop, n, m)
    BY <1>3, <2>1 DEF Matters, Going
  <2>3. /\ m.nextHops[1] = n /\ m.nextHops[Len(m.nextHops)] = config.requests[m.id].src
        /\ config.routing = "source" => Proceeds(m.nextHops)
    BY <2>2 DEF Backward
  <2>4. Len(m.nextHops) = 1 => n = config.requests[m.id].src
    BY <2>3
  <2>5. LET f == HandleRoute(self, m, lastHop) IN
            /\ GoodEffect(failed, self.gone, self.node, f)
            /\ config.acks => Takes("route", Len(m.nextHops) - 1, self.node, f)
    <3>1. /\ config \in Config /\ Handler(failed, self) /\ Own(m) /\ Stream(m) = "route" /\ Due(m.id, failed)
          /\ lastHop \in Node /\ m.nextHops[Len(m.nextHops)] = config.requests[m.id].src
          /\ (Len(m.nextHops) = 1 => self.node = config.requests[m.id].src)
          /\ (config.routing = "source" => m.nextHops[1] = self.node /\ Proceeds(m.nextHops))
      BY <1>3, <2>2, <2>3, <2>4
    <3> QED BY ONLY <3>1, RoutedGood
  <2>6. Below(n, m) = Len(m.nextHops) - 1
    BY <1>3 DEF Below
  <2> QED BY <1>3, <2>5, <2>6
<1>4. CASE Matters(failed, m) /\ Stream(m) # "route"
  <2>1. /\ m.key \in Node /\ Len(m.nextHops) <= 1
        /\ Closing(lastHop, m) /\ Traced(failed, lastHop, m)
        /\ Distance(m.key)[n] < Distance(m.key)[lastHop]
        /\ m.hopCount + Distance(m.key)[n] <= HopCountMax
    BY <1>4 DEF Going, Onward
  <2>2. Distance(m.key)[n] \in Nat /\ Distance(m.key)[lastHop] \in Nat
    BY <1>1, <2>1, Distances
  <2>3. Distance(m.key)[lastHop] >= Distance(m.key)[n] /\ lastHop # n
    BY <2>1, <2>2
  <2>4. Closing(n, m)
    <3>1. \A x \in ToSet(m.visitedHops) \cup {m.src} : x \in Node
      <4>1. m.visitedHops \in Seq(Node)
        BY <1>1, Fields
      <4>2. \A i \in DOMAIN m.visitedHops : m.visitedHops[i] \in Node
        BY <4>1, LenProperties, ElementOfSeq
      <4> QED BY <1>1, <4>2 DEF ToSet
    <3>2. \A x \in ToSet(m.visitedHops) \cup {m.src} : Distance(m.key)[x] \in Nat
      BY <1>1, <2>1, <3>1, Distances
    <3> QED BY <2>1, <2>2, <3>2 DEF Closing
  <2>5. Budget(self.gone, n, m)
    BY <2>1 DEF Budget
  <2>6. LET f == HandleRoute(self, m, lastHop) IN
            /\ GoodEffect(failed, self.gone, self.node, f)
            /\ config.acks => Takes(Stream(m), Distance(m.key)[self.node], self.node, f)
    <3>1. /\ config \in Config /\ Handler(failed, self)
          /\ Own(m) /\ m.key \in Node /\ Stream(m) # "route" /\ Len(m.nextHops) <= 1
          /\ (m.kind = "answer" => Due(m.id, failed))
          /\ lastHop \in Node /\ Distance(m.key)[lastHop] >= Distance(m.key)[self.node]
          /\ Closing(self.node, m) /\ Traced(failed, lastHop, m) /\ (failed = {} => lastHop # self.node)
          /\ Budget(self.gone, self.node, m)
      BY <1>4, <2>1, <2>3, <2>4, <2>5 DEF Matters
    <3> QED BY ONLY <3>1, KeyedGood
  <2>7. Below(n, m) = Distance(m.key)[n]
    BY <1>4 DEF Below
  <2> QED BY <1>4, <2>6, <2>7
<1> QED
  BY <1>2, <1>3, <1>4

\* A node whose tables lead to the key has somebody left.
LEMMA SomebodyLeft ==
    ASSUME config \in Config, NEW self, self.node \in Node,
           self.gone \in SUBSET (Node \ {self.node}), Leads(self.gone)
    PROVE  Remains(self)
<1> DEFINE n == self.node
           t == config.table
<1>1. CASE t \in Close /\ \A x, y \in self.gone : x = y
  <2>1. PICK d \in Node : self.gone \subseteq {n, d}
    <3>1. CASE self.gone = {}
      BY <3>1
    <3>2. CASE self.gone # {}
      BY <1>1, <3>2
    <3> QED BY <3>1, <3>2
  <2>2. PICK key \in Node : \E i \in DOMAIN Tables[t][n][key] : Tables[t][n][key][i] \notin {n, d}
    BY <1>1, <2>1 DEF Close
  <2>3. PICK i \in DOMAIN Tables[t][n][key] : Tables[t][n][key][i] \notin {n, d}
    BY <2>2
  <2>4. i \in FindNode(self, key) /\ Table(self, key)[i] # n
    BY <2>1, <2>3 DEF FindNode, Table
  <2> QED BY <2>2, <2>4 DEF Remains
<1>2. CASE t \in Chain /\ self.gone = {}
  <2>1. PICK key \in Node : key # n
    BY <1>2 DEF Chain
  <2>2. HopFacts(self.gone, n, key)
    BY DistanceFacts
  <2>3. 1 \in DOMAIN Tables[t][n][key] /\ Tables[t][n][key][1] # n
    BY <2>1, <2>2 DEF HopFacts, FirstHop
  <2>4. 1 \in FindNode(self, key) /\ Table(self, key)[1] # n
    BY <1>2, <2>3 DEF FindNode, Table
  <2> QED BY <2>4 DEF Remains
<1> QED
  BY <1>1, <1>2 DEF Leads

LEMMA TakesMore ==
    ASSUME NEW n, NEW k, NEW e, OwnEffect(k, n, e), NEW r \in Nat, Takes("route", r - 1, n, e)
    PROVE  Takes("route", r, n, e)
<1>1. ASSUME NEW m, Own(m), Stream(m) = "route", Height(n, m) <= r - 1
      PROVE  Height(n, m) <= r
  <2>1. Height(n, m) = Len(m.nextHops) /\ Len(m.nextHops) \in Nat
    BY <1>1, Fields DEF Own, Height
  <2> QED BY <1>1, <2>1
<1>2. ASSUME NEW dest, NEW m, Own(m), Stream(m) = "route", Below(dest, m) < r - 1
      PROVE  Below(dest, m) < r
  <2>1. Below(dest, m) = Len(m.nextHops) - 1 /\ Len(m.nextHops) \in Nat
    BY <1>2, Fields DEF Own, Below
  <2> QED BY <1>2, <2>1
<1>3. /\ \A p \in e.send : Own(p.msg)
      /\ \A c \in e.wait : Own(c.msg)
  BY DEF OwnEffect, Follows
<1> QED
  BY <1>1, <1>2, <1>3 DEF Takes

\* internalHandleRpcTimeout(), when the node dest is removed, or is this one.
LEMMA ResentGood ==
    ASSUME config \in Config, config.acks, NEW failed, NEW self, Handler(failed, self),
           NEW m, Own(m), NEW dest \in Node, dest = self.node \/ dest \in self.gone,
           Matters(failed, m) => /\ Going(failed, self.node, dest, m)
                                 /\ Stream(m) # "route" => Resends(self.gone, self.node, dest, m)
    PROVE  LET e == Resent(self, m) IN
            /\ GoodEffect(failed, self.gone, self.node, e)
            /\ Matters(failed, m) => Takes(Stream(m), Height(self.node, m), self.node, e)
<1> DEFINE n == self.node
           e == Resent(self, m)
<1>1. /\ n \in Node /\ Leads(self.gone) /\ m \in MessageType /\ m.src \in Node /\ m.nextHops \in Seq(Node)
      /\ self.gone \subseteq failed /\ None \notin Node
      /\ self.gone \in SUBSET (Node \ {n})
  BY Fields, RoutingAssumption DEF Handler, Own
<1>2. CASE ~Matters(failed, m)
  <2>1. OwnEffect(m, n, e)
    BY <1>1, ResentOwn
  <2>2. GoodEffect(failed, self.gone, n, e)
    BY <1>2, <2>1, IdleGood DEF Matters
  <2> QED BY <1>2, <2>2
<1>3. ASSUME m.key # None PROVE e = HandleRoute(self, m, n)
  BY <1>1, <1>3, SomebodyLeft DEF Resent
<1>4. CASE Matters(failed, m) /\ Stream(m) = "route"
  <2>1. m.kind = "answer" /\ m.nextHops # <<>>
    BY <1>4 DEF Stream
  <2>2. Due(m.id, failed) /\ Backward(failed, n, dest, m)
    BY <1>4, <2>1 DEF Matters, Going
  <2>3. /\ m.nextHops[1] = dest /\ m.nextHops[Len(m.nextHops)] = config.requests[m.id].src
        /\ config.routing = "source" => n # dest
    BY <2>2 DEF Backward
  <2>4. config.routing = "full" /\ config.requests[m.id].src \notin failed
    BY <1>1, <2>2, <2>3 DEF Due
  <2>5. Len(m.nextHops) = 1 => n = config.requests[m.id].src
    BY <1>1, <2>3, <2>4
  <2>6. m.key # None
    BY <2>1, <2>4 DEF Own
  <2>7. LET f == HandleRoute(self, m, n) IN
            /\ GoodEffect(failed, self.gone, self.node, f)
            /\ config.acks => Takes("route", Len(m.nextHops) - 1, self.node, f)
    <3>1. /\ config \in Config /\ Handler(failed, self) /\ Own(m) /\ Stream(m) = "route" /\ Due(m.id, failed)
          /\ n \in Node /\ m.nextHops[Len(m.nextHops)] = config.requests[m.id].src
          /\ (Len(m.nextHops) = 1 => self.node = config.requests[m.id].src)
          /\ (config.routing = "source" => m.nextHops[1] = self.node /\ Proceeds(m.nextHops))
      BY <1>1, <1>4, <2>2, <2>3, <2>4, <2>5
    <3> QED BY ONLY <3>1, RoutedGood
  <2>8. OwnEffect(m, n, e) /\ Len(m.nextHops) \in Nat
    BY <1>1, ResentOwn, Fields
  <2>9. e = HandleRoute(self, m, n)
    BY <1>3, <2>6
  <2> HIDE DEF e
  <2>10. GoodEffect(failed, self.gone, n, e) /\ Takes("route", Len(m.nextHops) - 1, n, e)
    BY <2>7, <2>9
  <2>11. Takes("route", Len(m.nextHops), n, e)
    BY <2>8, <2>10, TakesMore
  <2>12. Height(n, m) = Len(m.nextHops)
    BY <1>4 DEF Height
  <2> QED BY <1>4, <2>10, <2>11, <2>12 DEF e
<1>5. CASE Matters(failed, m) /\ Stream(m) # "route"
  <2>1. /\ m.key \in Node /\ Len(m.nextHops) <= 1
        /\ Closing(n, m) /\ Traced(failed, n, m)
        /\ Distance(m.key)[dest] < Distance(m.key)[n]
        /\ Resends(self.gone, n, dest, m)
    BY <1>5 DEF Going, Onward
  <2>2. Distance(m.key)[n] \in Nat /\ Distance(m.key)[dest] \in Nat
    BY <1>1, <2>1, Distances
  <2>3. Distance(m.key)[n] >= Distance(m.key)[n] /\ dest # n
    BY <2>1, <2>2
  <2>4. dest \in self.gone /\ failed # {}
    BY <1>1, <2>3
  <2>5. \A x, y \in self.gone : x = y
    BY <1>1 DEF Leads
  <2>6. Budget(self.gone, n, m)
    BY <2>1, <2>4, <2>5 DEF Budget, Resends
  <2>7. LET f == HandleRoute(self, m, n) IN
            /\ GoodEffect(failed, self.gone, self.node, f)
            /\ config.acks => Takes(Stream(m), Distance(m.key)[self.node], self.node, f)
    <3>1. /\ config \in Config /\ Handler(failed, self)
          /\ Own(m) /\ m.key \in Node /\ Stream(m) # "route" /\ Len(m.nextHops) <= 1
          /\ (m.kind = "answer" => Due(m.id, failed))
          /\ n \in Node /\ Distance(m.key)[n] >= Distance(m.key)[self.node]
          /\ Closing(self.node, m) /\ Traced(failed, n, m) /\ (failed = {} => n # self.node)
          /\ Budget(self.gone, self.node, m)
      BY <1>1, <1>5, <2>1, <2>3, <2>4, <2>6 DEF Matters
    <3> QED BY ONLY <3>1, KeyedGood
  <2>8. Height(n, m) = Distance(m.key)[n]
    BY <1>5 DEF Height
  <2>9. m.key # None
    BY <1>1, <2>1
  <2> QED BY <1>3, <1>5, <2>7, <2>8, <2>9
<1> QED
  BY <1>2, <1>4, <1>5

LEMMA SentGood ==
    ASSUME config \in Config, LeadToKey, NEW failed, NEW i \in Requests,
           removed \in [Node -> SUBSET Node], \A n \in Node : n \notin removed[n],
           removed[config.requests[i].src] \subseteq failed
    PROVE  LET q == config.requests[i]
               e == Sent(i) IN
            /\ GoodEffect(failed, removed[q.src], q.src, e)
            /\ config.acks => Takes("ask", Distance(q.key)[q.src], q.src, e)
<1> DEFINE q == config.requests[i]
           n == q.src
           m == Message(i, q.kind, n, q.key)
           self == Self(n)
           e == Sent(i)
<1>1. /\ i \in Nat /\ n \in Node /\ q.key \in Node /\ q.kind \in {"lookup", "data"}
      /\ q.via \in Node \cup {None} /\ q.via # n /\ None \notin Node
  BY RequestFields, RoutingAssumption
<1>2. /\ m \in MessageType /\ m.id = i /\ m.kind = q.kind /\ m.src = n /\ m.key = q.key
      /\ m.visitedHops = <<>> /\ m.nextHops = <<>> /\ m.hopCount = 0
  BY <1>1, EmptySeq DEF Message, MessageType
<1>3. e = IF q.via = None THEN SendToKey(self, m, n, FALSE) ELSE SendToSourceRoute(self, <<q.via>>, m)
  BY DEF Sent
<1>4. self.node = n /\ self.gone = removed[n]
  BY DEF Self
<1> HIDE DEF m, self, e
<1>5. Own(m)
  BY <1>1, <1>2 DEF Own
<1>6. Leads(removed[n])
  BY <1>1 DEF LeadToKey, Leads
<1>7. Handler(failed, self)
  BY <1>1, <1>4, <1>6 DEF Handler
<1>8. Distance(q.key)[n] \in Nat /\ HopCountMax \in Nat \ {0}
  BY <1>1, <1>6, Distances, RoutingAssumption
<1>9. ASSUME NEW k, k.visitedHops = <<>>, k.src = n, k.key = q.key
      PROVE  Closing(n, k) /\ Traced(failed, n, k)
  <2>1. ToSet(<<>>) = {}
    BY DEF ToSet
  <2>2. Closing(n, k)
    BY <1>8, <1>9, <2>1 DEF Closing
  <2> QED BY <1>1, <1>9, <2>2, ProceedsOfOne DEF Traced
<1>10. CASE q.via = None
  <2>1. PICK shown : shown = FALSE
    OBVIOUS
  <2>2. e = SendToKey(self, m, n, shown)
    BY <1>3, <1>10, <2>1
  <2>3. LET f == SendToKey(self, m, n, shown) IN
            /\ GoodEffect(failed, self.gone, self.node, f)
            /\ config.acks => Takes(Stream(m), Distance(m.key)[self.node], self.node, f)
    <3>1. Closing(n, m) /\ Traced(failed, n, m)
      BY <1>2, <1>9
    <3>2. Budget(self.gone, n, m)
      BY <1>2 DEF Budget
    <3>3. /\ config \in Config /\ Handler(failed, self) /\ AtNode(failed, self.node, m)
          /\ (m.kind = "answer" => Due(m.id, failed))
          /\ n \in Node /\ Distance(m.key)[n] >= Distance(m.key)[self.node]
          /\ Budget(self.gone, self.node, m)
          /\ (IsSiblingFor(self, m.key) =>
                m.visitedHops = <<>> /\ m.hopCount < HopCountMax /\ (m.kind = "lookup" => n = self.node))
      BY <1>1, <1>2, <1>4, <1>5, <1>7, <1>8, <3>1, <3>2 DEF AtNode
    <3> QED BY ONLY <3>3, SendToKeyGood
  <2>4. Stream(m) = "ask"
    BY <1>1, <1>2 DEF Stream
  <2> QED BY <1>2, <1>4, <2>2, <2>3, <2>4 DEF e, n
<1>11. CASE q.via # None
  <2> DEFINE route == <<q.via>>
             k == [m EXCEPT !.nextHops = route]
  <2>1. route \in Seq(Node) /\ Len(route) = 1 /\ route[1] = q.via /\ q.via \in Node
    BY <1>1, <1>11
  <2> HIDE DEF route
  <2>2. /\ Own(k) /\ k.id = i /\ k.hopCount = 0 /\ k.kind = q.kind /\ k.key = q.key /\ k.src = n
        /\ k.visitedHops = <<>> /\ k.nextHops = route
    BY <1>2, <1>5, <2>1, OwnNextHops
  <2>3. e = SendRouteMessage(self, q.via, k)
    BY <1>3, <1>11, <2>1 DEF SendToSourceRoute, route
  <2> HIDE DEF k
  <2>4. n # q.key /\ Distance(q.key)[q.via] < Distance(q.key)[n]
    <3>1. q \in ToSet(config.requests)
      BY DEF ToSet, Requests
    <3>2. CASE config.table \in Close /\ GivenFirstHops(2)
      <4>1. PICK j \in 1 .. 2 : q.via = Tables[config.table][n][q.key][j]
        BY <1>11, <3>1, <3>2 DEF GivenFirstHops
      <4>2. n # q.key
        BY <1>11, <3>1, <3>2 DEF GivenFirstHops
      <4>3. j = 1 \/ j = 2
        BY <4>1
      <4>4. Leads({n})
        BY <3>2 DEF Leads
      <4>5. HopFacts({n}, n, q.key) /\ Distance(q.key) \in [Node -> 0 .. HopCountMax - 1]
        BY <1>1, <4>4, DistanceFacts
      <4>6. q.via = FirstHop(n, q.key) \/ q.via = SecondHop(n, q.key)
        BY <4>1, <4>3 DEF FirstHop, SecondHop
      <4>7. Distance(q.key)[q.via] \in Nat /\ Distance(q.key)[n] \in Nat
        BY <1>1, <2>1, <1>6, Distances
      <4> QED BY <1>1, <4>2, <4>5, <4>6, <4>7 DEF HopFacts
    <3>3. CASE config.table \in Chain /\ removed[n] = {} /\ GivenFirstHops(1)
      <4>1. PICK j \in 1 .. 1 : q.via = Tables[config.table][n][q.key][j]
        BY <1>11, <3>1, <3>3 DEF GivenFirstHops
      <4>2. n # q.key
        BY <1>11, <3>1, <3>3 DEF GivenFirstHops
      <4>3. j = 1
        BY <4>1
      <4>4. HopFacts(removed[n], n, q.key)
        BY <1>1, <1>6, DistanceFacts
      <4> QED BY <4>1, <4>2, <4>3, <4>4 DEF HopFacts, FirstHop
    <3> QED BY <1>1, <3>2, <3>3 DEF LeadToKey
  <2>5. Distance(q.key)[q.via] \in Nat /\ Distance(q.key)[q.via] <= HopCountMax - 1
    BY <1>1, <2>1, <1>6, Distances
  <2>6. Chooses(self, k, q.via)
    BY <1>1, <1>4, <1>8, <2>1, <2>2, <2>4, <2>5 DEF Chooses
  <2>7. Stream(k) = "ask"
    BY <1>1, <2>2 DEF Stream
  <2>8. LET f == SendRouteMessage(self, q.via, k) IN
            /\ GoodEffect(failed, self.gone, self.node, f)
            /\ config.acks => Takes(Stream(k), Distance(k.key)[self.node], self.node, f)
    <3>1. Closing(n, k) /\ Traced(failed, n, k)
      BY <1>9, <2>2
    <3>2. Len(k.nextHops) = 1
      BY <2>1, <2>2
    <3>3. /\ self.node \in Node /\ self.gone \in SUBSET (Node \ {self.node}) /\ Leads(self.gone)
          /\ self.gone \subseteq failed
      BY <1>7 DEF Handler
    <3>4. /\ Own(k) /\ k.key \in Node /\ Stream(k) # "route" /\ Len(k.nextHops) <= 1
          /\ Closing(self.node, k) /\ Traced(failed, self.node, k)
      BY <1>1, <1>4, <2>2, <2>7, <3>1, <3>2
    <3>5. config \in Config /\ Chooses(self, k, q.via)
      BY <2>6
    <3> QED BY ONLY <3>3, <3>4, <3>5, SendGood
  <2> QED BY <1>4, <2>2, <2>3, <2>7, <2>8 DEF e, n
<1> QED
  BY <1>10, <1>11

(***************************************************************************)
(* From one state to the next                                              *)
(***************************************************************************)
\* The nodes that somebody has removed.
Failed == UNION {removed[n] : n \in Node}

\* What a step leaves alone in the configuration.
Same == /\ config'.table = config.table /\ config'.routing = config.routing /\ config'.requests = config.requests
        /\ config'.record = config.record /\ config'.acks = config.acks

LEMMA SameDistance == ASSUME Same PROVE \A key : Distance(key)' = Distance(key)
BY DEF Same, Distance, Close, SpareWays, Ways

LEMMA SameDue == ASSUME Same PROVE \A i, failed : Due(i, failed)' <=> Due(i, failed)
BY DEF Same, Due

LEMMA SameMatters == ASSUME Same PROVE \A failed, m : Matters(failed, m)' <=> Matters(failed, m)
BY SameDue DEF Matters

LEMMA SameGoing ==
    ASSUME Same
    PROVE  \A failed, from, to, m : Going(failed, from, to, m)' <=> Going(failed, from, to, m)
BY SameDistance DEF Same, Going, Backward, Onward, Closing, Traced, Stream

LEMMA SameRests ==
    ASSUME Same
    PROVE  \A gone, from, n, m : Rests(gone, from, n, m)' <=> Rests(gone, from, n, m)
BY SameDistance DEF Same, Rests, Closing, Budget, FirstHop

LEMMA SameResends ==
    ASSUME Same
    PROVE  \A gone, n, dest, m : Resends(gone, n, dest, m)' <=> Resends(gone, n, dest, m)
BY SameDistance DEF Same, Resends, FirstHop

LEMMA SameHeight ==
    ASSUME Same
    PROVE  /\ \A n, m : Height(n, m)' = Height(n, m)
           /\ \A n, m : Below(n, m)' = Below(n, m)
           /\ \A m : Stream(m)' = Stream(m)
BY SameDistance DEF Height, Below, Stream

LEMMA SameOwn == ASSUME Same PROVE (\A m : Own(m)' <=> Own(m)) /\ Requests' = Requests
BY DEF Same, Own, Requests

\* What has been removed stays removed.
LEMMA MattersLess ==
    ASSUME NEW failed, NEW more, failed \subseteq more, NEW m, Matters(more, m)
    PROVE  Matters(failed, m)
BY DEF Matters, Due

LEMMA GoingMore ==
    ASSUME NEW failed, NEW more, failed \subseteq more, NEW from, NEW to, NEW m, Going(failed, from, to, m)
    PROVE  Going(more, from, to, m)
<1>1. more = {} => failed = {}
  OBVIOUS
<1> QED
  BY <1>1 DEF Going, Backward, Onward, Traced

LEMMA RestsMore ==
    ASSUME NEW gone, NEW more, gone \subseteq more, NEW from, NEW n, NEW m, Rests(gone, from, n, m)
    PROVE  Rests(more, from, n, m)
BY DEF Rests, Budget

LEMMA ResendsMore ==
    ASSUME NEW gone, NEW more, gone \subseteq more, NEW n, NEW dest, NEW m, Resends(gone, n, dest, m)
    PROVE  Resends(more, n, dest, m)
BY DEF Resends

\* Nothing that has been removed comes back.
Fewer == Same /\ \A n \in Node : removed[n] \subseteq removed'[n]

LEMMA FewerFacts ==
    ASSUME Fewer
    PROVE  Failed \subseteq Failed' /\ (LeadToKey' => LeadToKey)
<1>1. Failed \subseteq Failed'
  BY DEF Fewer, Failed
<1>2. LeadToKey' => LeadToKey
  <2>1. ASSUME LeadToKey' PROVE LeadToKey
    <3>1. GivenFirstHops(2)' => GivenFirstHops(2)
      BY DEF Fewer, Same, GivenFirstHops
    <3>2. GivenFirstHops(1)' => GivenFirstHops(1)
      BY DEF Fewer, Same, GivenFirstHops
    <3>3. (\A n \in Node : \A x, y \in removed'[n] : x = y) => \A n \in Node : \A x, y \in removed[n] : x = y
      BY DEF Fewer
    <3>4. (\A n \in Node : removed'[n] = {}) => \A n \in Node : removed[n] = {}
      BY DEF Fewer
    <3>5. Close' = Close /\ Chain' = Chain /\ config'.table = config.table
      BY DEF Fewer, Same, Close, Chain, SpareWays, Ways
    <3> QED BY <2>1, <3>1, <3>2, <3>3, <3>4, <3>5 DEF LeadToKey
  <2> QED BY <2>1
<1> QED
  BY <1>1, <1>2

(***************************************************************************)
(* Messages belong to requests that were sent, and get closer to their end *)
(***************************************************************************)
Issued(m) == Own(m) /\ lookup[m.id].state # "new"

PacketOwn(p) ==
    /\ p = Packet(p.type, p.from, p.to, p.msg) /\ p.type \in {"route", "ack", "direct", "app"}
    /\ Issued(p.msg)
    /\ p.type = "direct" => p.msg.kind = "answer"
    /\ p.type = "app" => p.msg.kind = "data" /\ p.to \in Node

CallOwn(c) == config.acks /\ c = [dest |-> c.dest, msg |-> c.msg] /\ Issued(c.msg)

OwnInv ==
    /\ \A p \in packets : PacketOwn(p)
    /\ \A n \in Node : \A c \in pending[n] : CallOwn(c)
    /\ \A i \in Requests : lookup[i].state = "waiting" => config.requests[i].kind = "lookup"

PacketGood(failed, p) ==
    /\ p.type = "route" /\ Matters(failed, p.msg) => Going(failed, p.from, p.to, p.msg)
    /\ p.type = "app" => Rests(removed[p.to], p.from, p.to, p.msg)
CallGood(failed, n, c) == Matters(failed, c.msg) =>
    /\ Going(failed, n, c.dest, c.msg)
    /\ Stream(c.msg) # "route" => Resends(removed[n], n, c.dest, c.msg)

GoodInv == LeadToKey =>
    /\ \A p \in packets : PacketGood(Failed, p)
    /\ \A n \in Node : \A c \in pending[n] : CallGood(Failed, n, c)

\* A step of the node n that handles a message or request k, has the effect e, and the effect h
\* when a lookup that has arrived is answered at once.
Does(n, k, e, h) ==
    /\ n \in Node /\ OwnEffect(k, n, e) /\ OwnEffect(k, n, h)
    /\ (\A m \in e.here : m.kind # "lookup") => h = e

DoesGood(failed, n, k, e, h) ==
    /\ GoodEffect(failed, removed'[n], n, e)
    /\ GoodEffect(failed, removed'[n], n, h)
    /\ config.acks /\ Due(k.id, failed) /\ (\E m \in e.here : m.kind = "lookup") =>
        \E s \in {"answer", "route"} : \E r \in Nat : Takes(s, r, n, h)

LEMMA DoesHandle ==
    ASSUME config \in Config, NEW self, self.node \in Node, NEW k, NEW e, EffectOK(self.node, e),
           OwnEffect(k, self.node, e)
    PROVE  Does(self.node, k, e, Handled(self, e))
<1>1. \A m \in e.here : e.here = {m}
  BY DEF EffectOK
<1>2. OwnEffect(k, self.node, Handled(self, e))
  BY <1>1, HandledOwn
<1> QED
  BY <1>2 DEF Does, Handled

LEMMA DoesHandleGood ==
    ASSUME config \in Config, NEW failed, NEW self, Handler(failed, self), self.gone = removed'[self.node],
           NEW k, NEW e, EffectOK(self.node, e), OwnEffect(k, self.node, e),
           GoodEffect(failed, self.gone, self.node, e)
    PROVE  DoesGood(failed, self.node, k, e, Handled(self, e))
<1>1. \A m \in e.here : e.here = {m}
  BY DEF EffectOK
<1>2. LET h == Handled(self, e) IN
            /\ GoodEffect(failed, self.gone, self.node, h)
            /\ config.acks /\ Due(k.id, failed) /\ (\E m \in e.here : m.kind = "lookup") =>
                \E s \in {"answer", "route"} : \E r \in Nat : Takes(s, r, self.node, h)
            /\ (\A m \in e.here : m.kind # "lookup") => h = e
  <2>1. /\ config \in Config /\ Handler(failed, self) /\ OwnEffect(k, self.node, e)
        /\ GoodEffect(failed, self.gone, self.node, e) /\ \A m \in e.here : e.here = {m}
    BY <1>1
  <2> QED BY ONLY <2>1, HandledGood, Z3
<1> QED
  BY <1>2 DEF DoesGood

\* States of lookups go on.
LookupsGoOn ==
    \A i \in Requests :
        /\ lookup[i].state # "new" => lookup'[i].state # "new"
        /\ lookup'[i].state = "waiting" => config.requests[i].kind = "lookup"

LEMMA StepOwn ==
    ASSUME OwnInv, Same, NEW n, NEW k, NEW h, OwnEffect(k, n, h), NEW ack,
           \A p \in packets' : p \in packets \/ p \in h.send \/ p \in ack,
           \A p \in ack : p = Packet("ack", p.from, p.to, p.msg) /\ Issued(p.msg),
           \A x \in Node : \A c \in pending'[x] : c \in pending[x] \/ c \in h.wait,
           LookupsGoOn, h = Nothing \/ (n \in Node /\ lookup'[k.id].state # "new")
    PROVE  OwnInv'
<1>1. (\A m : Own(m)' <=> Own(m)) /\ Requests' = Requests /\ config'.requests = config.requests /\ config'.acks = config.acks
  BY SameOwn DEF Same
<1>2. ASSUME NEW m, Issued(m) PROVE Issued(m)'
  <2>1. m.id \in Requests
    BY <1>2 DEF Issued, Own
  <2> QED BY <1>1, <1>2, <2>1 DEF Issued, LookupsGoOn
<1>3. ASSUME NEW m, Follows(k, m), h # Nothing PROVE Issued(m)'
  BY <1>1, <1>3 DEF Issued, Follows
<1>4. ASSUME NEW p \in packets' PROVE PacketOwn(p)'
  <2>1. CASE p \in packets
    BY <1>2, <2>1 DEF OwnInv, PacketOwn
  <2>2. CASE p \in h.send
    <3>1. h # Nothing /\ OwnPacket(n, p) /\ Follows(k, p.msg)
      BY <2>2 DEF Nothing, Effect, OwnEffect
    <3> QED BY <1>3, <3>1 DEF OwnPacket, PacketOwn
  <2>3. CASE p \in ack
    <3>1. p = Packet("ack", p.from, p.to, p.msg) /\ Issued(p.msg)'
      BY <1>2, <2>3
    <3>2. p.type = "ack"
      BY <3>1 DEF Packet
    <3> QED BY <3>1, <3>2 DEF PacketOwn
  <2> QED BY <2>1, <2>2, <2>3
<1>5. ASSUME NEW x \in Node, NEW c \in pending'[x] PROVE CallOwn(c)'
  <2>1. CASE c \in pending[x]
    BY <1>1, <1>2, <2>1 DEF OwnInv, CallOwn
  <2>2. CASE c \in h.wait
    <3>1. h # Nothing /\ config.acks /\ c = [dest |-> c.dest, msg |-> c.msg] /\ Follows(k, c.msg)
      BY <2>2 DEF Nothing, Effect, OwnEffect
    <3> QED BY <1>1, <1>3, <3>1 DEF CallOwn
  <2> QED BY <2>1, <2>2
<1>6. \A i \in Requests' : lookup'[i].state = "waiting" => config'.requests[i].kind = "lookup"
  BY <1>1 DEF LookupsGoOn
<1> QED
  BY <1>4, <1>5, <1>6 DEF OwnInv

LEMMA StepGood ==
    ASSUME GoodInv, Fewer, NEW n, NEW h, GoodEffect(Failed', removed'[n], n, h), NEW k, OwnEffect(k, n, h),
           NEW ack, \A p \in ack : p.type = "ack",
           \A p \in packets' : p \in packets \/ p \in h.send \/ p \in ack,
           \A x \in Node : \A c \in pending'[x] : c \in pending[x] \/ (x = n /\ c \in h.wait),
           OwnInv
    PROVE  GoodInv'
<1>1. /\ \A failed, m : Matters(failed, m)' <=> Matters(failed, m)
      /\ \A failed, from, to, m : Going(failed, from, to, m)' <=> Going(failed, from, to, m)
      /\ \A gone, from, x, m : Rests(gone, from, x, m)' <=> Rests(gone, from, x, m)
      /\ \A gone, x, dest, m : Resends(gone, x, dest, m)' <=> Resends(gone, x, dest, m)
      /\ \A m : Stream(m)' = Stream(m)
  BY SameMatters, SameGoing, SameRests, SameResends, SameHeight DEF Fewer
<1>2. SUFFICES ASSUME LeadToKey' 
               PROVE  /\ \A p \in packets' : PacketGood(Failed, p)'
                      /\ \A x \in Node : \A c \in pending'[x] : CallGood(Failed, x, c)'
  BY DEF GoodInv
<1>3. LeadToKey /\ Failed \subseteq Failed' /\ \A x \in Node : removed[x] \subseteq removed'[x]
  BY <1>2, FewerFacts DEF Fewer
<1>4. PICK failed : failed = Failed'
  OBVIOUS
<1>5. PICK before : before = Failed
  OBVIOUS
<1>6. before \subseteq failed
  BY <1>3, <1>4, <1>5
<1>7. ASSUME NEW p \in packets' PROVE PacketGood(Failed, p)'
  <2>1. SUFFICES /\ p.type = "route" /\ Matters(failed, p.msg) => Going(failed, p.from, p.to, p.msg)
                 /\ p.type = "app" => Rests(removed'[p.to], p.from, p.to, p.msg)
    BY <1>1, <1>4 DEF PacketGood
  <2>2. CASE p \in packets
    <3>1. PacketGood(before, p)
      BY <1>3, <1>5, <2>2 DEF GoodInv
    <3>2. p.type = "route" /\ Matters(failed, p.msg) => Going(failed, p.from, p.to, p.msg)
      BY <1>6, <3>1, MattersLess, GoingMore DEF PacketGood
    <3>3. p.type = "app" => Rests(removed'[p.to], p.from, p.to, p.msg)
      <4>1. p.type = "app" => removed[p.to] \subseteq removed'[p.to]
        BY <1>3, <2>2 DEF OwnInv, PacketOwn
      <4> QED BY <3>1, <4>1, RestsMore DEF PacketGood
    <3> QED BY <3>2, <3>3
  <2>3. CASE p \in h.send
    <3>1. OwnPacket(n, p)
      BY <2>3 DEF OwnEffect
    <3> QED BY <1>4, <2>3, <3>1 DEF GoodEffect, OwnPacket
  <2>4. CASE p \in ack
    BY <2>4
  <2> QED BY <2>2, <2>3, <2>4
<1>8. ASSUME NEW x \in Node, NEW c \in pending'[x] PROVE CallGood(Failed, x, c)'
  <2>1. SUFFICES ASSUME Matters(failed, c.msg)
                 PROVE  /\ Going(failed, x, c.dest, c.msg)
                        /\ Stream(c.msg) # "route" => Resends(removed'[x], x, c.dest, c.msg)
    BY <1>1, <1>4 DEF CallGood
  <2>2. CASE c \in pending[x]
    <3>1. CallGood(before, x, c)
      BY <1>3, <1>5, <2>2 DEF GoodInv
    <3>2. Matters(before, c.msg)
      BY <1>6, <2>1, MattersLess
    <3>3. Going(before, x, c.dest, c.msg) /\ (Stream(c.msg) # "route" => Resends(removed[x], x, c.dest, c.msg))
      BY <3>1, <3>2 DEF CallGood
    <3>4. Going(failed, x, c.dest, c.msg)
      BY <1>6, <3>3, GoingMore
    <3> QED BY <1>3, <3>3, <3>4, ResendsMore
  <2>3. CASE x = n /\ c \in h.wait
    BY <1>4, <2>1, <2>3 DEF GoodEffect
  <2> QED BY <2>2, <2>3
<1> QED
  BY <1>7, <1>8

(***************************************************************************)
(* What the handlers do                                                    *)
(***************************************************************************)
Done(i) == lookup[i].state \in {"sent", "valid", "failed"}

\* A step of a node that handles a message or request k takes the packets old and the calls over
\* away, and acknowledges a message perhaps.
Moves(n, k, e, h, old, over, ack) ==
    /\ n \in alive /\ UNCHANGED <<alive, stranded>> /\ Fewer
    /\ packets' = (packets \ old) \cup h.send \cup ack
    /\ pending' = [pending EXCEPT ![n] = (pending[n] \ over) \cup h.wait]
    /\ Does(n, k, e, h)
    /\ LeadToKey' => DoesGood(Failed', n, k, e, h)
    /\ LookupsGoOn /\ lookup'[k.id].state # "new"
    /\ \A i \in Requests : lookup[i].state = "new" /\ lookup'[i].state # "new" => i = k.id
    /\ \A i \in Requests : Done(i) => Done(i)'
    /\ \A m \in h.here : m.kind = "answer" /\ n = config.requests[m.id].src => Done(m.id)'
    /\ \A i \in Requests :
        /\ delivered[i] \subseteq delivered'[i]
        /\ \A m \in e.here : m.kind # "answer" /\ m.id = i => n \in delivered'[i]
        /\ \A x \in delivered'[i] \ delivered[i] : x = n /\ \E m \in e.here : m.kind # "answer" /\ m.id = i

LEMMA LeavesMoves ==
    ASSUME IInv, OwnInv, NEW self, self.node \in alive, NEW k, k.id \in Requests, lookup[k.id].state # "new",
           NEW effect, EffectOK(self.node, effect), OwnEffect(k, self.node, effect),
           LeadToKey' => /\ Handler(Failed', self) /\ self.gone = removed'[self.node]
                         /\ GoodEffect(Failed', self.gone, self.node, effect),
           NEW old, NEW over, NEW ack, Leaves(self, old, over, effect, ack), Fewer, UNCHANGED <<alive, stranded>>
    PROVE  \E h : Moves(self.node, k, effect, h, old, over, ack)
<1> DEFINE n == self.node
<1>1. config \in Config /\ n \in Node /\ RequestsOK
  BY DEF IInv, NodesOK
<1>2. PICK h :
        /\ h = Handled(self, effect)
        /\ packets' = (packets \ old) \cup h.send \cup ack
        /\ pending' = [pending EXCEPT ![n] = (pending[n] \ over) \cup h.wait]
        /\ lookup' = Finished(self, h.here)
        /\ delivered' = [i \in Requests |->
                            IF \E m \in effect.here : m.kind # "answer" /\ m.id = i
                            THEN delivered[i] \cup {n} ELSE delivered[i]]
  <2>1. PICK e \in {effect} : \E h \in {Handled(self, e)} :
        /\ packets' = (packets \ old) \cup h.send \cup ack
        /\ pending' = [pending EXCEPT ![n] = (pending[n] \ over) \cup h.wait]
        /\ lookup' = Finished(self, h.here)
        /\ delivered' = [i \in Requests |->
                            IF \E m \in e.here : m.kind # "answer" /\ m.id = i
                            THEN delivered[i] \cup {n} ELSE delivered[i]]
    BY DEF Leaves
  <2>2. e = effect
    BY <2>1
  <2> HIDE DEF n
  <2> QED BY <2>1, <2>2
<1>3. h = Handled(self, effect)
  BY <1>2
<1>4. Does(n, k, effect, h)
  BY <1>1, <1>3, DoesHandle
<1>5. LeadToKey' => DoesGood(Failed', n, k, effect, h)
  <2>1. PICK failed : failed = Failed'
    OBVIOUS
  <2>2. SUFFICES ASSUME LeadToKey' PROVE DoesGood(failed, n, k, effect, h)
    BY <2>1
  <2>3. /\ Handler(failed, self) /\ self.gone = removed'[self.node]
        /\ GoodEffect(failed, self.gone, self.node, effect)
    BY <2>1, <2>2
  <2>4. DoesGood(failed, self.node, k, effect, Handled(self, effect))
    BY <1>1, <2>3, DoesHandleGood
  <2> QED BY <1>3, <2>4
<1>6. ASSUME NEW i \in Requests
      PROVE  /\ \/ lookup'[i] = lookup[i]
                \/ lookup[i].state = "waiting" /\ lookup'[i].state \in {"valid", "failed"}
             /\ (\E m \in h.here : m.kind = "answer" /\ m.id = i) /\ config.requests[i].src = n =>
                (lookup[i].state = "waiting" => lookup'[i].state \in {"valid", "failed"})
  <2>1. lookup[i] \in LookupType
    BY <1>1 DEF RequestsOK
  <2>2. lookup'[i] = IF /\ lookup[i].state = "waiting" /\ config.requests[i].src = n
                        /\ \E m \in h.here : m.kind = "answer" /\ m.id = i
                     THEN [lookup[i] EXCEPT !.state = IF \E m \in h.here : m.sibling THEN "valid" ELSE "failed"]
                     ELSE lookup[i]
    BY <1>2 DEF Finished
  <2>3. \A s \in States : [lookup[i] EXCEPT !.state = s].state = s
    BY <2>1 DEF LookupType
  <2>4. (IF \E m \in h.here : m.sibling THEN "valid" ELSE "failed") \in {"valid", "failed"}
    OBVIOUS
  <2>5. {"valid", "failed"} \subseteq States
    BY DEF States
  <2> DEFINE s == IF \E m \in h.here : m.sibling THEN "valid" ELSE "failed"
  <2>6. s \in {"valid", "failed"} /\ [lookup[i] EXCEPT !.state = s].state = s
    BY <2>3, <2>4, <2>5
  <2> HIDE DEF s
  <2>7. lookup'[i] = IF /\ lookup[i].state = "waiting" /\ config.requests[i].src = n
                        /\ \E m \in h.here : m.kind = "answer" /\ m.id = i
                     THEN [lookup[i] EXCEPT !.state = s] ELSE lookup[i]
    BY <2>2 DEF s
  <2> QED BY <2>6, <2>7
<1>7. LookupsGoOn
  BY <1>6 DEF LookupsGoOn, OwnInv
<1>8. \A i \in Requests : Done(i) => Done(i)'
  BY <1>6 DEF Done
<1>9. ASSUME NEW m \in h.here, m.kind = "answer", n = config.requests[m.id].src
      PROVE  Done(m.id)'
  <2>1. m.id = k.id /\ m.id \in Requests
    BY <1>4, <1>9 DEF Does, OwnEffect, Follows, Own
  <2>2. lookup[m.id] \in LookupType /\ lookup[m.id].state # "new"
    BY <1>1, <2>1 DEF RequestsOK
  <2>3. lookup[m.id].state = "waiting" \/ Done(m.id)
    BY <2>2 DEF LookupType, States, Done
  <2> QED BY <1>6, <1>8, <1>9, <2>1, <2>3 DEF Done
<1>10. ASSUME NEW i \in Requests
       PROVE  /\ delivered[i] \subseteq delivered'[i]
              /\ \A m \in effect.here : m.kind # "answer" /\ m.id = i => n \in delivered'[i]
              /\ \A x \in delivered'[i] \ delivered[i] : x = n /\ \E m \in effect.here : m.kind # "answer" /\ m.id = i
  BY <1>2, <1>3
<1>11. lookup'[k.id].state # "new"
  BY <1>7 DEF LookupsGoOn
<1>13. \A i \in Requests : lookup[i].state = "new" /\ lookup'[i].state # "new" => i = k.id
  BY <1>6
<1>12. Moves(n, k, effect, h, old, over, ack)
  BY <1>13, <1>2, <1>4, <1>5, <1>7, <1>8, <1>9, <1>10, <1>11 DEF Moves
<1> QED
  BY <1>12

\* A request that is sent is not at its destination as an answer.
LEMMA SentHere ==
    ASSUME config \in Config, NEW i \in Requests
    PROVE  \A m \in Sent(i).here : m.kind # "answer"
<1> DEFINE q == config.requests[i]
           m == Message(i, q.kind, q.src, q.key)
           self == Self(q.src)
           r == Recorded(m, q.src)
<1>1. /\ i \in Nat /\ q.src \in Node /\ q.key \in Node /\ q.kind \in {"lookup", "data"}
  BY RequestFields
<1>2. m \in MessageType /\ m.kind = q.kind /\ m.src = q.src
  BY <1>1, EmptySeq DEF Message, MessageType
<1>3. self.node = q.src
  BY DEF Self
<1>4. Sent(i) = IF q.via = None THEN SendToKey(self, m, q.src, FALSE)
                ELSE SendToSourceRoute(self, <<q.via>>, m)
  BY DEF Sent
<1> HIDE DEF m, self
<1>5. SendToKey(self, m, q.src, FALSE) = RouteToKey(self, m, q.src, FALSE)
  BY <1>2, <1>3 DEF SendToKey
<1>6. SendToSourceRoute(self, <<q.via>>, m).here = {}
  BY DEF SendToSourceRoute, SendRouteMessage, Effect
<1>7. r.kind = m.kind
  BY <1>1, <1>2, RecordedFields
<1> HIDE DEF r
<1>8. RouteToKey(self, m, q.src, FALSE).here \subseteq {r}
  BY DEF RouteToKey, SendRouteMessage, Effect, Nothing, r
<1> QED
  BY <1>1, <1>2, <1>4, <1>5, <1>6, <1>7, <1>8

\* What a request leaves behind, that is sent or sent again.
LEMMA EmitsMoves ==
    ASSUME IInv, OwnInv, NEW i \in Requests, config.requests[i].src \in alive, lookup[i].state \in {"new", "waiting"},
           Emits(i), Same, UNCHANGED <<alive, removed, stranded>>, EffectOK(config.requests[i].src, Sent(i))
    PROVE  \E e, h : /\ e = Sent(i)
                     /\ Moves(config.requests[i].src, [id |-> i, kind |-> config.requests[i].kind], e, h, {}, {}, {})
<1> DEFINE q == config.requests[i]
           n == q.src
           k == [id |-> i, kind |-> q.kind]
<1>1. config \in Config /\ n \in Node /\ RequestsOK /\ i \in Nat /\ q.kind \in {"lookup", "data"} /\ NodesOK
  BY RequestFields DEF IInv, NodesOK
<1>2. PICK e : e = Sent(i)
  OBVIOUS
<1>3. PICK h :
        /\ h = Handled(Self(n), e)
        /\ packets' = packets \cup h.send
        /\ pending' = [pending EXCEPT ![n] = pending[n] \cup h.wait]
        /\ delivered' = [delivered EXCEPT ![i] = IF e.here = {} THEN delivered[i] ELSE delivered[i] \cup {n}]
        /\ lookup' = [lookup EXCEPT ![i] =
                        [state |-> IF q.kind = "data" THEN "sent"
                                   ELSE IF h.here = {} THEN "waiting" ELSE "valid",
                         retries |-> IF lookup[i].state = "new" THEN lookup[i].retries ELSE lookup[i].retries - 1]]
  <2>1. PICK x \in {Sent(i)} : \E h \in {Handled(Self(n), x)} :
        /\ packets' = packets \cup h.send
        /\ pending' = [pending EXCEPT ![n] = pending[n] \cup h.wait]
        /\ delivered' = [delivered EXCEPT ![i] = IF x.here = {} THEN delivered[i] ELSE delivered[i] \cup {n}]
        /\ lookup' = [lookup EXCEPT ![i] =
                        [state |-> IF q.kind = "data" THEN "sent"
                                   ELSE IF h.here = {} THEN "waiting" ELSE "valid",
                         retries |-> IF lookup[i].state = "new" THEN lookup[i].retries ELSE lookup[i].retries - 1]]
    BY DEF Emits
  <2>2. x = e
    BY <1>2, <2>1
  <2> HIDE DEF n, q
  <2> QED BY <2>1, <2>2
<1>4. Self(n).node = n /\ Self(n).gone = removed[n]
  BY DEF Self
<1>5. OwnEffect(k, n, e) /\ EffectOK(n, e)
  <2>1. OwnEffect([id |-> i, kind |-> config.requests[i].kind], config.requests[i].src, Sent(i))
    BY <1>1, SentOwn
  <2> QED BY <1>2, <2>1
<1>6. Does(n, k, e, h)
  <2> DEFINE self == Self(n)
  <2>1. config \in Config /\ self.node \in Node /\ EffectOK(self.node, e) /\ OwnEffect(k, self.node, e)
    BY <1>1, <1>4, <1>5
  <2> HIDE DEF self, n, k
  <2>2. Does(self.node, k, e, Handled(self, e))
    BY <2>1, DoesHandle
  <2> QED BY <1>3, <1>4, <2>2 DEF self
<1>7. Fewer /\ removed' = removed
  BY DEF Fewer
<1>8. LeadToKey' => DoesGood(Failed', n, k, e, h)
  <2>1. PICK failed : failed = Failed'
    OBVIOUS
  <2>2. SUFFICES ASSUME LeadToKey' PROVE DoesGood(failed, n, k, e, h)
    BY <2>1
  <2>3. LeadToKey
    BY <1>7, <2>2, FewerFacts
  <2>4. removed[n] \subseteq failed /\ removed'[n] = removed[n]
    BY <1>1, <1>7, <2>1 DEF Failed
  <2>5. GoodEffect(failed, removed[n], n, e)
    <3>1. /\ config \in Config /\ LeadToKey /\ i \in Requests
          /\ removed \in [Node -> SUBSET Node] /\ (\A x \in Node : x \notin removed[x])
          /\ removed[config.requests[i].src] \subseteq failed
      BY <1>1, <2>3, <2>4 DEF NodesOK
    <3>2. LET p == config.requests[i]
              f == Sent(i) IN
            /\ GoodEffect(failed, removed[p.src], p.src, f)
            /\ config.acks => Takes("ask", Distance(p.key)[p.src], p.src, f)
      BY ONLY <3>1, SentGood
    <3> QED BY <1>2, <3>2
  <2>6. Handler(failed, Self(n))
    BY <1>1, <1>4, <2>3, <2>4 DEF Handler, NodesOK, LeadToKey, Leads
  <2> DEFINE self == Self(n)
  <2>7. /\ config \in Config /\ Handler(failed, self) /\ self.gone = removed'[self.node]
        /\ EffectOK(self.node, e) /\ OwnEffect(k, self.node, e)
        /\ GoodEffect(failed, self.gone, self.node, e)
    BY <1>1, <1>4, <1>5, <2>4, <2>5, <2>6
  <2> HIDE DEF self, n, k
  <2>8. DoesGood(failed, self.node, k, e, Handled(self, e))
    BY <2>7, DoesHandleGood
  <2> QED BY <1>3, <1>4, <2>8 DEF self
<1>9. k.id = i
  OBVIOUS
<1> DEFINE s == IF q.kind = "data" THEN "sent" ELSE IF h.here = {} THEN "waiting" ELSE "valid"
<1>10. /\ s \in {"sent", "waiting", "valid"} /\ lookup'[i].state = s
       /\ s = "waiting" => q.kind = "lookup" /\ h.here = {}
       /\ \A j \in Requests : j # i => lookup'[j] = lookup[j]
  <2>1. DOMAIN lookup = Requests
    BY <1>1 DEF RequestsOK
  <2>2. lookup'[i] = [state |-> s, retries |-> IF lookup[i].state = "new" THEN lookup[i].retries ELSE lookup[i].retries - 1]
    BY <1>3, <2>1
  <2> QED BY <1>1, <1>3, <2>1, <2>2
<1> HIDE DEF s
<1>11. LookupsGoOn /\ lookup'[i].state # "new"
  BY <1>10 DEF LookupsGoOn, OwnInv
<1>12. \A j \in Requests : Done(j) => Done(j)'
  BY <1>10 DEF Done
<1>13. ASSUME NEW m \in h.here PROVE Done(m.id)'
  <2>1. m.id = i
    BY <1>6, <1>9, <1>13 DEF Does, OwnEffect, Follows
  <2> QED BY <1>10, <1>13, <2>1 DEF Done
<1>14. ASSUME NEW j \in Requests
       PROVE  /\ delivered[j] \subseteq delivered'[j]
              /\ \A m \in e.here : m.kind # "answer" /\ m.id = j => n \in delivered'[j]
              /\ \A x \in delivered'[j] \ delivered[j] : x = n /\ \E m \in e.here : m.kind # "answer" /\ m.id = j
  <2>1. delivered' = [delivered EXCEPT ![i] = IF e.here = {} THEN delivered[i] ELSE delivered[i] \cup {n}] /\ DOMAIN delivered = Requests
    BY <1>1, <1>3 DEF RequestsOK
  <2>2. \A m \in e.here : m.kind # "answer" /\ m.id = i
    <3>1. \A m \in Sent(i).here : m.kind # "answer"
      BY <1>1, SentHere
    <3>2. \A m \in e.here : m.id = i
      BY <1>5, <1>9 DEF OwnEffect, Follows
    <3> QED BY <1>2, <3>1, <3>2
  <2> QED BY <2>1, <2>2
<1>15. packets' = (packets \ {}) \cup h.send \cup {} /\ pending' = [pending EXCEPT ![n] = (pending[n] \ {}) \cup h.wait]
  <2>1. pending[n] \ {} = pending[n] /\ packets \ {} = packets
    OBVIOUS
  <2> QED BY <1>3, <2>1
<1>17. \A j \in Requests : lookup[j].state = "new" /\ lookup'[j].state # "new" => j = k.id
  BY <1>9, <1>10
<1>16. Moves(n, k, e, h, {}, {}, {})
  <2> HIDE DEF n, k, q
  <2>1. n \in alive
    BY DEF n, q
  <2>2. \A m \in h.here : m.kind = "answer" /\ n = config.requests[m.id].src => Done(m.id)'
    BY <1>13
  <2> QED BY <1>6, <1>7, <1>8, <1>9, <1>11, <1>12, <2>1, <2>2, <1>14, <1>15, <1>17 DEF Moves
<1> QED
  BY <1>2, <1>16

\* The node that handles a packet, which removes nobody.
LEMMA SelfFacts ==
    ASSUME IInv, NEW n \in Node, Same, UNCHANGED removed
    PROVE  /\ Self(n).node = n /\ Self(n).gone = removed'[n] /\ Fewer
           /\ LeadToKey' => Handler(Failed', Self(n)) /\ LeadToKey /\ Failed' = Failed
<1>1. Fewer
  BY DEF Fewer
<1>2. LeadToKey' => LeadToKey
  BY <1>1, FewerFacts
<1>3. Failed' = Failed
  BY DEF Failed
<1>4. removed[n] \in SUBSET (Node \ {n})
  BY DEF IInv, NodesOK
<1>5. removed[n] \subseteq Failed
  BY DEF Failed
<1>6. LeadToKey => Leads(removed[n])
  BY DEF LeadToKey, Leads
<1>7. LeadToKey => Handler(Failed', Self(n))
  <2> DEFINE self == Self(n)
  <2>1. self.node = n /\ self.gone = removed[n]
    BY DEF Self
  <2> HIDE DEF self
  <2> QED BY <1>3, <1>4, <1>5, <1>6, <2>1 DEF Handler, self
<1> QED
  BY <1>1, <1>2, <1>3, <1>7 DEF Self

LEMMA HandleRouteMessageMoves ==
    ASSUME IInv, OwnInv, GoodInv, NEW p \in packets, HandleRouteMessage(p)
    PROVE  \E e, h :
            /\ Moves(p.to, p.msg, e, h, {p}, {}, IF config.acks THEN {Packet("ack", p.to, p.from, p.msg)} ELSE {})
            /\ LeadToKey' /\ config.acks /\ Matters(Failed', p.msg) => Takes(Stream(p.msg), Below(p.to, p.msg), p.to, e)
<1> DEFINE self == Self(p.to)
           ack == IF config.acks THEN {Packet("ack", p.to, p.from, p.msg)} ELSE {}
<1>1. config \in Config /\ Carried(p.from, p.to, p.msg) /\ p.to \in alive /\ p.to \in Node /\ p.from \in Node
  BY DEF IInv, PacketOK, HandleRouteMessage, Carried
<1>2. PICK e : e = HandleRoute(self, p.msg, p.from)
  OBVIOUS
<1>3. Leaves(self, {p}, {}, e, ack) /\ UNCHANGED <<config, alive, removed, stranded>>
  BY <1>2 DEF HandleRouteMessage
<1>4. /\ self.node = p.to /\ self.gone = removed'[p.to] /\ Fewer
      /\ LeadToKey' => Handler(Failed', self) /\ LeadToKey /\ Failed' = Failed
  BY <1>1, <1>3, SelfFacts DEF Same
<1>5. Own(p.msg) /\ lookup[p.msg.id].state # "new" /\ p.msg.id \in Requests
  BY DEF OwnInv, PacketOwn, Issued, Own
<1> HIDE DEF self, ack
<1>6. EffectOK(self.node, e) /\ OwnEffect(p.msg, self.node, e)
  <2>1. EffectOK(self.node, HandleRoute(self, p.msg, p.from))
    BY <1>1, <1>4, HandleRouteOK DEF Carried
  <2>2. OwnEffect(p.msg, self.node, HandleRoute(self, p.msg, p.from))
    BY <1>1, <1>4, <1>5, HandleRouteOwn
  <2> QED BY <1>2, <2>1, <2>2
<1>7. LeadToKey' =>
        /\ GoodEffect(Failed', self.gone, self.node, e)
        /\ config.acks /\ Matters(Failed', p.msg) => Takes(Stream(p.msg), Below(p.to, p.msg), p.to, e)
  <2>1. PICK failed : failed = Failed'
    OBVIOUS
  <2>2. SUFFICES ASSUME LeadToKey'
                 PROVE  /\ GoodEffect(failed, self.gone, self.node, e)
                        /\ config.acks /\ Matters(failed, p.msg) => Takes(Stream(p.msg), Below(p.to, p.msg), p.to, e)
    BY <2>1
  <2>3. Handler(failed, self) /\ failed = Failed /\ LeadToKey
    BY <1>4, <2>1, <2>2
  <2>4. Matters(failed, p.msg) => Going(failed, p.from, self.node, p.msg)
    <3>1. p.type = "route"
      BY DEF HandleRouteMessage
    <3> QED BY <1>4, <2>3, <3>1 DEF GoodInv, PacketGood
  <2>5. LET f == HandleRoute(self, p.msg, p.from) IN
            /\ GoodEffect(failed, self.gone, self.node, f)
            /\ config.acks /\ Matters(failed, p.msg) => Takes(Stream(p.msg), Below(self.node, p.msg), self.node, f)
    BY <1>1, <1>5, <2>3, <2>4, HandleRouteGood
  <2> QED BY <1>2, <1>4, <2>5
<1>8. \E h : Moves(self.node, p.msg, e, h, {p}, {}, ack)
  BY <1>1, <1>3, <1>4, <1>5, <1>6, <1>7, LeavesMoves
<1> QED
  BY <1>4, <1>7, <1>8 DEF ack

LEMMA HandleDirectResponseMoves ==
    ASSUME IInv, OwnInv, GoodInv, NEW p \in packets, HandleDirectResponse(p)
    PROVE  \E e, h : Moves(p.to, p.msg, e, h, {p}, {}, {})
<1> DEFINE self == Self(p.to)
<1>1. config \in Config /\ Arrived(p.msg) /\ p.to \in alive /\ p.to \in Node
  BY DEF IInv, PacketOK, NodesOK, HandleDirectResponse
<1>2. PICK e : e = Effect({}, {}, {p.msg})
  OBVIOUS
<1>3. Leaves(self, {p}, {}, e, {}) /\ UNCHANGED <<config, alive, removed, stranded>>
  BY <1>2 DEF HandleDirectResponse
<1>4. /\ self.node = p.to /\ self.gone = removed'[p.to] /\ Fewer
      /\ LeadToKey' => Handler(Failed', self)
  BY <1>1, <1>3, SelfFacts DEF Same
<1>5. Own(p.msg) /\ lookup[p.msg.id].state # "new" /\ p.msg.id \in Requests /\ p.msg.kind = "answer"
  BY DEF OwnInv, PacketOwn, Issued, Own, HandleDirectResponse
<1> HIDE DEF self
<1>6. EffectOK(self.node, e) /\ OwnEffect(p.msg, self.node, e)
  BY <1>1, <1>2, <1>5, HereOK, OwnHere
<1>7. LeadToKey' => GoodEffect(Failed', self.gone, self.node, e)
  BY <1>2, <1>5 DEF GoodEffect, Effect
<1>8. \E h : Moves(self.node, p.msg, e, h, {p}, {}, {})
  BY <1>1, <1>3, <1>4, <1>5, <1>6, <1>7, LeavesMoves
<1> QED
  BY <1>4, <1>8

LEMMA HandleForwardMoves ==
    ASSUME IInv, OwnInv, GoodInv, NEW p \in packets, HandleForward(p)
    PROVE  \E e, h :
            /\ Moves(p.to, p.msg, e, h, {p}, {}, {})
            /\ LeadToKey' /\ config.acks => Takes(Stream(p.msg), Height(p.to, p.msg), p.to, e)
<1> DEFINE self == Self(p.to)
<1>1. config \in Config /\ p.from \in Node /\ Held(p.to, p.msg) /\ p.to \in Node /\ p.to \in alive
  BY DEF IInv, PacketOK, NodesOK, HandleForward
<1>2. PICK shown : shown = TRUE
  OBVIOUS
<1>3. PICK e : e = SendToKey(self, p.msg, p.from, shown)
  OBVIOUS
<1>4. Leaves(self, {p}, {}, e, {}) /\ UNCHANGED <<config, alive, removed, stranded>>
  BY <1>2, <1>3 DEF HandleForward
<1>5. /\ self.node = p.to /\ self.gone = removed'[p.to] /\ Fewer
      /\ LeadToKey' => Handler(Failed', self) /\ LeadToKey
  BY <1>1, <1>4, SelfFacts DEF Same
<1>6. Own(p.msg) /\ lookup[p.msg.id].state # "new" /\ p.msg.id \in Requests /\ p.msg.kind = "data"
  BY DEF OwnInv, PacketOwn, Issued, Own, HandleForward
<1>7. self.gone = removed[p.to]
  BY <1>4, <1>5
<1> HIDE DEF self
<1>8. EffectOK(self.node, e) /\ OwnEffect(p.msg, self.node, e)
  BY <1>1, <1>3, <1>5, <1>6, SendToKeyOK, SendToKeyOwn
<1>9. LeadToKey' =>
        /\ GoodEffect(Failed', self.gone, self.node, e)
        /\ config.acks => Takes(Stream(p.msg), Height(p.to, p.msg), p.to, e)
  <2>1. PICK failed : failed = Failed'
    OBVIOUS
  <2>2. SUFFICES ASSUME LeadToKey'
                 PROVE  /\ GoodEffect(failed, self.gone, self.node, e)
                        /\ config.acks => Takes(Stream(p.msg), Height(p.to, p.msg), p.to, e)
    BY <2>1
  <2>3. Handler(failed, self) /\ LeadToKey
    BY <1>5, <2>1, <2>2
  <2>4. Rests(self.gone, p.from, self.node, p.msg)
    <3>1. p.type = "app"
      BY DEF HandleForward
    <3> QED BY <1>5, <1>7, <2>3, <3>1 DEF GoodInv, PacketGood
  <2>5. LET f == SendToKey(self, p.msg, p.from, shown) IN
            /\ GoodEffect(failed, self.gone, self.node, f)
            /\ config.acks => Takes(Stream(p.msg), Distance(p.msg.key)[self.node], self.node, f)
    <3>1. /\ p.msg.key \in Node /\ p.msg.nextHops = <<>> /\ p.msg.visitedHops = <<>>
          /\ Closing(self.node, p.msg) /\ Distance(p.msg.key)[p.from] >= Distance(p.msg.key)[self.node]
          /\ p.msg.hopCount < HopCountMax /\ Budget(self.gone, self.node, p.msg)
      BY <2>4 DEF Rests
    <3>2. Traced(failed, self.node, p.msg)
      BY <1>6 DEF Traced
    <3>3. /\ config \in Config /\ Handler(failed, self) /\ AtNode(failed, self.node, p.msg)
          /\ (p.msg.kind = "answer" => Due(p.msg.id, failed)) /\ p.from \in Node
          /\ Distance(p.msg.key)[p.from] >= Distance(p.msg.key)[self.node]
          /\ Budget(self.gone, self.node, p.msg)
          /\ (IsSiblingFor(self, p.msg.key) =>
                p.msg.visitedHops = <<>> /\ p.msg.hopCount < HopCountMax /\ (p.msg.kind = "lookup" => p.from = self.node))
      BY <1>1, <1>6, <2>3, <3>1, <3>2 DEF AtNode
    <3> QED BY ONLY <3>3, SendToKeyGood
  <2>6. Height(p.to, p.msg) = Distance(p.msg.key)[p.to]
    BY <1>6 DEF Height, Stream
  <2> QED BY <1>3, <1>5, <2>5, <2>6
<1>10. \E h : Moves(self.node, p.msg, e, h, {p}, {}, {})
  BY <1>1, <1>4, <1>5, <1>6, <1>8, <1>9, LeavesMoves
<1> QED
  BY <1>5, <1>9, <1>10

LEMMA HandleNextHopTimeoutMoves ==
    ASSUME IInv, OwnInv, GoodInv, NEW n \in Node, NEW c \in pending[n], HandleNextHopTimeout(n, c)
    PROVE  \E e, h :
            /\ Moves(n, c.msg, e, h, {}, {c}, {})
            /\ LeadToKey' /\ Matters(Failed', c.msg) => Takes(Stream(c.msg), Height(n, c.msg), n, e)
<1> DEFINE gone == removed[n] \cup ({c.dest} \ {n})
           self == [node |-> n, gone |-> gone]
<1>1. config \in Config /\ NodesOK /\ Carried(n, c.dest, c.msg) /\ self.node = n /\ self.gone = gone /\ n \in alive
  BY DEF IInv, CallsOK, HandleNextHopTimeout
<1>2. c.dest \in Node
  BY <1>1 DEF Carried
<1>3. Same
  <2>1. Uses("early") \/ UNCHANGED config
    BY DEF HandleNextHopTimeout
  <2>2. ASSUME Uses("early") PROVE Same
    <3>1. config' = [config EXCEPT !["early"] = config["early"] - 1]
      BY <2>2 DEF Uses
    <3> QED BY <1>1, <3>1 DEF Same, Config
  <2> QED BY <2>1, <2>2 DEF Same
<1>4. removed' = [removed EXCEPT ![n] = gone] /\ UNCHANGED <<alive, stranded>>
  BY <1>1 DEF HandleNextHopTimeout
<1>5. /\ removed'[n] = gone /\ gone \in SUBSET (Node \ {n}) /\ \A x \in Node : removed[x] \subseteq removed'[x]
      /\ c.dest = n \/ c.dest \in gone
  BY <1>1, <1>2, <1>4 DEF NodesOK
<1>6. Fewer
  BY <1>3, <1>5 DEF Fewer
<1>7. PICK e : e = Resent(self, c.msg)
  OBVIOUS
<1>8. Leaves(self, {}, {c}, e, {})
  BY <1>7 DEF HandleNextHopTimeout
<1>9. Own(c.msg) /\ lookup[c.msg.id].state # "new" /\ c.msg.id \in Requests /\ config.acks
  BY DEF OwnInv, CallOwn, Issued, Own
<1>10. removed[n] \subseteq self.gone
  BY <1>1
<1> HIDE DEF self, gone
<1>11. EffectOK(self.node, e) /\ OwnEffect(c.msg, self.node, e)
  BY <1>1, <1>7, <1>9, ResentOK, ResentOwn
<1>12. LeadToKey' =>
        /\ Handler(Failed', self)
        /\ GoodEffect(Failed', self.gone, self.node, e)
        /\ Matters(Failed', c.msg) => Takes(Stream(c.msg), Height(n, c.msg), n, e)
  <2>1. PICK failed : failed = Failed'
    OBVIOUS
  <2>2. SUFFICES ASSUME LeadToKey'
                 PROVE  /\ Handler(failed, self)
                        /\ GoodEffect(failed, self.gone, self.node, e)
                        /\ Matters(failed, c.msg) => Takes(Stream(c.msg), Height(n, c.msg), n, e)
    BY <2>1
  <2>3. LeadToKey /\ Failed \subseteq failed
    BY <1>6, <2>1, <2>2, FewerFacts
  <2>4. Handler(failed, self)
    <3>1. Leads(self.gone)
      <4>1. config'.table = config.table /\ Close' = Close /\ Chain' = Chain
        BY <1>3 DEF Same, Close, Chain, SpareWays, Ways
      <4>2. \/ config.table \in Close /\ \A x, y \in removed'[n] : x = y
            \/ config.table \in Chain /\ removed'[n] = {}
        BY <2>2, <4>1 DEF LeadToKey
      <4> QED BY <1>1, <1>5, <4>2 DEF Leads
    <3>2. self.gone \subseteq failed
      BY <1>1, <1>5, <2>1 DEF Failed
    <3> QED BY <1>1, <1>5, <3>1, <3>2 DEF Handler
  <2>5. ASSUME Matters(failed, c.msg)
        PROVE  /\ Going(failed, self.node, c.dest, c.msg)
               /\ Stream(c.msg) # "route" => Resends(self.gone, self.node, c.dest, c.msg)
    <3>1. PICK before : before = Failed
      OBVIOUS
    <3>2. Matters(before, c.msg)
      BY <2>3, <2>5, <3>1, MattersLess
    <3>3. Going(before, n, c.dest, c.msg) /\ (Stream(c.msg) # "route" => Resends(removed[n], n, c.dest, c.msg))
      BY <2>3, <3>1, <3>2 DEF GoodInv, CallGood
    <3>4. Going(failed, n, c.dest, c.msg)
      BY <2>3, <3>1, <3>3, GoingMore
    <3>5. Stream(c.msg) # "route" => Resends(self.gone, n, c.dest, c.msg)
      BY <1>10, <3>3, ResendsMore
    <3> QED BY <1>1, <3>4, <3>5
  <2>6. LET f == Resent(self, c.msg) IN
            /\ GoodEffect(failed, self.gone, self.node, f)
            /\ Matters(failed, c.msg) => Takes(Stream(c.msg), Height(self.node, c.msg), self.node, f)
    <3>1. c.dest = self.node \/ c.dest \in self.gone
      BY <1>1, <1>5
    <3> QED BY <1>1, <1>2, <1>9, <2>4, <2>5, <3>1, ResentGood
  <2> QED BY <1>1, <1>7, <2>4, <2>6
<1>13. self.gone = removed'[self.node]
  BY <1>1, <1>5
<1>14. \E h : Moves(self.node, c.msg, e, h, {}, {c}, {})
  BY <1>1, <1>4, <1>6, <1>8, <1>9, <1>11, <1>12, <1>13, LeavesMoves
<1> QED
  BY <1>1, <1>12, <1>14

(***************************************************************************)
(* The two invariants, and where requests are handled                      *)
(***************************************************************************)
\* What HandledAtClosest says of a step.
AtClosest ==
    \A i \in Requests : \A n \in delivered'[i] \ delivered[i] :
        LeadToKey' /\ NoneSuspected' =>
            n = config.requests[i].key \/ config.requests[i].key \notin alive

LEMMA MovesKeep ==
    ASSUME IInv, OwnInv, GoodInv, NEW n, NEW k, NEW e, NEW h, NEW old, NEW over, NEW ack,
           Moves(n, k, e, h, old, over, ack),
           \A p \in ack : p = Packet("ack", p.from, p.to, p.msg) /\ Issued(p.msg)
    PROVE  OwnInv' /\ GoodInv' /\ AtClosest
<1>1. /\ n \in alive /\ n \in Node /\ alive' = alive /\ Fewer /\ Same /\ LookupsGoOn
      /\ lookup'[k.id].state # "new" /\ OwnEffect(k, n, e) /\ OwnEffect(k, n, h)
      /\ packets' = (packets \ old) \cup h.send \cup ack
      /\ pending' = [pending EXCEPT ![n] = (pending[n] \ over) \cup h.wait]
      /\ CallsOK /\ \A p \in packets : PacketOK(p)
  BY DEF Moves, Does, Fewer, IInv
<1>2. \A x \in Node : \A c \in pending'[x] : c \in pending[x] \/ (x = n /\ c \in h.wait)
  <2>1. pending' = [x \in Node |-> IF x = n THEN (pending[n] \ over) \cup h.wait ELSE pending[x]]
    BY <1>1 DEF CallsOK
  <2> QED BY <2>1
<1>3. OwnInv'
  BY <1>1, <1>2, StepOwn
<1>4. GoodInv'
  <2>1. CASE ~LeadToKey'
    BY <2>1 DEF GoodInv
  <2>2. CASE LeadToKey'
    <3>1. GoodEffect(Failed', removed'[n], n, h)
      BY <2>2 DEF Moves, DoesGood
    <3>2. \A p \in ack : p.type = "ack"
      BY DEF Packet
    <3> QED BY <1>1, <1>2, <3>1, <3>2, StepGood
  <2> QED BY <2>1, <2>2
<1>5. AtClosest
  <2>1. SUFFICES ASSUME NEW i \in Requests, NEW x \in delivered'[i] \ delivered[i], LeadToKey', NoneSuspected'
                 PROVE  x = config.requests[i].key \/ config.requests[i].key \notin alive
    BY DEF AtClosest
  <2>2. PICK m \in e.here : x = n /\ m.kind # "answer" /\ m.id = i
    BY <2>1 DEF Moves
  <2>3. n = m.key \/ m.key \in removed'[n]
    BY <2>1, <2>2 DEF Moves, DoesGood, GoodEffect, Reached
  <2>4. m.key = config.requests[i].key
    BY <1>1, <2>2 DEF OwnEffect, Follows, Own
  <2>5. removed'[n] \cap alive = {}
    BY <1>1, <2>1 DEF NoneSuspected
  <2> QED BY <2>2, <2>3, <2>4, <2>5
<1> QED
  BY <1>3, <1>4, <1>5

\* Steps that only take packets and calls away.
LEMMA LessKeeps ==
    ASSUME IInv, OwnInv, GoodInv, Fewer, LookupsGoOn, packets' \subseteq packets,
           \A n \in Node : pending'[n] \subseteq pending[n], delivered' = delivered
    PROVE  OwnInv' /\ GoodInv' /\ AtClosest
<1>1. PICK n, k : TRUE
  OBVIOUS
<1>2. OwnEffect(k, n, Nothing)
  BY OwnNothing
<1>3. PICK failed : failed = Failed'
  OBVIOUS
<1>4. GoodEffect(failed, removed'[n], n, Nothing)
  BY DEF GoodEffect, Nothing, Effect
<1>5. Same
  BY DEF Fewer
<1>6. PICK h : h = Nothing
  OBVIOUS
<1>7. PICK ack : ack = {}
  OBVIOUS
<1>8. /\ OwnEffect(k, n, h) /\ GoodEffect(Failed', removed'[n], n, h)
      /\ \A p \in packets' : p \in packets \/ p \in h.send \/ p \in ack
      /\ \A p \in ack : p = Packet("ack", p.from, p.to, p.msg) /\ Issued(p.msg)
      /\ \A p \in ack : p.type = "ack"
      /\ \A x \in Node : \A c \in pending'[x] : c \in pending[x] \/ c \in h.wait
      /\ \A x \in Node : \A c \in pending'[x] : c \in pending[x] \/ (x = n /\ c \in h.wait)
  BY <1>2, <1>3, <1>4, <1>6, <1>7
<1>9. OwnInv'
  BY <1>5, <1>6, <1>8, StepOwn
<1>10. GoodInv'
  BY <1>8, StepGood
<1> QED
  BY <1>9, <1>10 DEF AtClosest

LEMMA StartMoves ==
    ASSUME IInv, OwnInv, NEW i \in Requests, Start(i)
    PROVE  \E e, h : /\ e = Sent(i)
                     /\ Moves(config.requests[i].src, [id |-> i, kind |-> config.requests[i].kind], e, h, {}, {}, {})
<1>1. /\ config.requests[i].src \in alive /\ lookup[i].state \in {"new", "waiting"} /\ Emits(i)
      /\ Same /\ UNCHANGED <<alive, removed, stranded>>
  BY DEF Start, Same
<1>2. EffectOK(config.requests[i].src, Sent(i))
  BY SentOK DEF IInv
<1> QED
  BY <1>1, <1>2, EmitsMoves

LEMMA UsesSame ==
    ASSUME config \in Config, NEW bound \in {"failures", "losses", "early"}, Uses(bound) \/ UNCHANGED config
    PROVE  Same
<1>1. CASE Uses(bound)
  <2>1. config' = [config EXCEPT ![bound] = config[bound] - 1]
    BY <1>1 DEF Uses
  <2> QED BY <2>1 DEF Same, Config
<1> QED
  BY <1>1 DEF Same

LEMMA RetryMoves ==
    ASSUME IInv, OwnInv, NEW i \in Requests, HandleLookupTimeout(i), lookup[i].retries > 0
    PROVE  \E e, h : /\ e = Sent(i)
                     /\ Moves(config.requests[i].src, [id |-> i, kind |-> config.requests[i].kind], e, h, {}, {}, {})
<1>1. /\ config.requests[i].src \in alive /\ lookup[i].state \in {"new", "waiting"} /\ Emits(i)
      /\ UNCHANGED <<alive, removed, stranded>>
  BY DEF HandleLookupTimeout
<1>2. Same
  BY UsesSame DEF HandleLookupTimeout, IInv
<1>3. EffectOK(config.requests[i].src, Sent(i))
  BY SentOK DEF IInv
<1> QED
  BY <1>1, <1>2, <1>3, EmitsMoves

LEMMA GivesUp ==
    ASSUME IInv, OwnInv, NEW i \in Requests, HandleLookupTimeout(i), ~(lookup[i].retries > 0)
    PROVE  /\ Fewer /\ LookupsGoOn /\ UNCHANGED <<packets, pending, delivered, alive, removed, stranded>>
           /\ \A j \in Requests : Done(j) => Done(j)'
           /\ \A j \in Requests : lookup'[j].state = "new" => lookup[j].state = "new"
<1>1. /\ UNCHANGED <<packets, pending, delivered, alive, removed, stranded>>
      /\ lookup' = [lookup EXCEPT ![i] = [lookup[i] EXCEPT !.state = "failed"]]
  BY DEF HandleLookupTimeout
<1>2. Same
  BY UsesSame DEF HandleLookupTimeout, IInv
<1>3. lookup \in [Requests -> LookupType]
  BY DEF IInv, RequestsOK
<1>4. lookup'[i].state = "failed" /\ \A j \in Requests : j # i => lookup'[j] = lookup[j]
  BY <1>1, <1>3 DEF LookupType
<1> QED
  BY <1>1, <1>2, <1>4 DEF Fewer, LookupsGoOn, OwnInv, Done

\* A step that handles nothing.
LEMMA ResponseTakes ==
    ASSUME IInv, OwnInv, NEW p \in packets, HandleNextHopResponse(p)
    PROVE  /\ Fewer /\ LookupsGoOn
           /\ packets' = packets \ {p} /\ p.to \in alive
           /\ \A n \in Node : pending'[n] = IF n = p.to THEN pending[n] \ {[dest |-> p.from, msg |-> p.msg]} ELSE pending[n]
           /\ UNCHANGED <<config, alive, removed, lookup, delivered, stranded>>
<1>1. /\ packets' = packets \ {p} /\ p.to \in alive
      /\ pending' = [pending EXCEPT ![p.to] = pending[p.to] \ {[dest |-> p.from, msg |-> p.msg]}]
      /\ UNCHANGED <<config, alive, removed, lookup, delivered, stranded>>
  BY DEF HandleNextHopResponse
<1>2. CallsOK
  BY DEF IInv
<1>3. pending' = [n \in Node |-> IF n = p.to THEN pending[n] \ {[dest |-> p.from, msg |-> p.msg]} ELSE pending[n]]
  BY <1>1, <1>2 DEF CallsOK
<1> QED
  BY <1>1, <1>3 DEF Fewer, Same, LookupsGoOn, OwnInv

LEMMA FailTakes ==
    ASSUME IInv, OwnInv, NEW n \in Node, Fail(n)
    PROVE  /\ Fewer /\ LookupsGoOn
           /\ n \in alive /\ alive' = alive \ {n}
           /\ stranded' = stranded \cup {c.msg.id : c \in pending[n]}
                            \cup {p.msg.id : p \in {q \in packets : q.type = "app" /\ q.to = n}}
           /\ \A x \in Node : pending'[x] = IF x = n THEN {} ELSE pending[x]
           /\ UNCHANGED <<removed, packets, lookup, delivered>>
<1>1. /\ n \in alive /\ alive' = alive \ {n} /\ pending' = [pending EXCEPT ![n] = {}]
      /\ stranded' = stranded \cup {c.msg.id : c \in pending[n]}
                            \cup {p.msg.id : p \in {q \in packets : q.type = "app" /\ q.to = n}}
      /\ UNCHANGED <<removed, packets, lookup, delivered>>
  BY DEF Fail
<1>2. CallsOK
  BY DEF IInv
<1>3. pending' = [x \in Node |-> IF x = n THEN {} ELSE pending[x]]
  BY <1>1, <1>2 DEF CallsOK
<1>4. Same
  BY UsesSame DEF Fail, IInv
<1> QED
  BY <1>1, <1>3, <1>4 DEF Fewer, LookupsGoOn, OwnInv

LEMMA GoneTakes ==
    ASSUME IInv, OwnInv, NEW p \in packets, Drop(p) \/ Lose(p)
    PROVE  /\ Fewer /\ LookupsGoOn
           /\ p.to \notin alive \/ p.type # "app"
           /\ packets' = packets \ {p} /\ UNCHANGED <<alive, removed, pending, lookup, delivered, stranded>>
<1>1. /\ packets' = packets \ {p} /\ UNCHANGED <<alive, removed, pending, lookup, delivered, stranded>>
      /\ p.to \notin alive \/ p.type # "app"
  BY DEF Drop, Lose
<1>2. Same
  BY UsesSame DEF Drop, Lose, IInv
<1> QED
  BY <1>1, <1>2 DEF Fewer, LookupsGoOn, OwnInv

LEMMA StepKeeps ==
    ASSUME IInv, OwnInv, GoodInv, Next
    PROVE  OwnInv' /\ GoodInv' /\ AtClosest
<1>1. ASSUME NEW i \in Requests, Start(i)
      PROVE  OwnInv' /\ GoodInv' /\ AtClosest
  <2> DEFINE n == config.requests[i].src
             k == [id |-> i, kind |-> config.requests[i].kind]
  <2>1. PICK e, h : Moves(n, k, e, h, {}, {}, {})
    BY <1>1, StartMoves
  <2> HIDE DEF n, k
  <2> QED BY <2>1, MovesKeep
<1>2. ASSUME NEW i \in Requests, HandleLookupTimeout(i)
      PROVE  OwnInv' /\ GoodInv' /\ AtClosest
  <2> DEFINE n == config.requests[i].src
             k == [id |-> i, kind |-> config.requests[i].kind]
  <2>1. CASE lookup[i].retries > 0
    <3>1. PICK e, h : Moves(n, k, e, h, {}, {}, {})
      BY <1>2, <2>1, RetryMoves
    <3> HIDE DEF n, k
    <3> QED BY <3>1, MovesKeep
  <2>2. CASE ~(lookup[i].retries > 0)
    <3>1. /\ Fewer /\ LookupsGoOn /\ UNCHANGED <<packets, pending, delivered>>
      BY <1>2, <2>2, GivesUp
    <3> QED BY <3>1, LessKeeps
  <2> QED BY <2>1, <2>2
<1>3. ASSUME NEW p \in packets, HandleRouteMessage(p)
      PROVE  OwnInv' /\ GoodInv' /\ AtClosest
  <2> DEFINE a == Packet("ack", p.to, p.from, p.msg)
             ack == IF config.acks THEN {a} ELSE {}
  <2>1. PICK e, h : Moves(p.to, p.msg, e, h, {p}, {}, ack)
    BY <1>3, HandleRouteMessageMoves
  <2>2. a = Packet("ack", a.from, a.to, a.msg) /\ Issued(a.msg)
    BY DEF Packet, OwnInv, PacketOwn
  <2>3. \A q \in ack : q = Packet("ack", q.from, q.to, q.msg) /\ Issued(q.msg)
    <3> HIDE DEF a
    <3> QED BY <2>2
  <2> HIDE DEF ack
  <2> QED BY <2>1, <2>3, MovesKeep
<1>4. ASSUME NEW p \in packets, HandleNextHopResponse(p)
      PROVE  OwnInv' /\ GoodInv' /\ AtClosest
  <2>1. /\ Fewer /\ LookupsGoOn /\ packets' \subseteq packets /\ delivered' = delivered
        /\ \A n \in Node : pending'[n] \subseteq pending[n]
    BY <1>4, ResponseTakes
  <2> QED BY <2>1, LessKeeps
<1>5. ASSUME NEW p \in packets, HandleDirectResponse(p)
      PROVE  OwnInv' /\ GoodInv' /\ AtClosest
  <2>1. PICK e, h : Moves(p.to, p.msg, e, h, {p}, {}, {})
    BY <1>5, HandleDirectResponseMoves
  <2> QED BY <2>1, MovesKeep
<1>6. ASSUME NEW p \in packets, HandleForward(p)
      PROVE  OwnInv' /\ GoodInv' /\ AtClosest
  <2>1. PICK e, h : Moves(p.to, p.msg, e, h, {p}, {}, {})
    BY <1>6, HandleForwardMoves
  <2> QED BY <2>1, MovesKeep
<1>7. ASSUME NEW p \in packets, Drop(p) \/ Lose(p)
      PROVE  OwnInv' /\ GoodInv' /\ AtClosest
  <2>1. Fewer /\ LookupsGoOn /\ packets' \subseteq packets /\ delivered' = delivered /\ pending' = pending
    BY <1>7, GoneTakes
  <2> QED BY <2>1, LessKeeps
<1>8. ASSUME NEW n \in Node, Fail(n)
      PROVE  OwnInv' /\ GoodInv' /\ AtClosest
  <2>1. /\ Fewer /\ LookupsGoOn /\ packets' \subseteq packets /\ delivered' = delivered
        /\ \A x \in Node : pending'[x] \subseteq pending[x]
    BY <1>8, FailTakes
  <2> QED BY <2>1, LessKeeps
<1>9. ASSUME NEW n \in Node, NEW c \in pending[n], HandleNextHopTimeout(n, c)
      PROVE  OwnInv' /\ GoodInv' /\ AtClosest
  <2>1. PICK e, h : Moves(n, c.msg, e, h, {}, {c}, {})
    BY <1>9, HandleNextHopTimeoutMoves
  <2> QED BY <2>1, MovesKeep
<1> QED
  BY <1>1, <1>2, <1>3, <1>4, <1>5, <1>6, <1>7, <1>8, <1>9 DEF Next, Arrive

LEMMA StutterKeeps ==
    ASSUME IInv, OwnInv, GoodInv, UNCHANGED vars
    PROVE  OwnInv' /\ GoodInv' /\ AtClosest
<1>1. /\ Fewer /\ LookupsGoOn /\ packets' \subseteq packets /\ delivered' = delivered
      /\ \A x \in Node : pending'[x] \subseteq pending[x]
  BY DEF vars, Fewer, Same, LookupsGoOn, OwnInv
<1> QED
  BY <1>1, LessKeeps

LEMMA InitKeeps == Init => OwnInv /\ GoodInv
<1> SUFFICES ASSUME Init PROVE OwnInv /\ GoodInv
  OBVIOUS
<1>1. packets = {} /\ (\A n \in Node : pending[n] = {}) /\ \A i \in Requests : lookup[i].state = "new"
  BY DEF Init
<1> QED
  BY <1>1 DEF OwnInv, GoodInv

\* Every message gets closer to the key of its request, and has the hops that it takes to get there...
THEOREM GetsCloser == Spec => [](OwnInv /\ GoodInv)
<1>1. IInv /\ OwnInv /\ GoodInv /\ [Next]_vars => (OwnInv /\ GoodInv)'
  BY StepKeeps, StutterKeeps
<1> QED
  BY <1>1, InitKeeps, Invariance, PTL DEF Spec

\* ... so that it is handled by the node that has the key.
THEOREM ClosestHandles == Spec => HandledAtClosest
<1>1. IInv /\ OwnInv /\ GoodInv /\ [Next]_vars =>
        [\A i \in Requests : \A n \in delivered'[i] \ delivered[i] :
            LeadToKey' /\ NoneSuspected' =>
                n = config.requests[i].key \/ config.requests[i].key \notin alive]_vars
  BY StepKeeps DEF AtClosest
<1> QED
  BY <1>1, Invariance, GetsCloser, PTL DEF Spec, HandledAtClosest

(***************************************************************************)
(* Nothing that is acknowledged is lost                                    *)
(***************************************************************************)
\* The messages with a node: the application was shown them, or no acknowledgement is on its way.
Closed(n, c) == Packet("ack", c.dest, n, c.msg) \in packets
WithNode(n) == {p.msg : p \in {q \in packets : q.type = "app" /\ q.to = n}}
    \cup {c.msg : c \in {d \in pending[n] : ~Closed(n, d)}}

\* A message of the request and the stream is with a node, not further from its end than r.
Kept(i, s, r) ==
    /\ r \in Int
    /\ \E n \in alive : \E m \in WithNode(n) :
        m.id = i /\ Stream(m) = s /\ Height(n, m) \in Nat /\ Height(n, m) <= r

\* It was handled, and the answer that is due is with a node or at the caller.
Ended(i) ==
    /\ delivered[i] # {}
    /\ Due(i, Failed) => Done(i) \/ \E s \in {"answer", "route"} : \E r \in Nat : Kept(i, s, r)

Safe(i, s, r) ==
    IF s = "ask" THEN Kept(i, s, r) \/ Ended(i) ELSE Due(i, Failed) => Done(i) \/ Kept(i, s, r)

\* A request that was sent is with a node or was handled.  What was acknowledged is with a node
\* that is closer, or was handled.
SafeInv == LeadToKey /\ config.acks =>
    /\ \A i \in Requests \ stranded : lookup[i].state = "new" \/ \E r \in Nat : Safe(i, "ask", r)
    /\ \A p \in packets : p.type = "ack" /\ p.msg.id \notin stranded =>
        Safe(p.msg.id, Stream(p.msg), Below(p.from, p.msg))

\* The same in the next state.
LEMMA KeptMoreThen ==
    ASSUME NEW i, NEW s, NEW r, NEW t \in Int, r <= t, Kept(i, s, r)'
    PROVE  Kept(i, s, t)'
<1>1. PICK n \in alive' : \E m \in WithNode(n)' :
        m.id = i /\ Stream(m)' = s /\ Height(n, m)' \in Nat /\ Height(n, m)' <= r
  BY DEF Kept
<1>2. PICK m \in WithNode(n)' : m.id = i /\ Stream(m)' = s /\ Height(n, m)' \in Nat /\ Height(n, m)' <= r
  BY <1>1
<1>3. Height(n, m)' <= t
  <2>1. r \in Int
    BY DEF Kept
  <2>2. PICK h : h = Height(n, m)'
    OBVIOUS
  <2>3. h \in Nat /\ h <= r
    BY <1>2, <2>2
  <2>4. h <= t
    BY <2>1, <2>3
  <2> QED BY <2>2, <2>4
<1> QED
  BY <1>1, <1>2, <1>3 DEF Kept

LEMMA SafeMoreThen ==
    ASSUME NEW i, NEW s, NEW r, NEW t \in Int, r <= t, Safe(i, s, r)'
    PROVE  Safe(i, s, t)'
<1>1. Kept(i, s, r)' => Kept(i, s, t)'
  BY KeptMoreThen
<1> QED
  BY <1>1 DEF Safe

\* What can be lost in a step: messages of the request j and the stream s0 as far as r0.
Loses(j, s0, r0) ==
    \A i, s, r : i \notin stranded' /\ Kept(i, s, r) /\ ~(i = j /\ s = s0 /\ r >= r0) => Kept(i, s, r)'

\* What goes on in every step.
GoesOn ==
    /\ Fewer /\ stranded \subseteq stranded'
    /\ \A i \in Requests : (Done(i) => Done(i)') /\ delivered[i] \subseteq delivered'[i]

\* Whatever else was safe stays so.
LEMMA OthersStay ==
    ASSUME GoesOn, NEW j, NEW s0, NEW r0, Loses(j, s0, r0), NEW i \in Requests \ stranded', NEW s, NEW r, Safe(i, s, r),
           ~(i = j /\ s = s0 /\ r >= r0), i = j => s0 = "ask" \/ s # "ask"
    PROVE  Safe(i, s, r)'
<1>1. /\ \A x, f : Due(x, f)' <=> Due(x, f)
      /\ Failed \subseteq Failed'
  BY SameDue, FewerFacts DEF GoesOn, Fewer
<1>2. Due(i, Failed)' => Due(i, Failed)
  <2>1. PICK failed : failed = Failed'
    OBVIOUS
  <2>2. PICK before : before = Failed
    OBVIOUS
  <2>3. before \subseteq failed
    BY <1>1, <2>1, <2>2
  <2>4. Due(i, failed) => Due(i, before)
    BY <2>3 DEF Due
  <2> QED BY <1>1, <2>1, <2>2, <2>4
<1>3. (Done(i) => Done(i)') /\ (delivered[i] # {} => delivered'[i] # {})
  BY DEF GoesOn
<1>4. Kept(i, s, r) => Kept(i, s, r)'
  BY DEF Loses
<1>5. CASE s # "ask"
  BY <1>2, <1>3, <1>4, <1>5 DEF Safe
<1>6. CASE s = "ask" /\ Kept(i, s, r)
  BY <1>4, <1>6 DEF Safe
<1>7. CASE s = "ask" /\ Ended(i)
  <2>1. i # j \/ s0 = "ask"
    BY <1>7
  <2>2. ASSUME NEW z \in {"answer", "route"}, NEW y \in Nat, Kept(i, z, y)
        PROVE  Kept(i, z, y)'
    BY <2>1, <2>2 DEF Loses
  <2>3. Ended(i)'
    BY <1>2, <1>3, <1>7, <2>2 DEF Ended
  <2> QED BY <1>7, <2>3 DEF Safe
<1> QED
  BY <1>5, <1>6, <1>7 DEF Safe

\* When the lost message itself is safe, everything is.
LEMMA AllStay ==
    ASSUME GoesOn, NEW j, NEW s0, NEW r0 \in Int, Loses(j, s0, r0), j \notin stranded' => Safe(j, s0, r0)',
           NEW i \in Requests \ stranded', NEW s, NEW r, Safe(i, s, r)
    PROVE  Safe(i, s, r)'
<1>1. CASE ~(i = j /\ s = s0 /\ r >= r0) /\ (i = j => s0 = "ask" \/ s # "ask")
  BY <1>1, OthersStay
<1>2. /\ \A x, f : Due(x, f)' <=> Due(x, f)
      /\ Failed \subseteq Failed'
  BY SameDue, FewerFacts DEF GoesOn, Fewer
<1>3. Due(i, Failed)' => Due(i, Failed)
  <2>1. PICK failed : failed = Failed'
    OBVIOUS
  <2>2. PICK before : before = Failed
    OBVIOUS
  <2>3. before \subseteq failed
    BY <1>2, <2>1, <2>2
  <2>4. Due(i, failed) => Due(i, before)
    BY <2>3 DEF Due
  <2> QED BY <1>2, <2>1, <2>2, <2>4
<1>4. (Done(i) => Done(i)') /\ (delivered[i] # {} => delivered'[i] # {})
  BY DEF GoesOn
<1>5. ASSUME i = j, NEW z \in {"answer", "route"}, NEW y \in Nat, Kept(i, z, y), Due(i, Failed)'
      PROVE  Done(i)' \/ Kept(i, z, y)'
  <2>1. CASE ~(z = s0 /\ y >= r0)
    BY <1>5, <2>1 DEF Loses
  <2>2. CASE z = s0 /\ y >= r0
    <3>1. Safe(j, s0, r0)' /\ s0 # "ask"
      BY <1>5, <2>2
    <3>2. Done(i)' \/ Kept(i, s0, r0)'
      BY <1>5, <3>1 DEF Safe
    <3>3. Kept(i, s0, r0)' => Kept(i, z, y)'
      BY <2>2, KeptMoreThen
    <3> QED BY <3>2, <3>3
  <2> QED BY <2>1, <2>2
<1>6. i = j /\ Ended(i) => Ended(i)'
  BY <1>3, <1>4, <1>5 DEF Ended
<1>7. CASE i = j /\ s = "ask"
  <2>1. CASE Ended(i)
    BY <1>6, <1>7, <2>1 DEF Safe
  <2>2. CASE Kept(i, s, r) /\ s0 # "ask"
    BY <1>7, <2>2 DEF Loses, Safe
  <2>3. CASE Kept(i, s, r) /\ s0 = "ask"
    <3>1. CASE ~(r >= r0)
      BY <1>1, <1>7, <2>3, <3>1
    <3>2. CASE r >= r0
      <4>1. r \in Int /\ Safe(j, s0, r0)'
        BY <1>7, <2>3 DEF Kept
      <4> QED BY <1>7, <2>3, <3>2, <4>1, SafeMoreThen
    <3> QED BY <3>1, <3>2
  <2> QED BY <1>7, <2>1, <2>2, <2>3 DEF Safe
<1>8. CASE i = j /\ s # "ask" /\ s = s0 /\ r >= r0
  <2>1. CASE Kept(i, s, r)
    <3>1. r \in Int /\ Safe(j, s0, r0)'
      BY <1>8, <2>1 DEF Kept
    <3> QED BY <1>8, <3>1, SafeMoreThen
  <2>2. CASE ~Kept(i, s, r)
    BY <1>3, <1>4, <1>8, <2>2 DEF Safe
  <2> QED BY <2>1, <2>2
<1> QED
  BY <1>1, <1>7, <1>8

\* Steps in which nothing is lost.
LEMMA NothingStays ==
    ASSUME GoesOn, config \in Config, \A i, s, r : i \notin stranded' /\ Kept(i, s, r) => Kept(i, s, r)',
           NEW i \in Requests \ stranded', NEW s, NEW r, Safe(i, s, r)
    PROVE  Safe(i, s, r)'
<1>1. i \in Nat
  BY RequestFields
<1>2. PICK j : j = i + 1
  OBVIOUS
<1>3. PICK r0 : r0 = 0
  OBVIOUS
<1>4. PICK s0 : s0 = "ask"
  OBVIOUS
<1>5. Loses(j, s0, r0) /\ i # j
  BY <1>1, <1>2 DEF Loses
<1> QED
  <2>1. /\ GoesOn /\ Loses(j, s0, r0) /\ i \in Requests \ stranded' /\ Safe(i, s, r)
        /\ ~(i = j /\ s = s0 /\ r >= r0) /\ (i = j => s0 = "ask" \/ s # "ask")
    BY <1>5
  <2> QED BY ONLY <2>1, OthersStay

\* How far a message that is on its way has to go is a number.
LEMMA Measured ==
    ASSUME config \in Config, LeadToKey, NEW failed, NEW n \in Node, NEW dest \in Node,
           NEW m, Own(m), Going(failed, n, dest, m)
    PROVE  Height(n, m) \in Nat /\ Below(dest, m) \in Int /\ Below(dest, m) < Height(n, m)
<1>1. m \in MessageType /\ m.nextHops \in Seq(Node) /\ Len(m.nextHops) \in Nat
  BY Fields DEF Own
<1>2. CASE Stream(m) = "route"
  <2>1. m.nextHops # <<>>
    BY <1>2 DEF Stream
  <2>2. Len(m.nextHops) # 0
    BY <1>1, <2>1, EmptySeq
  <2> QED BY <1>1, <1>2, <2>2 DEF Height, Below
<1>3. CASE Stream(m) # "route"
  <2>1. m.key \in Node /\ Distance(m.key)[dest] < Distance(m.key)[n]
    BY <1>3 DEF Going, Onward
  <2>2. PICK gone : gone = {}
    OBVIOUS
  <2>3. Leads(gone)
    BY <2>2 DEF Leads, LeadToKey
  <2>4. Distance(m.key)[dest] \in Nat /\ Distance(m.key)[n] \in Nat
    BY <2>1, <2>3, Distances
  <2> QED BY <1>3, <2>1, <2>4 DEF Height, Below
<1> QED
  BY <1>2, <1>3

LEMMA RestsMeasured ==
    ASSUME config \in Config, LeadToKey, NEW gone, NEW from, NEW n \in Node, NEW m, Rests(gone, from, n, m)
    PROVE  Height(n, m) \in Nat
<1>1. m.key \in Node /\ Stream(m) # "route"
  BY DEF Rests, Stream
<1>2. PICK none : none = {}
  OBVIOUS
<1>3. Leads(none)
  BY <1>2 DEF Leads, LeadToKey
<1>4. Distance(m.key)[n] \in Nat
  BY <1>1, <1>3, Distances
<1> QED
  BY <1>1, <1>4 DEF Height

LEMMA MovesGoOn ==
    ASSUME NEW n, NEW k, NEW e, NEW h, NEW old, NEW over, NEW ack, Moves(n, k, e, h, old, over, ack)
    PROVE  GoesOn
BY DEF Moves, GoesOn

\* What can be lost in a step: what the node had of the message that it handles, and the call
\* of which it acknowledges the message.
LEMMA MovesLose ==
    ASSUME IInv, OwnInv, NEW n, NEW k, NEW e, NEW h, NEW old, NEW over, NEW ack,
           Moves(n, k, e, h, old, over, ack), NEW s0, NEW r0 \in Int,
           \A p \in old : p.type = "app" => p.to = n /\ p.msg.id = k.id /\ Stream(p.msg) = s0
                                            /\ (Height(n, p.msg) \in Nat => r0 <= Height(n, p.msg)),
           \A c \in over : c.msg.id = k.id /\ Stream(c.msg) = s0
                           /\ (Height(n, c.msg) \in Nat => r0 <= Height(n, c.msg)),
           \A a \in ack : a.msg.id = k.id /\ Stream(a.msg) = s0
                           /\ (Height(a.to, a.msg) \in Nat => r0 <= Height(a.to, a.msg))
    PROVE  Loses(k.id, s0, r0)
<1>1. SUFFICES ASSUME NEW i, NEW s, NEW r, Kept(i, s, r), ~(i = k.id /\ s = s0 /\ r >= r0)
               PROVE  Kept(i, s, r)'
  BY DEF Loses
<1>2. PICK x \in alive : \E m \in WithNode(x) :
        m.id = i /\ Stream(m) = s /\ Height(x, m) \in Nat /\ Height(x, m) <= r
  BY <1>1 DEF Kept
<1>3. PICK m \in WithNode(x) : m.id = i /\ Stream(m) = s /\ Height(x, m) \in Nat /\ Height(x, m) <= r
  BY <1>2
<1>4. /\ n \in alive /\ alive' = alive /\ Same /\ x \in Node /\ OwnEffect(k, n, h)
      /\ packets' = (packets \ old) \cup h.send \cup ack
      /\ pending' = [pending EXCEPT ![n] = (pending[n] \ over) \cup h.wait]
      /\ DOMAIN pending = Node /\ r \in Int
  BY <1>1 DEF Moves, Does, Fewer, IInv, CallsOK, NodesOK, Kept
<1>5. /\ Height(x, m)' = Height(x, m) /\ Stream(m)' = Stream(m)
  BY <1>4, SameHeight
<1>6. ASSUME m.id = k.id, Stream(m) = s0, r0 <= Height(x, m)
      PROVE  FALSE
  <2>1. PICK t : t = Height(x, m)
    OBVIOUS
  <2>2. t \in Nat /\ t <= r /\ r0 <= t
    BY <1>3, <1>6, <2>1
  <2>3. r >= r0
    BY <1>4, <2>2
  <2> QED BY <1>1, <1>3, <1>6, <2>3
<1>7. m \in WithNode(x)'
  <2>1. CASE \E p \in packets : p.type = "app" /\ p.to = x /\ p.msg = m
    <3>1. PICK p \in packets : p.type = "app" /\ p.to = x /\ p.msg = m
      BY <2>1
    <3>2. p \notin old
      BY <1>3, <1>6, <3>1
    <3>3. p \in packets'
      BY <1>4, <3>1, <3>2
    <3> QED BY <3>1, <3>3 DEF WithNode
  <2>2. CASE \E c \in pending[x] : ~Closed(x, c) /\ c.msg = m
    <3>1. PICK c \in pending[x] : ~Closed(x, c) /\ c.msg = m
      BY <2>2
    <3>2. ~(x = n /\ c \in over)
      BY <1>3, <1>6, <3>1
    <3>3. c \in pending'[x]
      BY <1>4, <3>1, <3>2
    <3> DEFINE a == Packet("ack", c.dest, x, c.msg)
    <3>4. a.to = x /\ a.msg = m /\ a.type = "ack"
      BY <3>1 DEF Packet
    <3>5. a \notin packets
      BY <3>1 DEF Closed
    <3> HIDE DEF a
    <3>6. a \notin h.send
      BY <1>4, <3>4 DEF OwnEffect, OwnPacket
    <3>7. a \notin ack
      BY <1>3, <1>6, <3>4
    <3>8. a \notin packets'
      BY <1>4, <3>5, <3>6, <3>7
    <3>9. ~Closed(x, c)'
      BY <3>8 DEF Closed, a
    <3> QED BY <3>1, <3>3, <3>9 DEF WithNode
  <2> QED BY <2>1, <2>2 DEF WithNode
<1> QED
  BY <1>3, <1>4, <1>5, <1>7 DEF Kept

\* What the node has to send goes on, or was acknowledged before.
LEMMA WaitSafe ==
    ASSUME NEW n, NEW k, NEW e, NEW h, NEW old, NEW over, NEW ack, NEW s0, NEW r0 \in Int,
           NEW s, NEW r \in Int, NEW c \in h.wait,
           IInv, IInv', OwnInv, SafeInv, LeadToKey', config.acks, Moves(n, k, e, h, old, over, ack),
           k.id \notin stranded', Loses(k.id, s0, r0), s0 = "ask" \/ s # "ask", s = s0 => r <= r0,
           s # "ask" => Due(k.id, Failed'), Stream(c.msg) = s,
           Height(n, c.msg) <= r, Below(c.dest, c.msg) < r, Packet("ack", c.dest, n, c.msg) \notin ack
    PROVE  Safe(k.id, s, r)'
<1>1. /\ n \in alive /\ alive' = alive /\ Same /\ n \in Node /\ OwnEffect(k, n, h)
      /\ stranded' = stranded /\ Fewer
      /\ packets' = (packets \ old) \cup h.send \cup ack
      /\ pending' = [pending EXCEPT ![n] = (pending[n] \ over) \cup h.wait]
      /\ DOMAIN pending = Node /\ config \in Config
  BY DEF Moves, Does, Fewer, IInv, CallsOK, NodesOK
<1>2. c \in pending'[n]
  BY <1>1
<1>3. Own(c.msg) /\ c.msg.id = k.id /\ k.id \in Requests
  BY <1>1 DEF OwnEffect, Follows, Own
<1>4. c.dest \in Node
  BY <1>1, <1>2 DEF IInv, CallsOK, Carried
<1>5. LeadToKey
  BY <1>1, FewerFacts
<1>6. Height(n, c.msg) \in Nat /\ Below(c.dest, c.msg) \in Int
  <2>1. PICK failed : failed = Failed'
    OBVIOUS
  <2>2. Matters(failed, c.msg) /\ GoodEffect(failed, removed'[n], n, h)
    <3>1. Matters(failed, c.msg)
      BY <1>3, <2>1 DEF Matters, Stream
    <3> QED BY <2>1, <3>1 DEF Moves, DoesGood
  <2>3. Going(failed, n, c.dest, c.msg)
    BY <2>2 DEF GoodEffect
  <2> QED BY <1>1, <1>3, <1>4, <1>5, <2>3, Measured
<1>7. /\ Height(n, c.msg)' = Height(n, c.msg) /\ Stream(c.msg)' = Stream(c.msg)
  BY <1>1, SameHeight
<1>8. CASE ~Closed(n, c)'
  <2>1. c.msg \in WithNode(n)'
    BY <1>2, <1>8 DEF WithNode
  <2>2. Kept(k.id, s, r)'
    BY <1>1, <1>3, <1>6, <1>7, <2>1 DEF Kept
  <2> QED BY <2>2 DEF Safe
<1>9. CASE Closed(n, c)'
  <2> DEFINE a == Packet("ack", c.dest, n, c.msg)
  <2>0. PICK b : b = Below(c.dest, c.msg)
    OBVIOUS
  <2>1. a.from = c.dest /\ a.msg = c.msg /\ a.type = "ack" /\ a \in packets' /\ a \notin ack
    BY <1>9 DEF Packet, Closed
  <2> HIDE DEF a
  <2>2. a \in packets
    BY <1>1, <2>1 DEF OwnEffect, OwnPacket
  <2>3. Safe(k.id, s, b)
    BY <1>1, <1>3, <1>5, <2>0, <2>1, <2>2 DEF SafeInv
  <2>4. b \in Int /\ b < r
    BY <1>6, <2>0
  <2>5. ~(s = s0 /\ b >= r0)
    BY <2>4
  <2>6. GoesOn
    BY MovesGoOn
  <2>7. k.id \in Requests \ stranded'
    BY <1>3
  <2>8. Safe(k.id, s, b)'
    <3>1. /\ GoesOn /\ Loses(k.id, s0, r0) /\ k.id \in Requests \ stranded' /\ Safe(k.id, s, b)
          /\ ~(k.id = k.id /\ s = s0 /\ b >= r0) /\ (k.id = k.id => s0 = "ask" \/ s # "ask")
      BY <2>3, <2>5, <2>6, <2>7
    <3> QED BY ONLY <3>1, OthersStay
  <2>9. b <= r
    BY <2>4
  <2> QED BY <2>4, <2>8, <2>9, SafeMoreThen
<1> QED
  BY <1>8, <1>9

\* What is taken is safe.
LEMMA TakenSafe ==
    ASSUME IInv, IInv', OwnInv, SafeInv, LeadToKey', config.acks,
           NEW n, NEW k, NEW e, NEW h, NEW old, NEW over, NEW ack, Moves(n, k, e, h, old, over, ack),
           k.id \notin stranded', NEW s0, NEW r0 \in Int, Loses(k.id, s0, r0),
           NEW s, NEW r \in Int, s0 = "ask" \/ s # "ask", s = s0 => r <= r0,
           Takes(s, r, n, h), s # "ask" => Due(k.id, Failed'),
           s = "ask" => h = e /\ \A m \in e.here : m.kind # "lookup",
           \A c \in h.wait : Stream(c.msg) = s /\ Below(c.dest, c.msg) < r => Packet("ack", c.dest, n, c.msg) \notin ack
    PROVE  Safe(k.id, s, r)'
<1>1. /\ n \in alive /\ alive' = alive /\ Same /\ n \in Node /\ OwnEffect(k, n, h)
      /\ Fewer /\ packets' = (packets \ old) \cup h.send \cup ack /\ config \in Config
  BY DEF Moves, Does, Fewer, IInv, NodesOK
<1>2. LeadToKey
  BY <1>1, FewerFacts
<1>3. /\ \A m : Height(n, m)' = Height(n, m) /\ Stream(m)' = Stream(m)
      /\ \A x, f : Due(x, f)' <=> Due(x, f)
  BY <1>1, SameHeight, SameDue
<1>4. ASSUME NEW p \in h.send, p.type = "app", Stream(p.msg) = s, Height(n, p.msg) <= r
      PROVE  Safe(k.id, s, r)'
  <2>1. p.to = n /\ p.msg.id = k.id /\ p \in packets'
    BY <1>1, <1>4 DEF OwnEffect, OwnPacket, Follows
  <2>2. Height(n, p.msg) \in Nat
    <3>1. PICK failed : failed = Failed'
      OBVIOUS
    <3>2. GoodEffect(failed, removed'[n], n, h)
      BY <3>1 DEF Moves, DoesGood
    <3>3. PICK gone : gone = removed'[n]
      OBVIOUS
    <3>4. Rests(gone, p.from, n, p.msg)
      BY <1>4, <3>2, <3>3 DEF GoodEffect
    <3> QED BY <1>1, <1>2, <3>4, RestsMeasured
  <2>3. p.msg \in WithNode(n)'
    BY <1>4, <2>1 DEF WithNode
  <2>4. Kept(k.id, s, r)'
    BY <1>1, <1>3, <1>4, <2>1, <2>2, <2>3 DEF Kept
  <2> QED BY <2>4 DEF Safe
<1>5. ASSUME NEW c \in h.wait, Stream(c.msg) = s, Height(n, c.msg) <= r, Below(c.dest, c.msg) < r
      PROVE  Safe(k.id, s, r)'
  <2>1. c.msg.id = k.id
    BY <1>1 DEF OwnEffect, Follows
  <2>3. Packet("ack", c.dest, n, c.msg) \notin ack
    BY <1>5
  <2>4. /\ IInv /\ IInv' /\ OwnInv /\ SafeInv /\ LeadToKey' /\ config.acks
        /\ Moves(n, k, e, h, old, over, ack) /\ k.id \notin stranded' /\ r0 \in Int /\ Loses(k.id, s0, r0)
        /\ r \in Int /\ (s0 = "ask" \/ s # "ask") /\ (s = s0 => r <= r0)
        /\ c \in h.wait /\ Stream(c.msg) = s 
        /\ (s # "ask" => Due(k.id, Failed'))
        /\ Height(n, c.msg) <= r /\ Below(c.dest, c.msg) < r /\ Packet("ack", c.dest, n, c.msg) \notin ack
    BY <1>5, <2>3
  <2> QED BY ONLY <2>4, WaitSafe
<1>6. ASSUME NEW m \in h.here, s = "ask", m.kind # "answer"
      PROVE  Safe(k.id, s, r)'
  <2>1. m \in e.here /\ m.kind # "lookup" /\ Own(m) /\ m.id = k.id /\ k.id \in Requests
    BY <1>1, <1>6 DEF OwnEffect, Follows, Own
  <2>2. config.requests[k.id].kind # "lookup"
    BY <1>6, <2>1 DEF Own
  <2>3. delivered'[k.id] # {}
    BY <1>6, <2>1 DEF Moves
  <2>4. ~Due(k.id, Failed)'
    <3>1. PICK failed : failed = Failed'
      OBVIOUS
    <3>2. ~Due(k.id, failed)
      BY <2>2 DEF Due
    <3> QED BY <1>3, <3>1, <3>2
  <2> QED BY <1>6, <2>3, <2>4 DEF Safe, Ended
<1>7. ASSUME NEW m \in h.here, s # "ask", m.kind = "answer", n = config.requests[m.id].src
      PROVE  Safe(k.id, s, r)'
  <2>1. m.id = k.id
    BY <1>1 DEF OwnEffect, Follows
  <2>2. Done(k.id)'
    BY <1>7, <2>1 DEF Moves
  <2> QED BY <1>7, <2>2 DEF Safe
<1> QED
  BY <1>4, <1>5, <1>6, <1>7 DEF Takes

\* A step that handles a message leaves it safe.
LEMMA MovedSafe ==
    ASSUME IInv, IInv', OwnInv, SafeInv, LeadToKey', config.acks,
           NEW n, NEW k, NEW e, NEW h, NEW old, NEW over, NEW ack, Moves(n, k, e, h, old, over, ack),
           k.id \notin stranded', NEW s0, NEW r0 \in Int, Loses(k.id, s0, r0),
           IF k.kind = "answer" THEN s0 # "ask" ELSE s0 = "ask",
           s0 = "ask" \/ Due(k.id, Failed') => Takes(s0, r0, n, e),
           \A a \in ack : a.msg = k /\ (s0 = "ask" \/ Due(k.id, Failed') => ~(Below(a.from, a.msg) < r0))
    PROVE  Safe(k.id, s0, r0)'
<1>1. /\ Same /\ n \in Node /\ OwnEffect(k, n, e) /\ OwnEffect(k, n, h)
      /\ (\A m \in e.here : m.kind # "lookup") => h = e
  BY DEF Moves, Does, Fewer
<1>2. \A x, f : Due(x, f)' <=> Due(x, f)
  BY <1>1, SameDue
<1>3. Due(k.id, Failed)' <=> Due(k.id, Failed')
  <2>1. PICK failed : failed = Failed'
    OBVIOUS
  <2>2. Due(k.id, failed)' <=> Due(k.id, failed)
    BY <1>2
  <2> QED BY <2>1, <2>2
<1>4. CASE s0 # "ask" /\ ~Due(k.id, Failed')
  BY <1>3, <1>4 DEF Safe
<1>5. CASE (s0 = "ask" \/ Due(k.id, Failed')) /\ \A m \in e.here : m.kind # "lookup"
  <2>1. Takes(s0, r0, n, h) /\ h = e
    BY <1>1, <1>5
  <2>2. ASSUME NEW c \in h.wait, Stream(c.msg) = s0 /\ Below(c.dest, c.msg) < r0
        PROVE  Packet("ack", c.dest, n, c.msg) \notin ack
    <3> DEFINE a == Packet("ack", c.dest, n, c.msg)
    <3>1. a.from = c.dest /\ a.msg = c.msg
      BY DEF Packet
    <3> HIDE DEF a
    <3>2. a \notin ack
      BY <1>5, <2>2, <3>1
    <3> QED BY <3>2 DEF a
  <2>3. s0 # "ask" => Due(k.id, Failed')
    BY <1>5
  <2>4. r0 <= r0
    OBVIOUS
  <2>5. s0 = "ask" \/ s0 # "ask"
    OBVIOUS
  <2> QED BY <1>5, <2>1, <2>2, <2>3, <2>4, <2>5, TakenSafe
<1>6. CASE \E m \in e.here : m.kind = "lookup"
  <2>1. PICK m \in e.here : m.kind = "lookup"
    BY <1>6
  <2>2. k.kind # "answer" /\ s0 = "ask" /\ m.id = k.id /\ k.id \in Requests
    BY <1>1, <2>1 DEF OwnEffect, Follows, Own
  <2>3. delivered'[k.id] # {}
    BY <2>1, <2>2 DEF Moves
  <2>4. ASSUME Due(k.id, Failed')
        PROVE  Done(k.id)' \/ \E s \in {"answer", "route"} : \E r \in Nat : Kept(k.id, s, r)'
    <3>1. PICK s \in {"answer", "route"} : \E r \in Nat : Takes(s, r, n, h)
      BY <1>6, <2>4 DEF Moves, DoesGood
    <3>2. PICK r \in Nat : Takes(s, r, n, h)
      BY <3>1
    <3>3. ASSUME NEW c \in h.wait, Stream(c.msg) = s /\ Below(c.dest, c.msg) < r
          PROVE  Packet("ack", c.dest, n, c.msg) \notin ack
      <4> DEFINE a == Packet("ack", c.dest, n, c.msg)
      <4>1. a.msg = c.msg
        BY DEF Packet
      <4>2. c.msg.kind = "answer"
        BY <3>1, <3>3 DEF Stream
      <4> HIDE DEF a
      <4>3. a \notin ack
        BY <2>2, <4>1, <4>2
      <4> QED BY <4>3 DEF a
    <3>4. r \in Int /\ s # "ask" /\ (s0 = "ask" \/ s # "ask") /\ (s = s0 => r <= r0)
      BY <2>2, <3>1, <3>2
    <3>5. Safe(k.id, s, r)'
      BY <2>4, <3>2, <3>3, <3>4, TakenSafe
    <3> QED BY <1>3, <2>4, <3>1, <3>2, <3>4, <3>5 DEF Safe
  <2>5. Ended(k.id)'
    BY <1>3, <2>3, <2>4 DEF Ended
  <2> QED BY <2>2, <2>5 DEF Safe
<1> QED
  BY <1>4, <1>5, <1>6

\* Everything stays safe in such a step.
LEMMA MovesKeepSafe ==
    ASSUME IInv, IInv', OwnInv, SafeInv, LeadToKey', config.acks,
           NEW n, NEW k, NEW e, NEW h, NEW old, NEW over, NEW ack, Moves(n, k, e, h, old, over, ack),
           NEW s0, NEW r0 \in Int, Loses(k.id, s0, r0),
           IF k.kind = "answer" THEN s0 # "ask" ELSE s0 = "ask",
           s0 = "ask" \/ Due(k.id, Failed') => Takes(s0, r0, n, e),
           \A a \in ack : a.msg = k /\ Stream(a.msg) = s0,
           \A a \in ack : s0 = "ask" \/ Due(k.id, Failed') => r0 <= Below(a.from, a.msg) /\ Below(a.from, a.msg) \in Int,
           lookup[k.id].state = "new" => s0 = "ask" /\ r0 \in Nat
    PROVE  SafeInv'
<1>1. /\ n \in alive /\ alive' = alive /\ Same /\ n \in Node /\ OwnEffect(k, n, h)
      /\ stranded' = stranded /\ Fewer
      /\ packets' = (packets \ old) \cup h.send \cup ack
  BY DEF Moves, Does, Fewer
<1>2. LeadToKey
  BY <1>1, FewerFacts
<1>3. /\ \A m : Stream(m)' = Stream(m)
      /\ \A x, m : Below(x, m)' = Below(x, m)
      /\ Requests' = Requests
  BY <1>1, SameHeight, SameOwn
<1>4. GoesOn
  BY MovesGoOn
<1>5. ASSUME NEW a \in ack PROVE a.msg = k /\ (s0 = "ask" \/ Due(k.id, Failed') => ~(Below(a.from, a.msg) < r0))
  BY <1>5
<1>6. k.id \notin stranded' => Safe(k.id, s0, r0)'
  BY <1>5, MovedSafe
<1>7. ASSUME NEW i \in Requests \ stranded', NEW s, NEW r, Safe(i, s, r)
      PROVE  Safe(i, s, r)'
  <2>1. /\ GoesOn /\ Loses(k.id, s0, r0) /\ (k.id \notin stranded' => Safe(k.id, s0, r0)')
        /\ i \in Requests \ stranded' /\ Safe(i, s, r) /\ r0 \in Int
    BY <1>4, <1>6, <1>7
  <2> QED BY ONLY <2>1, AllStay
<1>8. ASSUME NEW i \in Requests \ stranded', lookup'[i].state # "new"
      PROVE  \E r \in Nat : Safe(i, "ask", r)'
  <2>1. CASE lookup[i].state = "new"
    <3>1. i = k.id
      BY <1>8, <2>1 DEF Moves
    <3> QED BY <1>6, <1>8, <2>1, <3>1
  <2>2. CASE lookup[i].state # "new"
    <3>1. PICK r \in Nat : Safe(i, "ask", r)
      BY <1>1, <1>2, <2>2 DEF SafeInv
    <3> QED BY <1>7, <3>1
  <2> QED BY <2>1, <2>2
<1>9. ASSUME NEW p \in packets', p.type = "ack", p.msg.id \notin stranded'
      PROVE  Safe(p.msg.id, Stream(p.msg), Below(p.from, p.msg))'
  <2>1. PICK s : s = Stream(p.msg)
    OBVIOUS
  <2>2. PICK r : r = Below(p.from, p.msg)
    OBVIOUS
  <2>3. Stream(p.msg)' = s /\ Below(p.from, p.msg)' = r
    BY <1>3, <2>1, <2>2
  <2>4. Safe(p.msg.id, s, r)'
    <3>1. CASE p \in packets
      <4>1. p.msg.id \in Requests
        BY <3>1 DEF OwnInv, PacketOwn, Issued, Own
      <4>2. Safe(p.msg.id, s, r)
        BY <1>1, <1>2, <1>9, <2>1, <2>2, <3>1 DEF SafeInv
      <4> QED BY <1>7, <1>9, <4>1, <4>2
    <3>2. CASE p \in ack
      <4>1. p.msg = k /\ s = s0
        BY <2>1, <3>2
      <4>2. Safe(k.id, s0, r0)'
        BY <1>6, <1>9, <4>1
      <4>3. CASE s0 = "ask" \/ Due(k.id, Failed')
        <5>1. r0 <= r /\ r \in Int
          BY <2>2, <3>2, <4>3
        <5>2. Safe(k.id, s0, r)'
          BY <4>2, <5>1, SafeMoreThen
        <5> QED BY <4>1, <5>2
      <4>4. CASE s0 # "ask" /\ ~Due(k.id, Failed')
        <5>1. PICK failed : failed = Failed'
          OBVIOUS
        <5>2. ~Due(k.id, failed)'
          BY <1>1, <4>4, <5>1, SameDue
        <5> QED BY <4>1, <4>4, <5>1, <5>2 DEF Safe
      <4> QED BY <4>3, <4>4
    <3>3. p \notin h.send
      BY <1>1, <1>9 DEF OwnEffect, OwnPacket
    <3> QED BY <1>1, <3>1, <3>2, <3>3
  <2> QED BY <2>3, <2>4 DEF Safe
<1> QED
  BY <1>3, <1>8, <1>9 DEF SafeInv

\* Steps in which nothing is lost or acknowledged.
LEMMA LessKeepsSafe ==
    ASSUME IInv, OwnInv, SafeInv, GoesOn, \A i, s, r : i \notin stranded' /\ Kept(i, s, r) => Kept(i, s, r)',
           \A p \in packets' : p.type = "ack" => p \in packets,
           \A i \in Requests : lookup'[i].state # "new" => lookup[i].state # "new"
    PROVE  SafeInv'
<1>1. Same /\ Fewer /\ stranded \subseteq stranded' /\ config \in Config /\ config'.acks = config.acks
  BY DEF GoesOn, Fewer, Same, IInv
<1>2. SUFFICES ASSUME LeadToKey', config.acks
               PROVE  /\ \A i \in Requests' \ stranded' : lookup'[i].state = "new" \/ \E r \in Nat : Safe(i, "ask", r)'
                      /\ \A p \in packets' : p.type = "ack" /\ p.msg.id \notin stranded' =>
                            Safe(p.msg.id, Stream(p.msg), Below(p.from, p.msg))'
  BY <1>1 DEF SafeInv
<1>3. LeadToKey
  BY <1>1, <1>2, FewerFacts
<1>4. /\ \A m : Stream(m)' = Stream(m)
      /\ \A x, m : Below(x, m)' = Below(x, m)
      /\ Requests' = Requests
  BY <1>1, SameHeight, SameOwn
<1>5. ASSUME NEW i \in Requests \ stranded', NEW s, NEW r, Safe(i, s, r)
      PROVE  Safe(i, s, r)'
  BY <1>1, <1>5, NothingStays
<1>6. ASSUME NEW i \in Requests \ stranded', lookup'[i].state # "new"
      PROVE  \E r \in Nat : Safe(i, "ask", r)'
  <2>1. PICK r \in Nat : Safe(i, "ask", r)
    BY <1>1, <1>2, <1>3, <1>6 DEF SafeInv
  <2> QED BY <1>5, <2>1
<1>7. ASSUME NEW p \in packets', p.type = "ack", p.msg.id \notin stranded'
      PROVE  Safe(p.msg.id, Stream(p.msg), Below(p.from, p.msg))'
  <2>1. PICK s : s = Stream(p.msg)
    OBVIOUS
  <2>2. PICK r : r = Below(p.from, p.msg)
    OBVIOUS
  <2>3. Stream(p.msg)' = s /\ Below(p.from, p.msg)' = r
    BY <1>4, <2>1, <2>2
  <2>4. p.msg.id \in Requests
    BY <1>7 DEF OwnInv, PacketOwn, Issued, Own
  <2>5. Safe(p.msg.id, s, r)
    BY <1>1, <1>2, <1>3, <1>7, <2>1, <2>2 DEF SafeInv
  <2>6. Safe(p.msg.id, s, r)'
    BY <1>5, <1>7, <2>4, <2>5
  <2> QED BY <2>3, <2>6 DEF Safe
<1> QED
  BY <1>4, <1>6, <1>7

\* A request that is sent is with the node that sends it, or was handled.
LEMMA RequestSafe ==
    ASSUME IInv, IInv', OwnInv, SafeInv, LeadToKey', config.acks, NEW i \in Requests, NEW e, NEW h, e = Sent(i),
           Moves(config.requests[i].src, [id |-> i, kind |-> config.requests[i].kind], e, h, {}, {}, {})
    PROVE  SafeInv'
<1> DEFINE q == config.requests[i]
<1>1. /\ config \in Config /\ q.src \in Node /\ q.key \in Node /\ q.kind \in {"lookup", "data"}
      /\ removed \in [Node -> SUBSET Node] /\ \A n \in Node : n \notin removed[n]
  BY RequestFields DEF IInv, NodesOK
<1>2. LeadToKey
  BY FewerFacts DEF Moves
<1>3. PICK n : n = q.src
  OBVIOUS
<1>4. PICK k : k = [id |-> i, kind |-> q.kind]
  OBVIOUS
<1>5. PICK r0 : r0 = Distance(q.key)[n]
  OBVIOUS
<1>6. r0 \in Nat
  <2>1. PICK gone : gone = {}
    OBVIOUS
  <2>2. Leads(gone)
    BY <1>2, <2>1 DEF LeadToKey, Leads
  <2> QED BY <1>1, <1>3, <1>5, <2>2, Distances
<1>7. config.acks => Takes("ask", r0, n, e)
  <2>1. PICK failed : failed = Failed
    OBVIOUS
  <2>2. /\ config \in Config /\ LeadToKey /\ i \in Requests /\ removed \in [Node -> SUBSET Node]
        /\ (\A x \in Node : x \notin removed[x]) /\ removed[config.requests[i].src] \subseteq failed
    BY <1>1, <1>2, <2>1 DEF Failed
  <2>3. LET p == config.requests[i]
            f == Sent(i) IN
            /\ GoodEffect(failed, removed[p.src], p.src, f)
            /\ config.acks => Takes("ask", Distance(p.key)[p.src], p.src, f)
    BY ONLY <2>2, SentGood
  <2> QED BY <1>3, <1>5, <2>3
<1>8. PICK old, over, ack : old = {} /\ over = {} /\ ack = {}
  OBVIOUS
<1>9. Moves(n, k, e, h, old, over, ack)
  BY <1>3, <1>4, <1>8
<1>10. PICK s0 : s0 = "ask"
  OBVIOUS
<1>11. Loses(k.id, s0, r0)
  <2>1. /\ IInv /\ OwnInv /\ Moves(n, k, e, h, old, over, ack) /\ r0 \in Int
        /\ \A p \in old : p.type = "app" => p.to = n /\ p.msg.id = k.id /\ Stream(p.msg) = s0
                                            /\ (Height(n, p.msg) \in Nat => r0 <= Height(n, p.msg))
        /\ \A c \in over : c.msg.id = k.id /\ Stream(c.msg) = s0
                           /\ (Height(n, c.msg) \in Nat => r0 <= Height(n, c.msg))
        /\ \A a \in ack : a.msg.id = k.id /\ Stream(a.msg) = s0
                           /\ (Height(a.to, a.msg) \in Nat => r0 <= Height(a.to, a.msg))
    BY <1>6, <1>8, <1>9
  <2> QED BY ONLY <2>1, MovesLose
<1>12. k.kind # "answer"
  BY <1>1, <1>4
<1>13. /\ IInv /\ IInv' /\ OwnInv /\ SafeInv /\ LeadToKey' /\ config.acks /\ Moves(n, k, e, h, old, over, ack)
       /\ r0 \in Int /\ Loses(k.id, s0, r0)
       /\ (IF k.kind = "answer" THEN s0 # "ask" ELSE s0 = "ask")
       /\ (s0 = "ask" \/ Due(k.id, Failed') => Takes(s0, r0, n, e))
       /\ (\A a \in ack : a.msg = k /\ Stream(a.msg) = s0)
       /\ (\A a \in ack : s0 = "ask" \/ Due(k.id, Failed') => r0 <= Below(a.from, a.msg) /\ Below(a.from, a.msg) \in Int)
       /\ (lookup[k.id].state = "new" => s0 = "ask" /\ r0 \in Nat)
  BY <1>6, <1>7, <1>8, <1>9, <1>10, <1>11, <1>12
<1> QED
  BY ONLY <1>13, MovesKeepSafe

\* nextHopRpc(): the message is safe before it is acknowledged.
LEMMA RouteSafe ==
    ASSUME IInv, IInv', OwnInv, GoodInv, SafeInv, LeadToKey', config.acks, NEW p \in packets, HandleRouteMessage(p)
    PROVE  SafeInv'
<1>1. PICK e, h :
        /\ Moves(p.to, p.msg, e, h, {p}, {}, IF config.acks THEN {Packet("ack", p.to, p.from, p.msg)} ELSE {})
        /\ LeadToKey' /\ config.acks /\ Matters(Failed', p.msg) => Takes(Stream(p.msg), Below(p.to, p.msg), p.to, e)
  BY HandleRouteMessageMoves
<1>2. PICK n, k : n = p.to /\ k = p.msg
  OBVIOUS
<1>3. PICK old, over, ack : old = {p} /\ over = {} /\ ack = {Packet("ack", p.to, p.from, p.msg)}
  OBVIOUS
<1>4. Moves(n, k, e, h, old, over, ack)
  BY <1>1, <1>2, <1>3
<1>5. PICK s0 : s0 = Stream(k)
  OBVIOUS
<1>6. \A a \in ack : a.msg = k /\ a.to = p.from /\ a.from = n
  BY <1>2, <1>3 DEF Packet
<1>7. \A q \in old : q.type # "app"
  BY <1>3 DEF HandleRouteMessage
<1>8. Own(k) /\ lookup[k.id].state # "new" /\ config \in Config /\ p.from \in Node /\ p.to \in Node /\ LeadToKey
  BY <1>2, <1>4, FewerFacts DEF OwnInv, PacketOwn, Issued, IInv, PacketOK, HandleRouteMessage, Carried, Moves
<1>9. \E r0 \in Int :
        /\ (Height(p.from, k) \in Nat => r0 <= Height(p.from, k))
        /\ (s0 = "ask" \/ Due(k.id, Failed') => Takes(s0, r0, n, e) /\ r0 <= Below(n, k) /\ Below(n, k) \in Int)
  <2>1. CASE s0 = "ask" \/ Due(k.id, Failed')
    <3>1. PICK failed : failed = Failed'
      OBVIOUS
    <3>2. PICK before : before = Failed
      OBVIOUS
    <3>3. before \subseteq failed
      BY <1>4, <3>1, <3>2, FewerFacts DEF Moves
    <3>4. Matters(failed, k)
      BY <1>5, <2>1, <3>1 DEF Matters, Stream
    <3>5. Matters(before, k)
      BY <3>3, <3>4, MattersLess
    <3>6. Going(before, p.from, p.to, k)
      BY <1>2, <1>8, <3>2, <3>5 DEF GoodInv, PacketGood, HandleRouteMessage
    <3>7. Below(p.to, k) \in Int /\ Below(p.to, k) < Height(p.from, k) /\ Height(p.from, k) \in Nat
      BY <1>8, <3>6, Measured
    <3>8. Takes(s0, Below(n, k), n, e)
      BY <1>1, <1>2, <1>5, <3>1, <3>4
    <3>9. PICK r0 : r0 = Below(n, k)
      OBVIOUS
    <3>10. r0 \in Int /\ r0 <= Height(p.from, k) /\ r0 <= Below(n, k) /\ Below(n, k) \in Int /\ Takes(s0, r0, n, e)
      BY <1>2, <3>7, <3>8, <3>9
    <3> QED BY <3>10
  <2>2. CASE s0 # "ask" /\ ~Due(k.id, Failed')
    <3>1. 0 \in Int /\ (Height(p.from, k) \in Nat => 0 <= Height(p.from, k))
      OBVIOUS
    <3> QED BY <2>2, <3>1
  <2> QED BY <2>1, <2>2
<1>10. PICK r0 \in Int :
        /\ (Height(p.from, k) \in Nat => r0 <= Height(p.from, k))
        /\ (s0 = "ask" \/ Due(k.id, Failed') => Takes(s0, r0, n, e) /\ r0 <= Below(n, k) /\ Below(n, k) \in Int)
  BY <1>9
<1>11. Loses(k.id, s0, r0)
  <2>1. /\ IInv /\ OwnInv /\ Moves(n, k, e, h, old, over, ack) /\ r0 \in Int
        /\ \A q \in old : q.type = "app" => q.to = n /\ q.msg.id = k.id /\ Stream(q.msg) = s0
                                            /\ (Height(n, q.msg) \in Nat => r0 <= Height(n, q.msg))
        /\ \A c \in over : c.msg.id = k.id /\ Stream(c.msg) = s0
                           /\ (Height(n, c.msg) \in Nat => r0 <= Height(n, c.msg))
        /\ \A a \in ack : a.msg.id = k.id /\ Stream(a.msg) = s0
                           /\ (Height(a.to, a.msg) \in Nat => r0 <= Height(a.to, a.msg))
    BY <1>3, <1>4, <1>5, <1>6, <1>7, <1>10
  <2> QED BY ONLY <2>1, MovesLose
<1>12. /\ IInv /\ IInv' /\ OwnInv /\ SafeInv /\ LeadToKey' /\ config.acks /\ Moves(n, k, e, h, old, over, ack)
       /\ r0 \in Int /\ Loses(k.id, s0, r0)
       /\ (IF k.kind = "answer" THEN s0 # "ask" ELSE s0 = "ask")
       /\ (s0 = "ask" \/ Due(k.id, Failed') => Takes(s0, r0, n, e))
       /\ (\A a \in ack : a.msg = k /\ Stream(a.msg) = s0)
       /\ (\A a \in ack : s0 = "ask" \/ Due(k.id, Failed') => r0 <= Below(a.from, a.msg) /\ Below(a.from, a.msg) \in Int)
       /\ (lookup[k.id].state = "new" => s0 = "ask" /\ r0 \in Nat)
  <2>1. IF k.kind = "answer" THEN s0 # "ask" ELSE s0 = "ask"
    BY <1>5 DEF Stream
  <2> QED BY <1>4, <1>5, <1>6, <1>8, <1>10, <1>11, <2>1
<1> QED
  BY ONLY <1>12, MovesKeepSafe

\* A handler that acknowledges nothing.
LEMMA HandlerSafe ==
    ASSUME IInv, IInv', OwnInv, SafeInv, LeadToKey', config.acks,
           NEW n, NEW k, NEW e, NEW h, NEW old, NEW over, Moves(n, k, e, h, old, over, {}),
           lookup[k.id].state # "new", NEW r0 \in Int,
           \A p \in old : p.to = n /\ p.msg = k /\ (Height(n, k) \in Nat => r0 <= Height(n, k)),
           \A c \in over : c.msg = k /\ (Height(n, k) \in Nat => r0 <= Height(n, k)),
           Stream(k) = "ask" \/ Due(k.id, Failed') => Takes(Stream(k), r0, n, e)
    PROVE  SafeInv'
<1>1. PICK s0 : s0 = Stream(k)
  OBVIOUS
<1>2. PICK ack : ack = {}
  OBVIOUS
<1>3. Loses(k.id, s0, r0)
  <2>1. /\ IInv /\ OwnInv /\ Moves(n, k, e, h, old, over, ack) /\ r0 \in Int
        /\ \A q \in old : q.type = "app" => q.to = n /\ q.msg.id = k.id /\ Stream(q.msg) = s0
                                            /\ (Height(n, q.msg) \in Nat => r0 <= Height(n, q.msg))
        /\ \A c \in over : c.msg.id = k.id /\ Stream(c.msg) = s0
                           /\ (Height(n, c.msg) \in Nat => r0 <= Height(n, c.msg))
        /\ \A a \in ack : a.msg.id = k.id /\ Stream(a.msg) = s0
                           /\ (Height(a.to, a.msg) \in Nat => r0 <= Height(a.to, a.msg))
    BY <1>1, <1>2
  <2> QED BY ONLY <2>1, MovesLose
<1>4. /\ IInv /\ IInv' /\ OwnInv /\ SafeInv /\ LeadToKey' /\ config.acks /\ Moves(n, k, e, h, old, over, ack)
      /\ r0 \in Int /\ Loses(k.id, s0, r0)
      /\ (IF k.kind = "answer" THEN s0 # "ask" ELSE s0 = "ask")
      /\ (s0 = "ask" \/ Due(k.id, Failed') => Takes(s0, r0, n, e))
      /\ (\A a \in ack : a.msg = k /\ Stream(a.msg) = s0)
      /\ (\A a \in ack : s0 = "ask" \/ Due(k.id, Failed') => r0 <= Below(a.from, a.msg) /\ Below(a.from, a.msg) \in Int)
      /\ (lookup[k.id].state = "new" => s0 = "ask" /\ r0 \in Nat)
  <2>1. IF k.kind = "answer" THEN s0 # "ask" ELSE s0 = "ask"
    BY <1>1 DEF Stream
  <2> QED BY <1>1, <1>2, <1>3, <2>1
<1> QED
  BY ONLY <1>4, MovesKeepSafe

\* The application sends the message on.
LEMMA ForwardSafe ==
    ASSUME IInv, IInv', OwnInv, GoodInv, SafeInv, LeadToKey', config.acks, NEW p \in packets, HandleForward(p)
    PROVE  SafeInv'
<1>1. PICK e, h :
        /\ Moves(p.to, p.msg, e, h, {p}, {}, {})
        /\ LeadToKey' /\ config.acks => Takes(Stream(p.msg), Height(p.to, p.msg), p.to, e)
  BY HandleForwardMoves
<1>2. PICK n, k : n = p.to /\ k = p.msg
  OBVIOUS
<1>3. PICK old, over : old = {p} /\ over = {}
  OBVIOUS
<1>4. PICK r0 : r0 = Height(n, k)
  OBVIOUS
<1>5. Moves(n, k, e, h, old, over, {})
  BY <1>1, <1>2, <1>3
<1>6. LeadToKey /\ config \in Config /\ n \in Node /\ lookup[k.id].state # "new"
  BY <1>2, <1>5, FewerFacts DEF Moves, Does, IInv, OwnInv, PacketOwn, Issued
<1>7. r0 \in Int
  <2>1. PICK gone : gone = removed[n]
    OBVIOUS
  <2>2. Rests(gone, p.from, n, k)
    BY <1>2, <1>6, <2>1 DEF GoodInv, PacketGood, HandleForward
  <2>3. Height(n, k) \in Nat
    BY <1>6, <2>2, RestsMeasured
  <2> QED BY <1>4, <2>3
<1>8. /\ IInv /\ IInv' /\ OwnInv /\ SafeInv /\ LeadToKey' /\ config.acks /\ Moves(n, k, e, h, old, over, {})
      /\ lookup[k.id].state # "new" /\ r0 \in Int
      /\ (\A q \in old : q.to = n /\ q.msg = k /\ (Height(n, k) \in Nat => r0 <= Height(n, k)))
      /\ (\A c \in over : c.msg = k /\ (Height(n, k) \in Nat => r0 <= Height(n, k)))
      /\ (Stream(k) = "ask" \/ Due(k.id, Failed') => Takes(Stream(k), r0, n, e))
  BY <1>1, <1>2, <1>3, <1>4, <1>5, <1>6, <1>7
<1> QED
  BY ONLY <1>8, HandlerSafe

\* internalHandleRpcTimeout(): the message is sent another way.
LEMMA TimeoutSafe ==
    ASSUME IInv, IInv', OwnInv, GoodInv, SafeInv, LeadToKey', config.acks,
           NEW n \in Node, NEW c \in pending[n], HandleNextHopTimeout(n, c)
    PROVE  SafeInv'
<1>1. PICK e, h :
        /\ Moves(n, c.msg, e, h, {}, {c}, {})
        /\ LeadToKey' /\ Matters(Failed', c.msg) => Takes(Stream(c.msg), Height(n, c.msg), n, e)
  BY HandleNextHopTimeoutMoves
<1>2. PICK k : k = c.msg
  OBVIOUS
<1>3. PICK old, over : old = {} /\ over = {c}
  OBVIOUS
<1>4. Moves(n, k, e, h, old, over, {})
  BY <1>1, <1>2, <1>3
<1>5. LeadToKey /\ config \in Config /\ Own(k) /\ lookup[k.id].state # "new" /\ c.dest \in Node
  BY <1>2, <1>4, FewerFacts DEF Moves, IInv, OwnInv, CallOwn, Issued, CallsOK, Carried
<1>6. \E r0 \in Int : /\ Height(n, k) \in Nat => r0 <= Height(n, k)
                      /\ Stream(k) = "ask" \/ Due(k.id, Failed') => Takes(Stream(k), r0, n, e)
  <2>1. CASE Stream(k) = "ask" \/ Due(k.id, Failed')
    <3>1. PICK failed : failed = Failed'
      OBVIOUS
    <3>2. PICK before : before = Failed
      OBVIOUS
    <3>3. before \subseteq failed
      BY <1>4, <3>1, <3>2, FewerFacts DEF Moves
    <3>4. Matters(failed, k)
      BY <2>1, <3>1 DEF Matters, Stream
    <3>5. Matters(before, k)
      BY <3>3, <3>4, MattersLess
    <3>6. Going(before, n, c.dest, k)
      BY <1>2, <1>5, <3>2, <3>5 DEF GoodInv, CallGood
    <3>7. PICK r0 : r0 = Height(n, k)
      OBVIOUS
    <3>8. r0 \in Nat
      BY <1>5, <3>6, <3>7, Measured
    <3>9. Takes(Stream(k), r0, n, e)
      BY <1>1, <1>2, <3>1, <3>4, <3>7
    <3>10. r0 \in Int /\ r0 <= r0
      BY <3>8
    <3> QED BY <3>7, <3>9, <3>10
  <2>2. CASE Stream(k) # "ask" /\ ~Due(k.id, Failed')
    <3>1. 0 \in Int /\ (Height(n, k) \in Nat => 0 <= Height(n, k))
      OBVIOUS
    <3> QED BY <2>2, <3>1
  <2> QED BY <2>1, <2>2
<1>7. PICK r0 \in Int : /\ Height(n, k) \in Nat => r0 <= Height(n, k)
                        /\ Stream(k) = "ask" \/ Due(k.id, Failed') => Takes(Stream(k), r0, n, e)
  BY <1>6
<1>8. /\ IInv /\ IInv' /\ OwnInv /\ SafeInv /\ LeadToKey' /\ config.acks /\ Moves(n, k, e, h, old, over, {})
      /\ lookup[k.id].state # "new" /\ r0 \in Int
      /\ (\A q \in old : q.to = n /\ q.msg = k /\ (Height(n, k) \in Nat => r0 <= Height(n, k)))
      /\ (\A d \in over : d.msg = k /\ (Height(n, k) \in Nat => r0 <= Height(n, k)))
      /\ (Stream(k) = "ask" \/ Due(k.id, Failed') => Takes(Stream(k), r0, n, e))
  BY <1>2, <1>3, <1>4, <1>5, <1>7
<1> QED
  BY ONLY <1>8, HandlerSafe

\* A direct answer is not what is acknowledged.
LEMMA DirectSafe ==
    ASSUME IInv, OwnInv, GoodInv, SafeInv, NEW p \in packets, HandleDirectResponse(p)
    PROVE  SafeInv'
<1>1. PICK n, k : n = p.to /\ k = p.msg
  OBVIOUS
<1>2. PICK old, over, ack : old = {p} /\ over = {} /\ ack = {}
  OBVIOUS
<1>3. PICK e, h : Moves(n, k, e, h, old, over, ack)
  BY <1>1, <1>2, HandleDirectResponseMoves
<1>4. GoesOn /\ packets' = (packets \ old) \cup h.send \cup ack /\ OwnEffect(k, n, h)
  <2>1. GoesOn
    BY <1>3, MovesGoOn
  <2> QED BY <1>3, <2>1 DEF Moves, Does
<1>5. ASSUME NEW r0 \in Int, NEW s0
      PROVE  Loses(k.id, s0, r0)
  <2>1. /\ IInv /\ OwnInv /\ Moves(n, k, e, h, old, over, ack) /\ r0 \in Int
        /\ \A q \in old : q.type = "app" => q.to = n /\ q.msg.id = k.id /\ Stream(q.msg) = s0
                                            /\ (Height(n, q.msg) \in Nat => r0 <= Height(n, q.msg))
        /\ \A c \in over : c.msg.id = k.id /\ Stream(c.msg) = s0
                           /\ (Height(n, c.msg) \in Nat => r0 <= Height(n, c.msg))
        /\ \A a \in ack : a.msg.id = k.id /\ Stream(a.msg) = s0
                           /\ (Height(a.to, a.msg) \in Nat => r0 <= Height(a.to, a.msg))
    BY <1>2, <1>3 DEF HandleDirectResponse
  <2> QED BY ONLY <2>1, MovesLose
<1>6. ASSUME NEW i, NEW s, NEW r, i \notin stranded', Kept(i, s, r)
      PROVE  Kept(i, s, r)'
  <2>1. r \in Int
    BY <1>6 DEF Kept
  <2>2. PICK r0 : r0 = r + 1
    OBVIOUS
  <2>3. r0 \in Int /\ ~(r >= r0)
    BY <2>1, <2>2
  <2>4. Loses(k.id, s, r0)
    BY <1>5, <2>3
  <2> QED BY <1>6, <2>3, <2>4 DEF Loses
<1>7. \A q \in packets' : q.type = "ack" => q \in packets
  BY <1>2, <1>4 DEF OwnEffect, OwnPacket
<1>8. \A i \in Requests : lookup'[i].state # "new" => lookup[i].state # "new"
  BY <1>1, <1>3 DEF Moves, OwnInv, PacketOwn, Issued
<1> QED
  BY <1>4, <1>6, <1>7, <1>8, LessKeepsSafe

\* What is with a node stays there when the packets and calls that it is with do.
LEMMA KeptStays ==
    ASSUME IInv, Same, NEW i, NEW s, NEW r, Kept(i, s, r),
           \A x \in alive : \A m \in WithNode(x) : m.id = i => x \in alive' /\ m \in WithNode(x)'
    PROVE  Kept(i, s, r)'
<1>1. PICK x \in alive : \E m \in WithNode(x) :
        m.id = i /\ Stream(m) = s /\ Height(x, m) \in Nat /\ Height(x, m) <= r
  BY DEF Kept
<1>2. PICK m \in WithNode(x) : m.id = i /\ Stream(m) = s /\ Height(x, m) \in Nat /\ Height(x, m) <= r
  BY <1>1
<1>3. /\ Height(x, m)' = Height(x, m) /\ Stream(m)' = Stream(m)
  BY SameHeight
<1>4. x \in alive' /\ m \in WithNode(x)' /\ r \in Int
  BY <1>2 DEF Kept
<1> QED
  BY <1>2, <1>3, <1>4 DEF Kept

\* An acknowledgement takes away a call that was not with the node any more.
LEMMA ResponseSafe ==
    ASSUME IInv, OwnInv, SafeInv, NEW p \in packets, HandleNextHopResponse(p)
    PROVE  SafeInv'
<1>1. /\ Fewer /\ packets' = packets \ {p} /\ p.to \in alive
      /\ \A n \in Node : pending'[n] = IF n = p.to THEN pending[n] \ {[dest |-> p.from, msg |-> p.msg]} ELSE pending[n]
      /\ UNCHANGED <<config, alive, removed, lookup, delivered, stranded>>
  BY ResponseTakes
<1>2. GoesOn
  BY <1>1 DEF GoesOn, Done
<1>3. p.type = "ack" /\ p = Packet(p.type, p.from, p.to, p.msg)
  BY DEF HandleNextHopResponse, OwnInv, PacketOwn
<1>4. ASSUME NEW x \in alive, NEW m \in WithNode(x)
      PROVE  x \in alive' /\ m \in WithNode(x)'
  <2>1. x \in Node
    BY DEF IInv, NodesOK
  <2>2. ASSUME NEW q \in packets, q.type = "app", q.to = x, q.msg = m
        PROVE  m \in WithNode(x)'
    <3>1. q \in packets'
      BY <1>1, <1>3, <2>2
    <3> QED BY <2>2, <3>1 DEF WithNode
  <2>3. ASSUME NEW c \in pending[x], ~Closed(x, c), c.msg = m
        PROVE  m \in WithNode(x)'
    <3>1. ~(x = p.to /\ c = [dest |-> p.from, msg |-> p.msg])
      BY <1>3, <2>3 DEF Closed
    <3>2. c \in pending'[x]
      BY <1>1, <2>1, <3>1
    <3>3. ~Closed(x, c)'
      BY <1>1, <2>3 DEF Closed
    <3> QED BY <2>3, <3>2, <3>3 DEF WithNode
  <2> QED BY <1>1, <2>2, <2>3 DEF WithNode
<1>5. \A i, s, r : i \notin stranded' /\ Kept(i, s, r) => Kept(i, s, r)'
  BY <1>1, <1>4, KeptStays DEF Fewer
<1>6. \A q \in packets' : q.type = "ack" => q \in packets
  BY <1>1
<1>7. \A i \in Requests : lookup'[i].state # "new" => lookup[i].state # "new"
  BY <1>1
<1> QED
  BY <1>2, <1>5, <1>6, <1>7, LessKeepsSafe

\* Packets that are lost, and that were with no node.
LEMMA GoneSafe ==
    ASSUME IInv, OwnInv, SafeInv, NEW p \in packets, Drop(p) \/ Lose(p)
    PROVE  SafeInv'
<1>1. /\ Fewer /\ (p.to \notin alive \/ p.type # "app")
      /\ packets' = packets \ {p} /\ UNCHANGED <<alive, removed, pending, lookup, delivered, stranded>>
  BY GoneTakes
<1>2. GoesOn
  BY <1>1 DEF GoesOn, Done
<1>3. ASSUME NEW x \in alive, NEW m \in WithNode(x)
      PROVE  x \in alive' /\ m \in WithNode(x)'
  <2>1. ASSUME NEW q \in packets, q.type = "app", q.to = x, q.msg = m
        PROVE  m \in WithNode(x)'
    <3>1. q \in packets'
      BY <1>1, <2>1
    <3> QED BY <2>1, <3>1 DEF WithNode
  <2>2. ASSUME NEW c \in pending[x], ~Closed(x, c), c.msg = m
        PROVE  m \in WithNode(x)'
    <3>1. ~Closed(x, c)'
      BY <1>1, <2>2 DEF Closed
    <3> QED BY <1>1, <2>2, <3>1 DEF WithNode
  <2> QED BY <1>1, <2>1, <2>2 DEF WithNode
<1>4. \A i, s, r : i \notin stranded' /\ Kept(i, s, r) => Kept(i, s, r)'
  BY <1>1, <1>3, KeptStays DEF Fewer
<1>5. \A q \in packets' : q.type = "ack" => q \in packets
  BY <1>1
<1>6. \A i \in Requests : lookup'[i].state # "new" => lookup[i].state # "new"
  BY <1>1
<1> QED
  BY <1>2, <1>4, <1>5, <1>6, LessKeepsSafe

\* What was with a node that fails is stranded.
LEMMA FailSafe ==
    ASSUME IInv, OwnInv, SafeInv, NEW n \in Node, Fail(n)
    PROVE  SafeInv'
<1>1. /\ Fewer /\ n \in alive /\ alive' = alive \ {n}
      /\ stranded' = stranded \cup {c.msg.id : c \in pending[n]}
                            \cup {p.msg.id : p \in {q \in packets : q.type = "app" /\ q.to = n}}
      /\ \A x \in Node : pending'[x] = IF x = n THEN {} ELSE pending[x]
      /\ UNCHANGED <<removed, packets, lookup, delivered>>
  BY FailTakes
<1>2. GoesOn
  BY <1>1 DEF GoesOn, Done
<1>3. ASSUME NEW x \in alive, NEW m \in WithNode(x), m.id \notin stranded'
      PROVE  x \in alive' /\ m \in WithNode(x)'
  <2>1. x \in Node
    BY DEF IInv, NodesOK
  <2>2. ASSUME NEW q \in packets, q.type = "app", q.to = x, q.msg = m
        PROVE  x \in alive' /\ m \in WithNode(x)'
    <3>1. x # n
      BY <1>1, <1>3, <2>2
    <3> QED BY <1>1, <2>2, <3>1 DEF WithNode
  <2>3. ASSUME NEW c \in pending[x], ~Closed(x, c), c.msg = m
        PROVE  x \in alive' /\ m \in WithNode(x)'
    <3>1. x # n
      BY <1>1, <1>3, <2>3
    <3>2. ~Closed(x, c)' /\ c \in pending'[x]
      BY <1>1, <2>1, <2>3, <3>1 DEF Closed
    <3> QED BY <1>1, <2>3, <3>1, <3>2 DEF WithNode
  <2> QED BY <2>2, <2>3 DEF WithNode
<1>4. ASSUME NEW i, NEW s, NEW r, i \notin stranded', Kept(i, s, r)
      PROVE  Kept(i, s, r)'
  <2>1. \A x \in alive : \A m \in WithNode(x) : m.id = i => x \in alive' /\ m \in WithNode(x)'
    BY <1>3, <1>4
  <2>2. Same
    BY <1>1 DEF Fewer
  <2> QED BY <1>4, <2>1, <2>2, KeptStays
<1>5. \A q \in packets' : q.type = "ack" => q \in packets
  BY <1>1
<1>6. \A i \in Requests : lookup'[i].state # "new" => lookup[i].state # "new"
  BY <1>1
<1> QED
  BY <1>2, <1>4, <1>5, <1>6, LessKeepsSafe

\* A step that changes no packet and no call.
LEMMA StillSafe ==
    ASSUME IInv, OwnInv, SafeInv, Fewer, UNCHANGED <<packets, pending, delivered, alive, removed, stranded>>,
           \A j \in Requests : Done(j) => Done(j)',
           \A j \in Requests : lookup[j].state = "new" => lookup'[j].state = "new"
    PROVE  SafeInv'
<1>1. GoesOn
  BY DEF GoesOn
<1>2. ASSUME NEW x \in alive, NEW m \in WithNode(x)
      PROVE  x \in alive' /\ m \in WithNode(x)'
  BY DEF WithNode, Closed
<1>3. \A i, s, r : i \notin stranded' /\ Kept(i, s, r) => Kept(i, s, r)'
  BY <1>2, KeptStays DEF Fewer
<1> QED
  BY <1>1, <1>3, LessKeepsSafe

LEMMA GivesUpSafe ==
    ASSUME IInv, OwnInv, SafeInv, NEW i \in Requests, HandleLookupTimeout(i), ~(lookup[i].retries > 0)
    PROVE  SafeInv'
<1>1. /\ Fewer /\ UNCHANGED <<packets, pending, delivered, alive, removed, stranded>>
      /\ \A j \in Requests : Done(j) => Done(j)'
  BY GivesUp
<1>2. /\ lookup[i].state = "waiting"
      /\ lookup' = [lookup EXCEPT ![i] = [lookup[i] EXCEPT !.state = "failed"]]
  BY DEF HandleLookupTimeout
<1>3. lookup \in [Requests -> LookupType]
  BY DEF IInv, RequestsOK
<1>4. \A j \in Requests : lookup[j].state = "new" => lookup'[j].state = "new"
  BY <1>2, <1>3
<1> QED
  BY <1>1, <1>4, StillSafe

LEMMA StutterSafe ==
    ASSUME IInv, OwnInv, SafeInv, UNCHANGED vars
    PROVE  SafeInv'
<1>1. /\ Fewer /\ UNCHANGED <<packets, pending, delivered, alive, removed, stranded>> /\ lookup' = lookup
  BY DEF vars, Fewer, Same
<1>2. \A j \in Requests : Done(j) => Done(j)'
  BY <1>1 DEF Done
<1>3. \A j \in Requests : lookup[j].state = "new" => lookup'[j].state = "new"
  BY <1>1
<1> QED
  BY <1>1, <1>2, <1>3, StillSafe

LEMMA StepSafe ==
    ASSUME IInv, IInv', OwnInv, GoodInv, SafeInv, Next
    PROVE  SafeInv'
<1>1. ASSUME NEW n, NEW k, NEW e, NEW h, NEW old, NEW over, NEW ack, Moves(n, k, e, h, old, over, ack),
             ~(LeadToKey' /\ config.acks)
      PROVE  SafeInv'
  <2>1. config'.acks = config.acks
    BY <1>1 DEF Moves, Fewer, Same
  <2> QED BY <1>1, <2>1 DEF SafeInv
<1>2. ASSUME NEW i \in Requests, NEW e, NEW h, e = Sent(i),
             Moves(config.requests[i].src, [id |-> i, kind |-> config.requests[i].kind], e, h, {}, {}, {})
      PROVE  SafeInv'
  <2>1. CASE LeadToKey' /\ config.acks
    BY <1>2, <2>1, RequestSafe
  <2>2. CASE ~(LeadToKey' /\ config.acks)
    BY <1>1, <1>2, <2>2
  <2> QED BY <2>1, <2>2
<1>3. ASSUME NEW i \in Requests, Start(i)
      PROVE  SafeInv'
  BY <1>2, <1>3, StartMoves
<1>4. ASSUME NEW i \in Requests, HandleLookupTimeout(i)
      PROVE  SafeInv'
  <2>1. CASE lookup[i].retries > 0
    BY <1>2, <1>4, <2>1, RetryMoves
  <2>2. CASE ~(lookup[i].retries > 0)
    BY <1>4, <2>2, GivesUpSafe
  <2> QED BY <2>1, <2>2
<1>5. ASSUME NEW p \in packets, HandleRouteMessage(p)
      PROVE  SafeInv'
  <2>1. CASE LeadToKey' /\ config.acks
    BY <1>5, <2>1, RouteSafe
  <2>2. CASE ~(LeadToKey' /\ config.acks)
    <3>1. \E e, h : Moves(p.to, p.msg, e, h, {p}, {}, IF config.acks THEN {Packet("ack", p.to, p.from, p.msg)} ELSE {})
      BY <1>5, HandleRouteMessageMoves
    <3> QED BY <1>1, <2>2, <3>1
  <2> QED BY <2>1, <2>2
<1>6. ASSUME NEW p \in packets, HandleNextHopResponse(p)
      PROVE  SafeInv'
  BY <1>6, ResponseSafe
<1>7. ASSUME NEW p \in packets, HandleDirectResponse(p)
      PROVE  SafeInv'
  BY <1>7, DirectSafe
<1>8. ASSUME NEW p \in packets, HandleForward(p)
      PROVE  SafeInv'
  <2>1. CASE LeadToKey' /\ config.acks
    BY <1>8, <2>1, ForwardSafe
  <2>2. CASE ~(LeadToKey' /\ config.acks)
    <3>1. \E e, h : Moves(p.to, p.msg, e, h, {p}, {}, {})
      BY <1>8, HandleForwardMoves
    <3> QED BY <1>1, <2>2, <3>1
  <2> QED BY <2>1, <2>2
<1>9. ASSUME NEW p \in packets, Drop(p) \/ Lose(p)
      PROVE  SafeInv'
  BY <1>9, GoneSafe
<1>10. ASSUME NEW n \in Node, Fail(n)
       PROVE  SafeInv'
  BY <1>10, FailSafe
<1>11. ASSUME NEW n \in Node, NEW c \in pending[n], HandleNextHopTimeout(n, c)
       PROVE  SafeInv'
  <2>1. CASE LeadToKey' /\ config.acks
    BY <1>11, <2>1, TimeoutSafe
  <2>2. CASE ~(LeadToKey' /\ config.acks)
    <3>1. \E e, h : Moves(n, c.msg, e, h, {}, {c}, {})
      BY <1>11, HandleNextHopTimeoutMoves
    <3> QED BY <1>1, <2>2, <3>1
  <2> QED BY <2>1, <2>2
<1> QED
  BY <1>3, <1>4, <1>5, <1>6, <1>7, <1>8, <1>9, <1>10, <1>11 DEF Next, Arrive

LEMMA InitSafe == Init => SafeInv
<1> SUFFICES ASSUME Init PROVE SafeInv
  OBVIOUS
<1>1. packets = {} /\ \A i \in Requests : lookup[i].state = "new"
  BY DEF Init
<1> QED
  BY <1>1 DEF SafeInv

\* Nothing that a node has acknowledged is lost while the tables lead to the key: it is with a node
\* that is closer to its end, or was handled.
THEOREM NothingAcknowledgedIsLost == Spec => []SafeInv
<1>1. IInv /\ IInv' /\ OwnInv /\ GoodInv /\ SafeInv /\ [Next]_vars => SafeInv'
  BY StepSafe, StutterSafe
<1> QED
  BY <1>1, InitSafe, Invariance, GetsCloser, PTL DEF Spec

\* When nothing is on its way, no message is with a node.
LEMMA QuietIs ==
    ASSUME IInv, OwnInv, SafeInv
    PROVE  QuietMeansHandled
<1>1. SUFFICES ASSUME Quiet, LeadToKey, config.acks, NEW i \in Requests \ stranded, lookup[i].state # "new"
               PROVE  /\ delivered[i] # {}
                      /\ \/ lookup[i].state # "waiting" \/ config.requests[i].src \notin alive
                         \/ config.routing = "semi" \/ ~NoneSuspected
                         \/ /\ config.routing = "source"
                            /\ alive # Node \/ config.requests[i].src = config.requests[i].key
  BY DEF QuietMeansHandled
<1>2. ASSUME NEW s, NEW r PROVE ~Kept(i, s, r)
  <2>1. \A x \in alive : WithNode(x) = {}
    BY <1>1 DEF Quiet, WithNode
  <2> QED BY <2>1 DEF Kept
<1>3. Ended(i)
  BY <1>1, <1>2 DEF SafeInv, Safe
<1>4. ASSUME lookup[i].state = "waiting", config.requests[i].src \in alive, config.routing # "semi", NoneSuspected,
             config.routing = "source" => alive = Node /\ config.requests[i].src # config.requests[i].key
      PROVE  FALSE
  <2>1. ~Done(i)
    BY <1>4 DEF Done
  <2>2. ~Due(i, Failed)
    BY <1>2, <1>3, <2>1 DEF Ended
  <2>3. config.requests[i].kind = "lookup"
    BY <1>4 DEF OwnInv
  <2>4. config.routing \in {"semi", "full", "source"}
    BY DEF IInv, Config
  <2>5. Failed \cap alive = {}
    BY <1>4 DEF Failed, NoneSuspected
  <2>6. Failed \subseteq Node
    BY DEF Failed, IInv, NodesOK
  <2> QED BY <1>4, <2>2, <2>3, <2>4, <2>5, <2>6 DEF Due
<1> QED
  BY <1>3, <1>4 DEF Ended

\* In the end, when each hop is acknowledged, every request that was not with a node that failed has
\* been handled, and a routed answer has reached the caller.
THEOREM QuietIsHandled == Spec => []QuietMeansHandled
BY QuietIs, Invariance, GetsCloser, NothingAcknowledgedIsLost, PTL
=============================================================================
