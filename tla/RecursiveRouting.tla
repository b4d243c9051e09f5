--------------------------- MODULE RecursiveRouting ---------------------------
(***************************************************************************)
(* Recursive routing of BaseOverlay and the lookups of RecursiveLookup     *)
(* (src/common/): messages go from node to node towards a key, with or     *)
(* without an acknowledgement for each hop, and answers come back directly *)
(* (semi), routed to the caller's key (full), or over the recorded route   *)
(* (source).                                                               *)
(*                                                                         *)
(* What the overlay protocols supply is external: a table names the next   *)
(* hops that findNode() of a node returns for a key, closest first, as far *)
(* as handleFailedNode() has not removed them, and a node is a sibling     *)
(* when it is the first of them.  A key is named by the node that has it.  *)
(* Iterative routing is in IterativeLookup, and recursiveRoutingHook() of  *)
(* Pastry in Pastry.  Attacks, and nodes that join again, are left out.    *)
(***************************************************************************)
EXTENDS Integers, Sequences, SequencesExt, FiniteSetsExt

CONSTANTS
    Node,
    Tables,         \* [name -> [node -> [key -> next hops]]]
    HopCountMax,
    Configs         \* a set of Config

None == 0

\* requests: what nodes ask for, in their order; via: the first hop, another node, if it is given.  acks:
\* routeMsgAcks.  forward: useCommonAPIforward.  record: recordRoute.  failures, losses and
\* early (timers that expire although nothing was lost) bound what happens.
RequestType == {q \in [kind : {"lookup", "data"}, src : Node, key : Node, via : Node \cup {None}] : q.via # q.src}
Config == [table : DOMAIN Tables, routing : {"semi", "full", "source"},
           requests : Seq(RequestType), acks : BOOLEAN, forward : BOOLEAN, record : BOOLEAN,
           retries : Nat, failures : Nat, losses : Nat, early : Nat]

ASSUME RoutingAssumption ==
    /\ Node \subseteq Nat \ {None} /\ HopCountMax \in Nat \ {0}
    /\ \A t \in DOMAIN Tables : \A n, k \in Node : Tables[t][n][k] \in Seq(Node)
    /\ Configs \subseteq Config
-----------------------------------------------------------------------------
VARIABLES
    config,         \* one of Configs, and what is left of its bounds
    alive,          \* the nodes
    removed,        \* the nodes that each of them has removed from its table
    packets,        \* what is on its way between nodes, or at an application
    pending,        \* the NextHopCalls of each node that are not answered
    lookup,         \* the state of each request, and the retries that it has left
    delivered,      \* history: where each request was handled as at its destination
    stranded        \* history: requests of which a copy was with a node that failed

vars == <<config, alive, removed, packets, pending, lookup, delivered, stranded>>

Requests == DOMAIN config.requests
Uses(bound) == config[bound] > 0 /\ config' = [config EXCEPT ![bound] = @ - 1]

\* A BaseRouteMessage.  key: None when it follows nextHops only.  sibling: of an answer.
Message(i, kind, src, key) ==
    [id |-> i, kind |-> kind, src |-> src, key |-> key, hopCount |-> 0,
     visitedHops |-> <<>>, nextHops |-> <<>>, sibling |-> FALSE]

\* type: "route" and "ack" go between nodes, "direct" is an answer without a BaseRouteMessage,
\* "app" is a message that the application was shown and sends back.
Packet(type, from, to, m) == [type |-> type, from |-> from, to |-> to, msg |-> m]

\* What a handler leaves behind: packets, NextHopCalls, messages that are at their destination.
Effect(send, wait, here) == [send |-> send, wait |-> wait, here |-> here]
Nothing == Effect({}, {}, {})
-----------------------------------------------------------------------------
(***************************************************************************)
(* Sending, by a node `self` that has removed the nodes `self.gone`.       *)
(***************************************************************************)
Self(n) == [node |-> n, gone |-> removed[n]]

\* The positions in the node's table of the next hops that findNode() returns, and the first
\* of some of them.
Table(self, key)    == Tables[config.table][self.node][key]
FindNode(self, key) == {i \in DOMAIN Table(self, key) : Table(self, key)[i] \notin self.gone}
First(self, key, hops) == IF hops = {} THEN None ELSE Table(self, key)[Min(hops)]

IsSiblingFor(self, key) == First(self, key, FindNode(self, key)) = self.node

\* Slip: acknowledged messages do not count their hops.
HopsUncounted(self, dest, m) == IF dest # self.node /\ ~config.acks THEN m.hopCount + 1 ELSE m.hopCount
HopsCounted(self, dest, m)   == IF dest # self.node THEN m.hopCount + 1 ELSE m.hopCount

SendRouteMessage(self, dest, m) ==
    LET sent == [m EXCEPT !.hopCount = HopsCounted(self, dest, m)]
    IN  Effect({Packet("route", self.node, dest, sent)},
               IF config.acks THEN {[dest |-> dest, msg |-> sent]} ELSE {}, {})

SendToSourceRoute(self, route, m) == SendRouteMessage(self, route[1], [m EXCEPT !.nextHops = route])

\* Slip: the recorded route is not looked at.
UsefulUnrecorded(self, x, m, lastHop) ==
    /\ ~(x = lastHop /\ x # self.node)
    /\ ~(x = m.src /\ self.node # m.src)
    /\ x = self.node => IsSiblingFor(self, m.key)
\* Loop detection.
Useful(self, x, m, lastHop) ==
    /\ ~(x = lastHop /\ x # self.node)
    /\ x \notin ToSet(m.visitedHops)
    /\ ~(x = m.src /\ self.node # m.src)
    /\ x = self.node => IsSiblingFor(self, m.key)

NextHop(self, m, lastHop) ==
    First(self, m.key, {i \in FindNode(self, m.key) : Useful(self, Table(self, m.key)[i], m, lastHop)})

\* Slip: one hop more.
FarAndAway(m) == m.hopCount > HopCountMax
TooFar(m) == m.hopCount >= HopCountMax

\* The node before is recorded, and this node leaves the next hops.
Recorded(m, lastHop) ==
    IF m.nextHops # <<>> \/ config.routing = "source" \/ config.record
    THEN [m EXCEPT !.visitedHops = Append(@, lastHop), !.nextHops = <<>>] ELSE m

\* callForward(): what the application sends back has no route.
Shown(m) == [m EXCEPT !.visitedHops = <<>>, !.nextHops = <<>>]

RouteToKey(self, m, lastHop, shown) ==
    LET next == NextHop(self, m, lastHop)
    IN  IF TooFar(m) \/ next = None THEN Nothing
        ELSE IF config.forward /\ m.kind = "data" /\ ~shown
             THEN Effect({Packet("app", lastHop, self.node, Shown(m))}, {}, {})
        ELSE IF next = self.node THEN Effect({}, {}, {Recorded(m, lastHop)})
        ELSE SendRouteMessage(self, next, m)

\* findNodeRpc() and internalSendRpcResponse().  arrived: the call is at its destination;
\* if not, its routing type is only known when it was acknowledged, and no route is.
Answer(self, m, arrived) ==
    LET known  == arrived \/ config.acks
        key    == IF config.routing = "full" /\ known THEN m.src ELSE None
        answer == [Message(m.id, "answer", self.node, key) EXCEPT !.sibling = IsSiblingFor(self, m.key)]
    IN  IF config.routing = "semi" /\ known THEN Effect({Packet("direct", self.node, m.src, answer)}, {}, {})
        ELSE IF arrived /\ m.visitedHops # <<>> THEN SendToSourceRoute(self, Reverse(m.visitedHops), answer)
        ELSE IF key # None THEN RouteToKey(self, answer, self.node, FALSE)
        ELSE SendToSourceRoute(self, <<m.src>>, answer)

\* sendToKey(), with checkFindNode(): a lookup for which no hop is useful is answered.
SendToKey(self, m, lastHop, shown) ==
    IF /\ m.kind = "lookup" /\ self.node # m.src /\ ~TooFar(m)
       /\ FindNode(self, m.key) # {} /\ NextHop(self, m, lastHop) = None
    THEN Answer(self, m, FALSE)
    ELSE RouteToKey(self, m, lastHop, shown)

\* Slip: the end of a source route is taken for the destination.
RouteAtEnd(self, m)    == m.key = None \/ m.nextHops # <<>> \/ IsSiblingFor(self, m.key)
AtDestination(self, m) == m.key = None \/ IsSiblingFor(self, m.key)

\* handleBaseOverlayMessage() for a BaseRouteMessage.
HandleRoute(self, m, lastHop) ==
    LET route == IF m.nextHops = <<>> THEN <<>> ELSE Tail(m.nextHops)
        r     == Recorded(m, lastHop)
    IN  IF route # <<>> THEN SendToSourceRoute(self, route, r)
        ELSE IF AtDestination(self, m) THEN Effect({}, {}, {r})
        ELSE SendToKey(self, r, lastHop, FALSE)

\* A lookup that has arrived is answered, perhaps to this node itself.
Handled(self, e) ==
    IF \E m \in e.here : m.kind = "lookup" THEN Answer(self, CHOOSE m \in e.here : TRUE, TRUE) ELSE e

\* RecursiveLookup::handleRpcResponse(): the first answer ends a lookup.
Finished(self, here) ==
    [i \in Requests |->
        IF /\ lookup[i].state = "waiting" /\ config.requests[i].src = self.node
           /\ \E m \in here : m.kind = "answer" /\ m.id = i
        THEN [lookup[i] EXCEPT !.state = IF \E m \in here : m.sibling THEN "valid" ELSE "failed"]
        ELSE lookup[i]]

\* The handler of a packet or of the end of a NextHopCall had this effect.
Leaves(self, old, over, effect, ack) ==
    \* \E, so that TLC works each out once.
    \E e \in {effect} : \E h \in {Handled(self, e)} :
        /\ packets' = (packets \ old) \cup h.send \cup ack
        /\ pending' = [pending EXCEPT ![self.node] = (@ \ over) \cup h.wait]
        /\ lookup' = Finished(self, h.here)
        /\ delivered' = [i \in Requests |->
                            IF \E m \in e.here : m.kind # "answer" /\ m.id = i
                            THEN delivered[i] \cup {self.node} ELSE delivered[i]]
-----------------------------------------------------------------------------
(***************************************************************************)
(* Requests: lookupRpc() and RecursiveLookup::lookup(), and getRoute().    *)
(***************************************************************************)
Sent(i) ==
    LET q == config.requests[i]
        m == Message(i, q.kind, q.src, q.key)
    IN  IF q.via = None THEN SendToKey(Self(q.src), m, q.src, FALSE)
        ELSE SendToSourceRoute(Self(q.src), <<q.via>>, m)

Emits(i) ==
    LET n == config.requests[i].src
    IN  \E e \in {Sent(i)} : \E h \in {Handled(Self(n), e)} :
        /\ packets' = packets \cup h.send
        /\ pending' = [pending EXCEPT ![n] = @ \cup h.wait]
        /\ delivered' = [delivered EXCEPT ![i] = IF e.here = {} THEN @ ELSE @ \cup {n}]
        /\ \* An answer may come before the call returns.
           lookup' = [lookup EXCEPT ![i] =
                        [state |-> IF config.requests[i].kind = "data" THEN "sent"
                                   ELSE IF h.here = {} THEN "waiting" ELSE "valid",
                         retries |-> IF @.state = "new" THEN @.retries ELSE @.retries - 1]]

Start(i) ==
    /\ lookup[i].state = "new" /\ config.requests[i].src \in alive
    /\ \A j \in Requests : j < i => lookup[j].state # "new"
    /\ Emits(i)
    /\ UNCHANGED <<config, alive, removed, stranded>>

\* Nothing of a request is left anywhere.
Lost(i) == /\ \A p \in packets : p.msg.id # i
           /\ \A n \in alive : \A c \in pending[n] : c.msg.id # i

\* The call is sent again, or RecursiveLookup::handleRpcTimeout() ends the lookup.
HandleLookupTimeout(i) ==
    /\ lookup[i].state = "waiting" /\ config.requests[i].src \in alive
    /\ IF Lost(i) THEN UNCHANGED config ELSE Uses("early")
    /\ IF lookup[i].retries > 0 THEN Emits(i)
       ELSE /\ lookup' = [lookup EXCEPT ![i].state = "failed"]
            /\ UNCHANGED <<packets, pending, delivered>>
    /\ UNCHANGED <<alive, removed, stranded>>
-----------------------------------------------------------------------------
(***************************************************************************)
(* Messages                                                                *)
(***************************************************************************)
\* nextHopRpc(): the message is handled before it is acknowledged.
HandleRouteMessage(p) ==
    /\ p.type = "route" /\ p.to \in alive
    /\ Leaves(Self(p.to), {p}, {}, HandleRoute(Self(p.to), p.msg, p.from),
              IF config.acks THEN {Packet("ack", p.to, p.from, p.msg)} ELSE {})
    /\ UNCHANGED <<config, alive, removed, stranded>>

HandleNextHopResponse(p) ==
    /\ p.type = "ack" /\ p.to \in alive
    /\ packets' = packets \ {p}
    /\ pending' = [pending EXCEPT ![p.to] = @ \ {[dest |-> p.from, msg |-> p.msg]}]
    /\ UNCHANGED <<config, alive, removed, lookup, delivered, stranded>>

HandleDirectResponse(p) ==
    /\ p.type = "direct" /\ p.to \in alive
    /\ Leaves(Self(p.to), {p}, {}, Effect({}, {}, {p.msg}), {})
    /\ UNCHANGED <<config, alive, removed, stranded>>

\* The application sends back what it was shown.
HandleForward(p) ==
    /\ p.type = "app" /\ p.to \in alive
    /\ Leaves(Self(p.to), {p}, {}, SendToKey(Self(p.to), p.msg, p.from, TRUE), {})
    /\ UNCHANGED <<config, alive, removed, stranded>>

\* handleFailedNode() says whether the table still has other nodes.
Remains(self) ==
    \E k \in Node : \E i \in FindNode(self, k) : Table(self, k)[i] # self.node

\* Slip: the message is not sent again.
NotResent(self, m) == Nothing
\* A message without a key goes on with the next hops after the one that failed.
Resent(self, m) ==
    IF ~Remains(self) THEN Nothing
    ELSE IF m.key # None THEN HandleRoute(self, m, self.node)
    ELSE IF Len(m.nextHops) > 1 THEN HandleRoute(self, [m EXCEPT !.nextHops = Tail(@)], self.node)
    ELSE Nothing

\* The call or its answer may still arrive.
InTime(n, c) ==
    \/ c.dest \in alive /\ Packet("route", n, c.dest, c.msg) \in packets
    \/ Packet("ack", c.dest, n, c.msg) \in packets

\* internalHandleRpcTimeout()
HandleNextHopTimeout(n, c) ==
    LET self == [node |-> n, gone |-> removed[n] \cup ({c.dest} \ {n})]
    IN  /\ n \in alive /\ c \in pending[n]
        /\ IF InTime(n, c) THEN Uses("early") ELSE UNCHANGED config
        /\ removed' = [removed EXCEPT ![n] = self.gone]
        /\ Leaves(self, {}, {c}, Resent(self, c.msg), {})
        /\ UNCHANGED <<alive, stranded>>
-----------------------------------------------------------------------------
(***************************************************************************)
(* The environment                                                         *)
(***************************************************************************)
Fail(n) ==
    /\ Uses("failures") /\ n \in alive
    /\ alive' = alive \ {n}
    /\ stranded' = stranded \cup {c.msg.id : c \in pending[n]}
                            \cup {p.msg.id : p \in {q \in packets : q.type = "app" /\ q.to = n}}
    /\ pending' = [pending EXCEPT ![n] = {}]
    /\ UNCHANGED <<removed, packets, lookup, delivered>>

\* What is sent to a node that has failed is lost.
Drop(p) ==
    /\ p.to \notin alive
    /\ packets' = packets \ {p}
    /\ UNCHANGED <<config, alive, removed, pending, lookup, delivered, stranded>>

Lose(p) ==
    /\ Uses("losses") /\ p.type # "app"
    /\ packets' = packets \ {p}
    /\ UNCHANGED <<alive, removed, pending, lookup, delivered, stranded>>
-----------------------------------------------------------------------------
Init ==
    /\ config \in Configs
    /\ alive = Node
    /\ removed = [n \in Node |-> {}]
    /\ packets = {}
    /\ pending = [n \in Node |-> {}]
    /\ lookup = [i \in Requests |-> [state |-> "new", retries |-> config.retries]]
    /\ delivered = [i \in Requests |-> {}]
    /\ stranded = {}

Arrive(p) ==
    \/ HandleRouteMessage(p) \/ HandleNextHopResponse(p) \/ HandleDirectResponse(p)
    \/ HandleForward(p) \/ Drop(p)

Next ==
    \/ \E i \in Requests : Start(i) \/ HandleLookupTimeout(i)
    \/ \E p \in packets : Arrive(p) \/ Lose(p)
    \/ \E n \in Node : Fail(n) \/ \E c \in pending[n] : HandleNextHopTimeout(n, c)

\* Packets arrive or are lost, and timers expire.
Fairness ==
    /\ WF_vars(\E p \in packets : Arrive(p))
    /\ WF_vars(\E n \in Node : \E c \in pending[n] : HandleNextHopTimeout(n, c))
    /\ WF_vars(\E i \in Requests : HandleLookupTimeout(i))

Spec == Init /\ [][Next]_vars /\ Fairness
-----------------------------------------------------------------------------
Routed == {p.msg : p \in {q \in packets : q.type = "route"}}

\* A message that goes to a key is on its way for HopCountMax hops at most, those to nodes
\* that had failed included.
TypeOK ==
    /\ alive \subseteq Node /\ \A n \in Node : removed[n] \subseteq Node \ {n}
    /\ \A i \in Requests : lookup[i].retries \in Nat /\ delivered[i] \subseteq Node
    /\ \A m \in Routed : m.key # None => m.hopCount <= HopCountMax

Quiet == packets = {} /\ \A n \in alive : pending[n] = {}

\* No node takes another one to have failed that has not.
NoneSuspected == \A n \in Node : removed[n] \cap alive = {}

\* How many hops each node is from a key, at most, when its first next hop is closer to the key,
\* unless the node has the key,
Ways(t, key) == {hops \in [Node -> 0 .. HopCountMax - 1] : \A n \in Node :
    /\ Tables[t][n][key] # <<>>
    /\ Tables[t][n][key][1] = n <=> n = key
    /\ n # key => hops[Tables[t][n][key][1]] < hops[n]}

\* and the second one, too, after one hop more, unless only the node that has the key is closer.
SpareWays(t, key) == {hops \in Ways(t, key) : \A n \in Node :
    /\ Len(Tables[t][n][key]) > 1 /\ Tables[t][n][key][1] # Tables[t][n][key][2]
    /\ n # key => IF Tables[t][n][key][2] = n THEN Tables[t][n][key][1] = key
                  ELSE hops[Tables[t][n][key][2]] + 1 < hops[n]}

\* Tables that lead to every key, in a network of more nodes than one, and those that do, too,
\* when a node has removed another one: it has somebody left.
Chain == {t \in DOMAIN Tables :
    /\ \A key \in Node : Ways(t, key) # {}
    /\ \A n \in Node : \E key \in Node : key # n}
Close == {t \in DOMAIN Tables :
    /\ \A key \in Node : SpareWays(t, key) # {}
    /\ \A n, d \in Node : \E key \in Node : \E i \in DOMAIN Tables[t][n][key] :
        Tables[t][n][key][i] \notin {n, d}}

\* A first hop that is given is one of the closer ones.
GivenFirstHops(number) ==
    \A q \in ToSet(config.requests) : q.via # None =>
        /\ q.src # q.key
        /\ \E i \in 1 .. number : q.via = Tables[config.table][q.src][q.key][i]

\* The tables lead to the key: each node knows two that are closer and has removed one at
\* most, or it knows one.
LeadToKey ==
    \/ config.table \in Close /\ (\A n \in Node : \A x, y \in removed[n] : x = y) /\ GivenFirstHops(2)
    \/ config.table \in Chain /\ (\A n \in Node : removed[n] = {}) /\ GivenFirstHops(1)

\* Acknowledged messages are not lost with packets or with nodes that have not taken them:
\* in the end each request that was not with a node that failed is handled somewhere, and an
\* answer that was routed, too, has reached the caller.  A hop of a source route that fails
\* is another matter, and an answer of a node to itself over one is not sent again.  (sendRouteMessage(), nextHopRpc(), internalHandleRpcTimeout())
QuietMeansHandled ==
    Quiet /\ LeadToKey /\ config.acks =>
        \A i \in Requests \ stranded :
            /\ lookup[i].state = "new" \/ delivered[i] # {}
            /\ \/ lookup[i].state # "waiting" \/ config.requests[i].src \notin alive
               \/ config.routing = "semi" \/ ~NoneSuspected
               \/ /\ config.routing = "source"
                  /\ alive # Node \/ config.requests[i].src = config.requests[i].key

\* A message and a valid answer come only from the node that is closest to the key among
\* those alive, unless a node is taken to have failed that has not.
HandledAtClosest ==
    [][\A i \in Requests : \A n \in delivered'[i] \ delivered[i] :
        LeadToKey' /\ NoneSuspected' =>
            n = config.requests[i].key \/ config.requests[i].key \notin alive]_vars

\* A route on which no node comes back after another one.
NoLoop(w) == \A i, j \in DOMAIN w : i < j /\ w[i] = w[j] => \A k \in i .. j : w[k] = w[i]

\* No message that goes to a key comes back to a node of its recorded route that it has left,
\* and not to the node that it comes from, however wrong the tables are, and when it is sent
\* again, too; and none makes more hops than it may.  (the loop detection of sendToKey(), and
\* hopCountMax)
RecordedRouteHasNoLoop ==
    /\ TypeOK
    /\ \A p \in packets : p.type = "route" /\ p.msg.kind # "answer" =>
        NoLoop(p.msg.visitedHops \o <<p.from, p.to>>)

\* However wrong the tables are, nothing is routed for ever.  (hopCountMax)
RoutingEnds == <>[]Quiet

\* "Resend msg to next available node in nextHops[]" (BaseOverlay.cc:1787): when a hop of a
\* source route fails, the message goes to the one after it.
ResendsToNextHop ==
    [][\A n \in Node : \A c \in pending[n] :
        /\ c.dest \in removed'[n] \ removed[n] /\ c \notin pending'[n]
        /\ c.msg.key = None /\ Len(c.msg.nextHops) > 1
        => \E p \in packets' : p.msg.id = c.msg.id /\ p.from = n /\ p.to = c.msg.nextHops[2]]_vars
=============================================================================
