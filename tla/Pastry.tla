-------------------------------- MODULE Pastry --------------------------------
(***************************************************************************)
(* One Pastry node (src/overlay/pastry/): its leaf set, how it joins with  *)
(* the states that the hops of its join message send, how it learns from   *)
(* later states, and how it repairs the leaf set when nodes fail.          *)
(*                                                                         *)
(* Nodes are places on a ring with this node at 0.  The defaults of        *)
(* default.ini hold: proximities are measured before states are merged, no *)
(* discovery, join messages are routed semi-recursively and acknowledged   *)
(* hop by hop.  Other nodes send anything within the configuration's       *)
(* bounds.                                                                 *)
(*                                                                         *)
(* Left out: the routing table and the neighborhood set (the nodes that    *)
(* the routing table asks for repairs send states like any other), the     *)
(* states that this node sends, and with them the times of updates, the    *)
(* second stage, and the values of proximities: a node answers a ping or   *)
(* it does not.                                                            *)
(***************************************************************************)
EXTENDS Integers, Sequences, FiniteSets, SequencesExt, FiniteSetsExt

CONSTANTS
    Node,               \* the other nodes, as places on the ring
    Ring,               \* the size of the ring
    numberOfLeaves,
    QueueLimit,         \* the states that wait for others to be processed (15)
    Configs             \* a set of Config

Self   == 0
NoNode == -1
Half   == numberOfLeaves \div 2

\* start: the nodes that this node has merged when it is ready, << >> to join.
\* hops: the longest way of a join message.  deaths, losses, reroutes: how many nodes
\* fail, messages are lost, and hops of join messages hear no acknowledgement.  states: the
\* most nodes that a state names besides its sender.  pings: proximities may be unknown.
Config == [nodes : SUBSET Node, start : Seq(Node), hops : Nat, deaths : Nat, losses : Nat,
           reroutes : Nat, states : Nat, pings : BOOLEAN]

ASSUME PastryAssumption ==
    /\ Node \subseteq 1 .. Ring - 1 /\ Ring \in Nat
    /\ numberOfLeaves \in Nat \ {0} /\ numberOfLeaves % 2 = 0
    /\ QueueLimit \in Nat \ {0}
    /\ \A c \in Configs : c \in Config
-----------------------------------------------------------------------------
(***************************************************************************)
(* The leaf set: the smaller half, the closest node last, and the bigger   *)
(* half, the closest node first                                            *)
(***************************************************************************)
\* Slip: an interval that ends at this node, the end of the ring, is empty.
BetweenFlat(n, a, b) == NoNode \notin {a, b} /\ a < n /\ n < b
IsBetween(n, a, b) ==
    /\ NoNode \notin {a, b} /\ n # a
    /\ IF a < b THEN a < n /\ n < b ELSE a < n \/ n < b

Free(leaves, i)  == leaves[i] = NoNode
Leaves(leaves)   == Range(leaves) \ {NoNode}
IsFull(leaves)   == ~Free(leaves, 1) /\ ~Free(leaves, numberOfLeaves)
IsValid(leaves)  == ~Free(leaves, Half) /\ ~Free(leaves, Half + 1)
EmptyLeaves      == [i \in 1 .. numberOfLeaves |-> NoNode]

\* The ends of the two halves, or their first place.
Smallest(leaves) == Min({i \in 1 .. Half : ~Free(leaves, i)} \cup {Half})
Biggest(leaves)  == Max({i \in Half + 1 .. numberOfLeaves : ~Free(leaves, i)} \cup {Half + 1})

\* The first place, from the middle, where one side has a gap is filled from the end of
\* the other.
Balanced(leaves) ==
    LET right(i) == numberOfLeaves + 1 - i
        gaps == {i \in 1 .. Half : Free(leaves, i) \/ Free(leaves, right(i))}
        l    == Max(gaps)
        r    == right(l)
        moved(to, from) == [leaves EXCEPT ![to] = leaves[from], ![from] = NoNode]
    IN  IF \/ IsFull(leaves)
           \/ ~Free(leaves, 1) /\ ~Free(leaves, numberOfLeaves - 1)
           \/ ~Free(leaves, numberOfLeaves) /\ ~Free(leaves, 2)
        THEN leaves
        ELSE IF Free(leaves, l)
        THEN IF Free(leaves, r) \/ r = numberOfLeaves \/ Free(leaves, r + 1) THEN leaves
             ELSE moved(l, r + 1)
        ELSE IF l = 1 \/ Free(leaves, l - 1) THEN leaves ELSE moved(r, l - 1)

\* The leaf that is pushed out moves to the other end if there is room.
InsertLeaf(leaves, i, n) ==
    LET grown == IF i <= Half THEN InsertAt(leaves, i + 1, n) ELSE InsertAt(leaves, i, n)
        out   == IF i <= Half THEN 1 ELSE numberOfLeaves + 1
        end   == numberOfLeaves + 2 - out
        moved == IF grown[out] # NoNode /\ grown[end] = NoNode
                 THEN [grown EXCEPT ![end] = grown[out]] ELSE grown
    IN  Balanced(RemoveAt(moved, out))

\* Where a node belongs, looking at both sides from the middle: a place, or 0.
Place(leaves, n) ==
    LET right(i)  == numberOfLeaves + 1 - i
        lastL(i)  == IF i = Half THEN Self ELSE leaves[i + 1]
        lastR(i)  == IF i = Half THEN Self ELSE leaves[right(i) - 1]
        onLeft(i) == \/ IsBetween(n, leaves[i], lastL(i))
                     \/ Free(leaves, i) /\ ~IsBetween(n, lastR(i), leaves[right(i)])
        onRight(i) == \/ IsBetween(n, lastR(i), leaves[right(i)])
                      \/ Free(leaves, right(i)) /\ ~IsBetween(n, leaves[i], lastL(i))
        fits == {i \in 1 .. Half : onLeft(i) \/ onRight(i)}
        i    == Max(fits)
    IN  IF fits = {} THEN 0
        ELSE IF onLeft(i) THEN i ELSE right(i)

MergeNode(leaves, n) ==
    IF n = Self \/ n \in Leaves(leaves) \/ Place(leaves, n) = 0 THEN leaves
    ELSE InsertLeaf(leaves, Place(leaves, n), n)

\* isClosestNode(): only the neighbors are asked.
Distance(a, b) == LET d == (a - b) % Ring IN Min({d, Ring - d})
IsClosestNode(leaves, key) ==
    key = Self \/ \A i \in {Half, Half + 1} :
        Free(leaves, i) \/ Distance(leaves[i], key) >= Distance(Self, key)

Closest(nodes, num, key) ==
    {n \in nodes : Cardinality({m \in nodes : Distance(m, key) < Distance(n, key)}) < num}

\* Slip: only a node at the bigger end tells that more may follow.
MoreAfterBiggest(leaves, result) == leaves[Biggest(leaves)] \in result
MoreMayFollow(leaves, result) == {leaves[Smallest(leaves)], leaves[Biggest(leaves)]} \cap result # {}

\* createSiblingVector(): {} when this node may not know all of them.
CreateSiblingVector(leaves, key, num) ==
    LET result == Closest(Leaves(leaves) \cup {Self}, num, key)
    IN  IF IsFull(leaves) /\ MoreMayFollow(leaves, result) THEN {} ELSE result
-----------------------------------------------------------------------------
VARIABLES
    config,     \* one of Configs, and what is left of its bounds
    alive,      \* the other nodes that are alive
    net,        \* the states that hops of join messages have sent, <<hop, way>>
    p           \* this node

vars == <<config, alive, net, p>>

\* A way of the join message is one of ways, its place there; 0 stands for those of earlier
\* attempts (states of theirs with the same hop count as one).
\* awaiting: awaitingRepair.  repairs: the nodes asked by a RequestRepairCall.  ways: the hop
\* counts with which the join message gets to a last hop, more than one if it is routed
\* again.  received, hops, pos: stReceived, joinHopCount and stReceivedPos.  cached, pending,
\* dead: the state that is processed, the nodes whose ping it waits for, and those found to be
\* dead.  History: attempt, changes when the node joins again; heard, the nodes merged since
\* the last failure; valid, whether it had two neighbors since it joined; basis, the state
\* that the leaf set was built from.
NoBasis == [hop |-> 0, way |-> 0, kind |-> "none"]
Fresh == [state |-> "INIT", leaves |-> EmptyLeaves, wasFull |-> FALSE, awaiting |-> {}, repairs |-> {},
          joinCall |-> FALSE, ways |-> << >>, received |-> << >>, hops |-> 0, readyWait |-> FALSE, pos |-> 0,
          cached |-> FALSE, pending |-> {}, dead |-> {}, queue |-> << >>, reported |-> {},
          attempt |-> 0, heard |-> {}, valid |-> FALSE, basis |-> NoBasis]
-----------------------------------------------------------------------------
(***************************************************************************)
(* Merging, joining, failed nodes                                          *)
(***************************************************************************)
\* mergeState(): the nodes that a state names, but for the dead ones, one after the other.
Merged(leaves, nodes, dead) ==
    FoldLeft(LAMBDA l, n : IF n \in dead THEN l ELSE MergeNode(l, n), leaves, nodes)

\* The leaf set and what callUpdate() reports of it.
MergeState(s, nodes, dead) ==
    LET leaves == Merged(s.leaves, nodes, dead)
        left   == Leaves(s.leaves) \ Leaves(leaves)
        joined == Leaves(leaves) \ Leaves(s.leaves)
    IN  [s EXCEPT !.leaves = leaves, !.reported = (s.reported \ left) \cup joined,
                  !.heard = s.heard \cup (Range(nodes) \ dead), !.valid = s.valid \/ IsValid(leaves)]

\* joinOverlay(): everything is forgotten, and the application is told that the overlay is
\* not ready.  boot: a bootstrap node, or NoNode; path: the hop count at the last hop.
JoinOverlay(s, boot, path) ==
    IF boot = NoNode THEN [Fresh EXCEPT !.state = "READY", !.attempt = s.attempt]
    ELSE [Fresh EXCEPT !.state = "JOIN", !.joinCall = TRUE, !.ways = <<path>>,
                       !.attempt = IF s.attempt = 1 THEN 2 ELSE 1]

\* changeState(READY)
Ready(s) == [s EXCEPT !.state = "READY", !.received = << >>, !.readyWait = FALSE, !.pos = 0]

\* PastryLeafSet::failedNode().  The place of the node to ask is found before the leaf
\* set is balanced, and read afterwards.
LeavesWithout(leaves, i) ==
    LET rest == RemoveAt(leaves, i)
    IN  IF i <= Half THEN <<NoNode>> \o rest ELSE Append(rest, NoNode)
AskFor(s, ask, left) == [s EXCEPT !.awaiting = {a \in s.awaiting : a.node # ask} \cup {[node |-> ask, left |-> left]},
                                  !.repairs = s.repairs \cup {ask}]

\* Slip: the place is read before.
AskedEarly(leaves, balanced, place) == leaves[place]
Asked(leaves, balanced, place)      == balanced[place]

\* Slip: the application is not told.
ReportsNothing(s, n) == s
ReportsFailed(s, n)  == [s EXCEPT !.reported = @ \ {n}]

HandleFailedNode(s, n, boot, path) ==
    LET i        == CHOOSE j \in 1 .. numberOfLeaves : s.leaves[j] = n
        left     == i <= Half
        leaves   == LeavesWithout(s.leaves, i)
        balanced == Balanced(leaves)
        ask      == Asked(leaves, balanced, IF left THEN Smallest(leaves) ELSE Biggest(leaves))
        t        == ReportsFailed([s EXCEPT !.wasFull = IsFull(s.leaves), !.leaves = balanced,
                                            !.heard = Leaves(balanced)], n)
    IN  IF s.state # "READY" \/ n \notin Leaves(s.leaves) THEN s
        ELSE IF ask # NoNode THEN AskFor(t, ask, left)
        ELSE IF IsValid(s.leaves) /\ ~IsValid(balanced) THEN JoinOverlay(s, boot, path)
        ELSE t

Bootstraps == IF alive = {} THEN {NoNode} ELSE alive
Paths      == 1 .. config.hops
-----------------------------------------------------------------------------
(***************************************************************************)
(* Processing states: the nodes that a state names are pinged, and the     *)
(* next state is processed when all of them have answered                  *)
(***************************************************************************)
\* known: the nodes whose proximity, or death, is known without a ping.
ProcessQueue(s, queue, known) ==
    LET waits == {i \in DOMAIN queue : queue[i] \ known # {}}
        i     == Min(waits)
    IN  IF waits = {} THEN [s EXCEPT !.cached = FALSE, !.pending = {}, !.queue = << >>]
        ELSE [s EXCEPT !.cached = TRUE, !.pending = queue[i] \ known,
                       !.queue = SubSeq(queue, i + 1, Len(queue))]

\* mergeState() in state JOIN: the last state received has the leaf set.
BuildState(s, boot, path) ==
    LET last == Last(s.received)
        t    == MergeState(s, last.nodes, s.dead)
    IN  IF t.leaves = s.leaves THEN JoinOverlay(s, boot, path)
        ELSE Ready([t EXCEPT !.cached = FALSE, !.pending = {}, !.dead = {},
                             !.basis = [hop |-> last.hop, way |-> last.way, kind |-> last.kind]])

\* The states received before READY, from this one on.
ProcessReceived(s, from, known, boot, path) ==
    LET nodes(i) == Range(s.received[i].nodes)
        waits == {i \in from .. Len(s.received) : nodes(i) \ known # {}}
        i     == Min(waits)
    IN  IF waits = {} THEN BuildState([s EXCEPT !.dead = IF from <= Len(s.received) THEN known \ alive ELSE @], boot, path)
        ELSE [s EXCEPT !.pos = i, !.cached = TRUE, !.pending = nodes(i) \ known,
                       !.dead = (known \cap nodes(i)) \ alive]

\* checkProxCache()
CheckProxCache(s, known, boot, path) ==
    IF s.pending # {} THEN s
    ELSE IF s.state = "JOIN" THEN ProcessReceived(s, s.pos + 1, known, boot, path)
    ELSE ProcessQueue(s, s.queue, known)

\* The nodes whose proximity is known when a state is processed.
Knowledge == IF config.pings THEN {{}, Node} ELSE {Node}
-----------------------------------------------------------------------------
(***************************************************************************)
(* States that arrive while the node joins                                 *)
(***************************************************************************)
\* Slip: in the order of their arrival.
Appended(received, m) == Append(received, m)

\* The states are sorted by their hop.
Added(received, m) ==
    LET before == Cardinality({i \in DOMAIN received : received[i].hop <= m.hop})
    IN  InsertAt(received, before + 1, m)

\* Slip: the timer is started only if no state has arrived.
WaitsAtFirst(hop, count) == count = 1 /\ hop > 2
StillWaits(hop, count)   == count < hop

\* kind: the last hop's state, or that of another hop.
ReceiveJoin(s, m, known, boot, path) ==
    LET count == Len(s.received) + 1
        hops  == IF m.kind = "last" THEN m.hop ELSE s.hops
        t     == [s EXCEPT !.received = Added(@, m), !.hops = hops,
                           !.readyWait = @ \/ (m.kind = "last" /\ StillWaits(m.hop, count))]
    IN  CASE s.hops # 0 /\ Len(s.received) = s.hops -> s
          [] OTHER ->
                IF hops # 0 /\ (count > hops \/ (m.kind = "last" /\ s.hops # 0))
                THEN JoinOverlay(s, boot, path)
                ELSE IF count = hops
                THEN ProcessReceived([t EXCEPT !.readyWait = FALSE], 1, known, boot, path)
                ELSE t
-----------------------------------------------------------------------------
(***************************************************************************)
(* States that arrive later                                                *)
(***************************************************************************)
\* A state is processed, or waits until others have been.
Process(s, nodes, known) ==
    IF ~s.cached THEN ProcessQueue(s, <<Range(nodes)>>, known)
    ELSE LET queue == Append(s.queue, Range(nodes))
         IN  [s EXCEPT !.queue = IF Len(queue) > QueueLimit THEN Tail(queue) ELSE queue]

ReceiveState(s, nodes, known) ==
    Process(MergeState(s, nodes, known \ alive), nodes, known)

\* repair(): outdated, the nodes that were asked long ago.
Repair(s, from, nodes, known, outdated) ==
    LET waits == {a \in s.awaiting : a.node \notin outdated}
        left  == (CHOOSE a \in waits : a.node = from).left
        t     == MergeState([s EXCEPT !.awaiting = {a \in waits : a.node # from}], nodes, known \ alive)
        ask   == t.leaves[IF left THEN Smallest(t.leaves) ELSE Biggest(t.leaves)]
    IN  IF \A a \in waits : a.node # from THEN [s EXCEPT !.awaiting = waits]
        ELSE IF t.leaves # s.leaves \/ IsFull(t.leaves) \/ ~s.wasFull \/ ask \in {NoNode, from} THEN t
        ELSE AskFor(t, ask, left)
-----------------------------------------------------------------------------
(***************************************************************************)
(* Events                                                                  *)
(***************************************************************************)
\* The hops on a way of a join message send their states, but for the last hop.
StatesOf(hops, way) == hops \X {way}

\* A joining node's message makes the hops on its way send their states.
Becomes(s, states) ==
    /\ p' = s
    /\ net' = IF s.attempt = p.attempt THEN states
              ELSE {<<m[1], 0>> : m \in states} \cup StatesOf(1 .. s.ways[1] - 1, 1)
    /\ UNCHANGED alive

States == {a \in SeqOf(config.nodes, config.states) : IsInjective(a)}
Loses  == config.losses > 0 /\ config' = [config EXCEPT !.losses = @ - 1]

Init ==
    /\ config \in Configs
    /\ alive = config.nodes
    /\ IF config.start = << >>
       THEN \E n \in alive, path \in Paths :
                /\ p = [JoinOverlay(Fresh, n, path) EXCEPT !.attempt = 0]
                /\ net = StatesOf(1 .. path - 1, 1)
       ELSE /\ p = MergeState([Fresh EXCEPT !.state = "READY"], config.start, {})
            /\ net = {}

\* The state of a hop on the way of the join message.
HandleHopState(m, n, a, known) ==
    LET nodes == Append(a, n)
        state == [hop |-> m[1], way |-> m[2], kind |-> "hop", nodes |-> nodes]
    IN  /\ m \in net /\ n \in alive
        /\ \E boot \in Bootstraps, path \in Paths :
            Becomes(IF p.state = "JOIN" THEN ReceiveJoin(p, state, known, boot, path)
                    ELSE ReceiveState(p, nodes, known), net \ {m})
        /\ UNCHANGED config

\* The first answer of a last hop ends the call.
HandlePastryJoinResponse(n, a, known) ==
    /\ p.joinCall /\ n \in alive
    /\ \E boot \in Bootstraps, path \in Paths, way \in DOMAIN p.ways :
        Becomes(ReceiveJoin([p EXCEPT !.joinCall = FALSE],
                            [hop |-> p.ways[way], way |-> way, kind |-> "last", nodes |-> Append(a, n)],
                            known, boot, path), net)
    /\ UNCHANGED config

\* The join call or its answer is lost.  If the first hop does not acknowledge the call, both
\* timeout handlers join; the hops of the first of the two messages send states, too.
HandleJoinTimeout ==
    /\ p.joinCall /\ Loses
    /\ \E boot \in Bootstraps, path, given \in Paths :
        Becomes(JoinOverlay(p, boot, path), net \cup StatesOf(1 .. given - 1, 0))

HandleReadyWait ==
    /\ p.readyWait
    /\ UNCHANGED config
    /\ \E boot \in Bootstraps, path \in Paths : Becomes(JoinOverlay(p, boot, path), net)

\* Any other state, of a node that is ready.
HandleStateMessage(n, a, known) ==
    /\ p.state = "READY" /\ n \in alive
    /\ Becomes(ReceiveState(p, Append(a, n), known), net)
    /\ UNCHANGED config

HandleRequestRepairResponse(n, a, known) ==
    LET nodes == Append(a, n)
        t     == [p EXCEPT !.repairs = @ \ {n}]
    IN  /\ n \in p.repairs \cap alive
        /\ \E outdated \in {{}, {x.node : x \in p.awaiting} \ p.repairs} :
            Becomes(Process(Repair(t, n, nodes, known, outdated), nodes, known), net)
        /\ UNCHANGED config

\* n does not answer.
Unanswered(n) == (n \notin alive /\ UNCHANGED config) \/ (n \in alive /\ Loses)

HandleRpcTimeout(n) ==
    /\ p.state = "READY" /\ Unanswered(n) /\ n \in p.repairs \cup Leaves(p.leaves)
    /\ \E boot \in Bootstraps, path \in Paths :
        Becomes(HandleFailedNode([p EXCEPT !.repairs = @ \ {n}], n, boot, path), net)

\* A neighbor restarts and joins again.
HandlePastryJoinCall(n) ==
    /\ config.deaths > 0 /\ n \in Leaves(p.leaves) \cap alive
    /\ \E boot \in Bootstraps, path \in Paths : Becomes(HandleFailedNode(p, n, boot, path), net)
    /\ config' = [config EXCEPT !.deaths = @ - 1]

\* proxCallback(): the handler goes on if the node has joined again and found nobody, but
\* what it goes on with was erased.
ProxAnswer(n, known) ==
    /\ n \in p.pending \cap alive
    /\ \E boot \in Bootstraps, path \in Paths :
        Becomes(CheckProxCache([p EXCEPT !.pending = @ \ {n}], known, boot, path), net)
    /\ UNCHANGED config

ProxTimeout(n, known) ==
    /\ n \in p.pending /\ Unanswered(n)
    /\ \E boot \in Bootstraps, path \in Paths :
        LET s == HandleFailedNode(p, n, boot, path)
            t == [s EXCEPT !.pending = @ \ {n}, !.dead = IF s.state = "JOIN" THEN @ \cup {n} ELSE @]
        IN  Becomes(IF s.state # p.state THEN s
                    ELSE IF ~s.cached THEN [s EXCEPT !.state = "CRASH"]
                    ELSE CheckProxCache(t, known, boot, path), net)

\* A hop of a join message hears no acknowledgement from the next one, which may have passed
\* the message on.  It sends its state again and routes the message another way, or answers it
\* itself, all with the hop count that the message had already got.
Reroute(way, hop, path) ==
    /\ config.reroutes > 0 /\ hop < path
    /\ way = 0 => p.attempt > 0
    /\ way > 0 => hop < p.ways[way]
    /\ config' = [config EXCEPT !.reroutes = @ - 1]
    /\ p' = IF way = 0 THEN p ELSE [p EXCEPT !.ways = Append(@, path)]
    /\ net' = net \cup StatesOf(hop + 1 .. path - 1, IF way = 0 THEN 0 ELSE Len(p.ways) + 1)
    /\ UNCHANGED alive

Lose(m) ==
    /\ m \in net /\ Loses
    /\ net' = net \ {m}
    /\ UNCHANGED <<alive, p>>

Die(n) ==
    /\ config.deaths > 0 /\ n \in alive
    /\ config' = [config EXCEPT !.deaths = @ - 1]
    /\ alive' = alive \ {n}
    /\ UNCHANGED <<net, p>>

Next ==
    \/ \E n \in config.nodes, a \in States, known \in Knowledge :
        \/ \E m \in net : HandleHopState(m, n, a, known)
        \/ HandlePastryJoinResponse(n, a, known)
        \/ HandleStateMessage(n, a, known)
        \/ HandleRequestRepairResponse(n, a, known)
    \/ \E n \in config.nodes, known \in Knowledge : ProxAnswer(n, known) \/ ProxTimeout(n, known)
    \/ \E n \in config.nodes : HandleRpcTimeout(n) \/ HandlePastryJoinCall(n) \/ Die(n)
    \/ \E m \in net : Lose(m)
    \/ \E way \in {0} \cup DOMAIN p.ways, hop, path \in Paths : Reroute(way, hop, path)
    \/ HandleJoinTimeout \/ HandleReadyWait

Spec == Init /\ [][Next]_vars
-----------------------------------------------------------------------------
TypeOK ==
    /\ alive \subseteq Node /\ p.state \in {"JOIN", "READY", "CRASH"}
    /\ p.leaves \in [1 .. numberOfLeaves -> Node \cup {NoNode}]
    /\ p.pending \cup p.dead \cup p.repairs \cup p.heard \cup p.reported \subseteq Node
    /\ \A a \in p.awaiting : a.node \in Node /\ a.left \in BOOLEAN
    /\ \A i \in DOMAIN p.received : p.received[i].nodes \in Seq(Node)
    /\ Len(p.queue) <= QueueLimit

\* The places on the ring, from this node on.
Clockwise(leaves) ==
    [i \in 1 .. numberOfLeaves |-> IF i <= Half THEN leaves[Half + i] ELSE leaves[i - Half]]
\* The closest on both sides.
ClosestLeaves(nodes) ==
    {n \in nodes : \/ Cardinality({m \in nodes : m < n}) < Half
                   \/ Cardinality({m \in nodes : m > n}) < Half}

\* isSiblingFor() and createSiblingVector() are right when the leaf set is: the node is
\* responsible for a key if no other is closer, and the siblings that it names, if it names
\* any, are the closest.
SiblingsRight ==
    Leaves(p.leaves) = ClosestLeaves(config.nodes) =>
        \A key \in 0 .. Ring - 1 :
            /\ IsClosestNode(p.leaves, key) <=>
                   \A n \in config.nodes : Distance(n, key) >= Distance(Self, key)
            /\ \A num \in 1 .. Half :
                   CreateSiblingVector(p.leaves, key, num)
                       \in {{}, Closest(config.nodes \cup {Self}, num, key)}

\* However nodes are merged and fail, the leaf set holds the closest nodes heard of since
\* the last failure, in the order of the ring, without gaps, and with a neighbor on each
\* side once there are two (mergeNode(), insertLeaf(), balanceLeafSet()); and the application
\* has been told of the leaves, by callUpdate(), and of no others.
SlotsRight ==
    /\ TypeOK
    /\ LET c == Clockwise(p.leaves)
       IN  \A i, j \in 1 .. numberOfLeaves : i < j /\ NoNode \notin {c[i], c[j]} => c[i] < c[j]
    /\ \A i \in 2 .. Half : Free(p.leaves, i) => Free(p.leaves, i - 1)
    /\ \A i \in Half + 1 .. numberOfLeaves - 1 : Free(p.leaves, i) => Free(p.leaves, i + 1)
    /\ Leaves(p.leaves) = ClosestLeaves(p.heard)
    /\ p.valid \/ Cardinality(Leaves(p.leaves)) > 1 => IsValid(p.leaves)
    /\ p.reported = Leaves(p.leaves)

\* The leaf set holds what it should, and answers as all nodes together would.
LeafSetConsistent == SlotsRight /\ SiblingsRight

\* A node becomes ready with the leaf set of the last hop, the closest to it, in whatever order
\* states arrive, late and of whichever ways.  Only a longer way, or an earlier attempt,
\* can have another hop's state come after the last one's.
LeafSetFromLastHop ==
    p.basis.kind = "hop" => /\ p.basis.hop >= p.hops
                            /\ p.basis.way = 0 \/ p.ways[p.basis.way] > p.hops

\* The node never waits for what does not come: to join, it has a call, a timer or a ping
\* under way; a state that is processed waits for a ping; states are queued behind one
\* that is processed.
NothingStuck ==
    /\ p.state = "JOIN" => p.joinCall \/ p.readyWait \/ p.cached
    /\ p.cached => p.pending # {}
    /\ p.queue # << >> => p.cached

\* When a leaf fails and two or more are left, one of them is asked to repair the leaf set.
RepairBegins ==
    [][/\ p.state = "READY" /\ p'.state = "READY"
       /\ Cardinality(Leaves(p'.leaves)) < Cardinality(Leaves(p.leaves))
       /\ Cardinality(Leaves(p'.leaves)) > 1
       => \E a \in p'.awaiting : a.node \in Leaves(p'.leaves) \cap p'.repairs]_vars
=============================================================================
