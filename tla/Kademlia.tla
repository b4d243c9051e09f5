------------------------------- MODULE Kademlia -------------------------------
(***************************************************************************)
(* The routing tables of one Kademlia node (src/overlay/kademlia/): the    *)
(* sibling table, the buckets and their replacement caches, kept by the    *)
(* calls and answers that the node sees, by the nodes that these name and  *)
(* by timeouts; joining, and the neighbors reported to the application.    *)
(*                                                                         *)
(* A node is its XOR distance to this node (Self is 0), so that the        *)
(* sibling table is sorted by <.  b is 1.  Lookups, the nodes that they    *)
(* hear from and the bootstrap list are external: they do anything within  *)
(* the bounds of the configuration.                                        *)
(*                                                                         *)
(* Left out: time (any bucket may need a refresh), proximity and           *)
(* R/Kademlia, pingNewSiblings and newMaintenance (false by default), and  *)
(* nodes that change their address.                                        *)
(***************************************************************************)
EXTENDS Integers, Sequences, FiniteSets, SequencesExt, FiniteSetsExt

CONSTANTS
    Node,           \* the other nodes, by their distance to this one
    Key,            \* the keys that are looked up
    Dist(_, _),     \* the XOR metric, over Node and Key
    SiblingSize,    \* the size of the sibling table (s * 5)
    k,              \* the size of a bucket
    Candidates,     \* replacementCandidates
    Configs         \* a set of Config

Self   == 0
NoNode == -1

\* deaths, losses: how many nodes fail, and how many calls to live nodes time out.
\* answers: the most other nodes that a FindNodeResponse names.  lookups: how many run.
\* nodes, known: the nodes of the network, and of the bootstrap list.
Config == [secure : BOOLEAN, sibPing : BOOLEAN, maxStale : Nat, deaths : Nat,
           losses : Nat, answers : Nat, lookups : Nat, nodes : SUBSET Node, known : SUBSET Node]

ASSUME KademliaAssumption ==
    /\ Node \subseteq Nat \ {Self} /\ Node \cup {Self} \subseteq Key
    /\ SiblingSize \in Nat \ {0, 1} /\ {k, Candidates} \subseteq Nat \ {0}
    /\ Configs \subseteq Config
    /\ \A n \in Node : Dist(n, Self) = n /\ Dist(Self, n) = n
-----------------------------------------------------------------------------
VARIABLES
    config,     \* one of Configs, and what is left of its bounds
    alive,      \* the other nodes that are alive
    kad         \* this node

vars == <<config, alive, kad>>

\* KademliaBucketEntry.
Fresh(n) == [node |-> n, stale |-> 0, pingSent |-> FALSE]
Nodes(entries) == {entries[i].node : i \in DOMAIN entries}

\* The index of the bucket of a node or key: the highest bit of its distance, -1 for
\* this node's own key.
HighestBit == [n \in Key |-> IF n = Self THEN -1 ELSE CHOOSE i \in 0 .. n : 2 ^ i <= n /\ n < 2 ^ (i + 1)]
RoutingBucketIndex(n) == HighestBit[n]
Index == {HighestBit[n] : n \in Node}

Siblings(s)     == Nodes(s.siblings)
Bucket(s, n)    == s.buckets[RoutingBucketIndex(n)]
InBuckets(s)    == UNION {Nodes(s.buckets[i]) : i \in Index}
Known(s)        == Siblings(s) \cup InBuckets(s) \cup {Self}
SiblingsFull(s) == Len(s.siblings) = SiblingSize

\* KademliaBucket::add(): sorted by distance; the table is cut by its owner.
\* Slip: added in front.
Prepended(entries, e) == <<e>> \o entries
Inserted(entries, e) ==
    LET before == Cardinality({i \in DOMAIN entries : entries[i].node < e.node})
    IN  InsertAt(entries, before + 1, e)
Without(entries, n) == SelectSeq(entries, LAMBDA e : e.node # n)
Changed(entries, n, e) == [i \in DOMAIN entries |-> IF entries[i].node = n THEN e ELSE entries[i]]
EntryOf(entries, n) == CHOOSE e \in Range(entries) : e.node = n

PingNode(s, n) == [s EXCEPT !.calls = @ \cup {<<"ping", n>>}]

\* callUpdate(): what the application knows of the siblings.
Reports(s, n, joined) ==
    [s EXCEPT !.reported = IF joined THEN @ \cup {n} ELSE @ \ {n}]
-----------------------------------------------------------------------------
(***************************************************************************)
(* Joining                                                                 *)
(***************************************************************************)
\* Slip: the state is kept.
TablesEmptied(s) ==
    [s EXCEPT !.siblings = << >>, !.buckets = [i \in Index |-> << >>],
              !.caches = [i \in Index |-> << >>], !.reported = {}]
\* The tables are emptied; the application is not told about their nodes, and starts
\* anew here.
RoutingDeinit(s) ==
    [s EXCEPT !.siblings = << >>, !.buckets = [i \in Index |-> << >>],
              !.caches = [i \in Index |-> << >>], !.reported = {}, !.state = "INIT"]

\* bootstrap: what the bootstrap list offers, or NoNode.
JoinOverlay(s, bootstrap) ==
    LET t == RoutingDeinit(s)
    IN  IF bootstrap = NoNode THEN [t EXCEPT !.state = "READY", !.timer = TRUE]
        ELSE IF config.secure THEN [t EXCEPT !.calls = @ \cup {<<"find", bootstrap>>}]
        ELSE PingNode(t, bootstrap)

Bootstraps == config.known \cup (IF config.known \cap alive = {} THEN {NoNode} ELSE {})
-----------------------------------------------------------------------------
(***************************************************************************)
(* The tables                                                              *)
(***************************************************************************)
Pinged(s, i) ==
    LET idle == {j \in DOMAIN s.buckets[i] : ~s.buckets[i][j].pingSent}
    IN  IF idle = {} THEN s
        ELSE PingNode([s EXCEPT !.buckets[i][Min(idle)].pingSent = TRUE],
                      s.buckets[i][Min(idle)].node)

\* The end of routingAdd(): an entry without a place in the sibling table.  known
\* says that the round trip time to the node that was seen is known.
AddToBucket(s, e, isAlive, known) ==
    LET i     == RoutingBucketIndex(e.node)
        cache == <<e>> \o s.caches[i]
        cut   == SubSeq(cache, 1, Min({Len(cache), Candidates}))
        trusted == ~config.secure \/ (isAlive /\ known)
    IN  IF Len(s.buckets[i]) < k
        THEN IF trusted THEN [s EXCEPT !.buckets[i] = Append(@, e)]
             ELSE IF isAlive THEN PingNode(s, e.node) ELSE s
        ELSE IF isAlive /\ trusted
        THEN Pinged([s EXCEPT !.caches[i] = cut], i)
        ELSE s

\* Slip: only as long as there is room.
HasRoom(s, n) == ~SiblingsFull(s)
IsAddable(s, n) == ~SiblingsFull(s) \/ n <= Last(s.siblings).node

\* Slip: only the new sibling is reported.
PreemptedQuietly(s, n) == s
ReportsPreempted(s, n) == IF config.secure THEN s ELSE Reports(s, n, FALSE)

\* The node preempted from the sibling table goes to a bucket.
AddSibling(s, n, isAlive, known) ==
    LET old   == Last(s.siblings)
        added == [s EXCEPT !.siblings = Inserted(@, Fresh(n))]
        cut   == [added EXCEPT !.siblings = Front(@)]
    IN  IF SiblingsFull(s)
        THEN AddToBucket(Reports(ReportsPreempted(cut, old.node), n, TRUE), old, isAlive, known)
        ELSE Reports(added, n, TRUE)

\* isAlive: the node was heard from.  maintenance: by a message of maintenance.
RoutingAdd(s, n, isAlive, known, maintenance) ==
    LET i       == RoutingBucketIndex(n)
        trusted == ~config.secure \/ (isAlive /\ known)
    IN  CASE n = Self -> s
          [] n \in Siblings(s) ->
                IF isAlive /\ trusted THEN [s EXCEPT !.siblings = Changed(@, n, Fresh(n))] ELSE s
          [] n \in InBuckets(s) ->
                IF isAlive /\ trusted THEN [s EXCEPT !.buckets[i] = Append(Without(@, n), Fresh(n))] ELSE s
          [] n \notin Known(s) /\ IsAddable(s, n) ->
                IF trusted THEN AddSibling(s, n, isAlive, known)
                ELSE IF ~maintenance \/ isAlive THEN PingNode(s, n) ELSE s
          [] OTHER -> AddToBucket(s, Fresh(n), isAlive, known)

\* The closest node of the first bucket that is not empty moves up.
RefillSiblingTable(s) ==
    LET first == RoutingBucketIndex(Last(s.siblings).node) - 1
        full  == {i \in Index : i >= first /\ s.buckets[i] # << >>}
        e     == EntryOf(s.buckets[Min(full)], Min(Nodes(s.buckets[Min(full)])))
        t     == [s EXCEPT !.siblings = Inserted(@, e), !.buckets[Min(full)] = Without(@, e.node)]
    IN  IF s.siblings = << >> \/ SiblingsFull(s) \/ full = {} THEN s
        ELSE IF config.secure THEN t ELSE Reports(t, e.node, TRUE)

Lost(s, n) == [s EXCEPT !.siblings = Without(@, n)]

\* The place of a lost node is taken by the one that was put into the cache last.
Replaced(s, i) ==
    IF s.caches[i] = << >> THEN s
    ELSE LET t == RoutingAdd(s, Head(s.caches[i]).node, TRUE, TRUE, FALSE)
         IN  [t EXCEPT !.caches[i] = Tail(@)]

Stale(e) == [e EXCEPT !.stale = @ + 1, !.pingSent = FALSE]

RoutingTimeout(s, n, bootstrap) ==
    LET i      == RoutingBucketIndex(n)
        e      == IF n \in Siblings(s) THEN Stale(EntryOf(s.siblings, n))
                  ELSE Stale(EntryOf(s.buckets[i], n))
        isGone == e.stale > config.maxStale
    IN  CASE n \notin Known(s) -> s
          [] n \in Siblings(s) ->
                IF ~isGone THEN [s EXCEPT !.siblings = Changed(@, n, e)]
                ELSE IF Len(s.siblings) = 1 THEN JoinOverlay(s, bootstrap)
                ELSE Reports(RefillSiblingTable(Lost(s, n)), n, FALSE)
          [] OTHER ->
                IF ~isGone THEN [s EXCEPT !.buckets[i] = Changed(@, n, e)]
                ELSE Replaced([s EXCEPT !.buckets[i] = Without(@, n)], i)

\* Nobody replaces a node of a bucket here, and nobody joins again.
HandleFailedNode(s, n) ==
    IF n \in Siblings(s) THEN RefillSiblingTable(Reports(Lost(s, n), n, FALSE))
    ELSE IF n \in InBuckets(s)
    THEN [s EXCEPT !.buckets[RoutingBucketIndex(n)] = Without(@, n)]
    ELSE s
-----------------------------------------------------------------------------
(***************************************************************************)
(* findNode()                                                              *)
(***************************************************************************)
\* What a sorted vector of this size holds after these nodes were added.
Closest(nodes, num, key) ==
    {n \in nodes : Cardinality({m \in nodes : Dist(m, key) < Dist(n, key)}) < num}

\* Whether this node holds itself for one of the siblings of a key (false with err).
IsSiblingFor(s, key, num) ==
    /\ s.state = "READY"
    /\ \/ num = 0 /\ key = Self
       \/ num > 0 /\ Len(s.siblings) < num
       \/ /\ num > 0
          /\ SiblingsFull(s) => key <= Last(s.siblings).node
          /\ Self \in Closest(Siblings(s) \cup {Self}, num, key)

NodesIn(s, indices) == UNION {Nodes(s.buckets[i]) : i \in indices \cap Index}

\* The buckets that are scanned downwards from the key's.
\* Slip: the last one is left out.
ScannedButLast(s, end, main) == NodesIn(s, end + 1 .. main)
Scanned(s, end, main)        == NodesIn(s, end .. main)

FindNode(s, key, redundant, num) ==
    LET size   == IF IsSiblingFor(s, key, num) THEN Max({num, 1}) ELSE redundant
        main   == RoutingBucketIndex(key)
        end    == RoutingBucketIndex(Last(s.siblings).node)
        best   == NodesIn(s, {main})
        lower  == Scanned(s, end, main) \cup Siblings(s) \cup {Self}
        near   == IF main >= end \/ Cardinality(best) < size THEN best \cup lower ELSE best
        upTo(i) == near \cup NodesIn(s, main + 1 .. i)
        higher == {i \in Index : i > main /\ Cardinality(upTo(i - 1)) < size}
    IN  IF s.siblings = << >> THEN {Self}
        ELSE Closest(near \cup NodesIn(s, higher), size, key)
-----------------------------------------------------------------------------
(***************************************************************************)
(* Calls, answers and timeouts                                             *)
(***************************************************************************)
Init ==
    /\ config \in Configs
    /\ alive = config.nodes
    /\ \E b \in Bootstraps :
        kad = JoinOverlay([state |-> "INIT", siblings |-> << >>, buckets |-> << >>, caches |-> << >>,
                           calls |-> {}, reported |-> {}, timer |-> FALSE, lookups |-> 0,
                           blamed |-> NoNode], b)

\* History: the node whose failure a step handles.
Blame(s, n) == [s EXCEPT !.blamed = n]
Calm(s)     == Blame(s, NoNode)
Keeps       == UNCHANGED <<config, alive>>

\* A PingCall or a FindNodeCall arrives.
HandleRpcCall(n, maintenance) ==
    /\ n \in alive
    /\ kad' = Calm(RoutingAdd(kad, n, TRUE, FALSE, maintenance))
    /\ Keeps

\* The timer is started when the bootstrap node has answered.
Joins(s) == [s EXCEPT !.state = "JOIN", !.timer = TRUE]

HandlePingResponse(n) ==
    LET t == [kad EXCEPT !.calls = @ \ {<<"ping", n>>}]
    IN  /\ n \in alive /\ <<"ping", n>> \in kad.calls
        /\ kad' = Calm(RoutingAdd(IF t.state = "INIT" THEN Joins(t) ELSE t, n, TRUE, TRUE, FALSE))
        /\ Keeps

\* The nodes that an answer names: not heard from, except by a joining node.
AddAll(s, nodes, joining, maintenance) ==
    FoldLeft(LAMBDA t, n : RoutingAdd(t, n, joining, joining, maintenance), s, nodes)

\* A lookup for the tables or, on a READY node, of the application.
LookupRuns == kad.lookups > 0 \/ kad.state = "READY"

\* The answer to a call of a lookup, or to the FindNodeCall of a joining node.
HandleFindNodeResponse(n, nodes, maintenance) ==
    LET joining == kad.state = "INIT"
        t == [kad EXCEPT !.calls = @ \ {<<"find", n>>}]
        u == IF joining THEN RoutingAdd(Joins(t), n, TRUE, TRUE, maintenance) ELSE t
    IN  /\ n \in alive /\ (LookupRuns \/ <<"find", n>> \in kad.calls)
        /\ kad' = Calm(RoutingAdd(AddAll(u, nodes, joining, maintenance), n, TRUE, TRUE, maintenance))
        /\ Keeps

\* A call to n times out: a node that has not joined yet tries another bootstrap node.
TimesOut(s, n) == \E b \in Bootstraps :
    kad' = Blame(IF s.state = "INIT" THEN JoinOverlay(s, b) ELSE RoutingTimeout(s, n, b), n)

Unanswered(n) ==
    \/ n \notin alive /\ Keeps
    \/ /\ config.losses > 0 /\ n \in alive
       /\ config' = [config EXCEPT !.losses = @ - 1] /\ UNCHANGED alive

HandleRpcTimeout(c) ==
    /\ c \in kad.calls /\ Unanswered(c[2])
    /\ TimesOut([kad EXCEPT !.calls = @ \ {c}], c[2])

\* A FindNodeCall of a lookup.
HandleFindNodeTimeout(n) ==
    /\ LookupRuns /\ Unanswered(n)
    /\ TimesOut(kad, n)

\* A FailedNodeCall, or the timeout of a message that is routed over n.
HandleFailedNodeCall(n) ==
    /\ n \notin alive
    /\ kad' = Blame(HandleFailedNode(kad, n), n)
    /\ Keeps

HandleNextHopTimeout(n) ==
    LET t == HandleFailedNode(kad, n)
    IN  /\ kad.state = "READY" /\ Unanswered(n)
        /\ \E b \in Bootstraps :
            kad' = Blame(IF t.siblings # << >> THEN t ELSE JoinOverlay(t, b), n)
-----------------------------------------------------------------------------
(***************************************************************************)
(* Timers and lookups                                                      *)
(***************************************************************************)
\* stale: the sibling table or a bucket has not been used for long.
HandleBucketRefreshTimerExpired(stale) ==
    LET looks == stale \/ kad.state # "READY"
    IN  /\ kad.timer
        /\ looks => kad.lookups < config.lookups
        /\ kad' = Calm([kad EXCEPT !.lookups = IF looks THEN @ + 1 ELSE @,
                                   !.timer = kad.state = "READY"])
        /\ Keeps

HandleSiblingPingTimer ==
    /\ config.sibPing
    /\ kad' = Calm([kad EXCEPT !.calls = @ \cup {<<"ping", n>> : n \in Siblings(kad)}])
    /\ Keeps

LookupFinished ==
    LET t == [kad EXCEPT !.lookups = @ - 1]
    IN  /\ kad.lookups > 0
        /\ \E b \in Bootstraps :
            kad' = Calm(IF kad.state # "JOIN" THEN t
                        ELSE IF kad.siblings = << >> THEN JoinOverlay([t EXCEPT !.timer = FALSE], b)
                        ELSE [t EXCEPT !.timer = TRUE, !.state = "READY"])
        /\ Keeps

Die(n) ==
    /\ config.deaths > 0 /\ n \in alive
    /\ config' = [config EXCEPT !.deaths = @ - 1]
    /\ alive' = alive \ {n}
    /\ kad' = Calm(kad)

Maintenance == IF config.secure THEN BOOLEAN ELSE {FALSE}
Answers == {a \in SeqOf(config.nodes, config.answers) : IsInjective(a)}

Next ==
    \/ \E n \in config.nodes :
        \/ \E m \in Maintenance : HandleRpcCall(n, m)
        \/ HandlePingResponse(n)
        \/ \E a \in Answers, m \in Maintenance : HandleFindNodeResponse(n, a, m)
        \/ HandleFindNodeTimeout(n)
        \/ HandleFailedNodeCall(n) \/ HandleNextHopTimeout(n)
        \/ Die(n)
    \/ \E c \in kad.calls : HandleRpcTimeout(c)
    \/ \E stale \in BOOLEAN : HandleBucketRefreshTimerExpired(stale)
    \/ HandleSiblingPingTimer
    \/ LookupFinished

\* The bootstrap list names a live node, if there is one, once in a while.
LivelyBootstrap == kad'.state = "INIT" => \E c \in kad'.calls : c[2] \in alive

\* Calls end, timers expire and lookups finish.
Fairness ==
    /\ \A n \in Node : WF_vars(HandlePingResponse(n))
    /\ \A n \in Node : WF_vars(HandleFindNodeResponse(n, << >>, TRUE))
    /\ WF_vars(\E c \in kad.calls : c[2] \notin alive /\ HandleRpcTimeout(c) /\ LivelyBootstrap)
    /\ WF_vars(\E stale \in BOOLEAN : HandleBucketRefreshTimerExpired(stale))
    /\ WF_vars(LookupFinished)

Spec == Init /\ [][Next]_vars /\ Fairness
-----------------------------------------------------------------------------
IsEntry(e) == e.node \in Node /\ e.stale \in 0 .. config.maxStale /\ e.pingSent \in BOOLEAN

TypeOK ==
    /\ alive \subseteq Node /\ kad.state \in {"INIT", "JOIN", "READY"}
    /\ \A e \in Range(kad.siblings) : IsEntry(e)
    /\ \A i \in Index : \A e \in Range(kad.buckets[i]) \cup Range(kad.caches[i]) : IsEntry(e)
    /\ kad.calls \subseteq {"ping", "find"} \X Node
    /\ kad.reported \subseteq Node /\ kad.timer \in BOOLEAN /\ kad.lookups \in 0 .. config.lookups

\* The tables agree with each other after every handler: the siblings are sorted and
\* the closest nodes known; a bucket holds other nodes, of its own distance, and only
\* once the sibling table is full (the assertions of refillSiblingTable()); nothing
\* grows beyond its size; and who is marked as pinged has a ping to answer.
TablesConsistent ==
    /\ TypeOK
    /\ Len(kad.siblings) <= SiblingSize
    /\ \A i, j \in DOMAIN kad.siblings : i < j => kad.siblings[i].node < kad.siblings[j].node
    /\ \A i \in Index :
        /\ Len(kad.buckets[i]) <= k /\ Len(kad.caches[i]) <= Candidates
        /\ Cardinality(Nodes(kad.buckets[i])) = Len(kad.buckets[i])
        /\ \A n \in Nodes(kad.buckets[i]) :
            RoutingBucketIndex(n) = i /\ SiblingsFull(kad) /\ n > Last(kad.siblings).node
    /\ \A e \in Range(kad.siblings) \cup UNION {Range(kad.buckets[i]) : i \in Index} :
        e.pingSent => <<"ping", e.node>> \in kad.calls

\* Since it joined, the application was told of each node that became a sibling, and
\* of each that is one no longer: what was reported is the table (callUpdate() in
\* routingAdd(), routingTimeout(), refillSiblingTable() and handleFailedNode();
\* secureMaintenance leaves some of these out).
SiblingsReported == ~config.secure => kad.reported = Siblings(kad)

\* findNode() finds the node closest to any key that this node knows of, though it
\* looks at few of the buckets; and all of the closest, unless some sibling shares
\* less of the key than this node does (then a bucket may hold closer ones).
FindNodeReturnsClosest ==
    \A key \in Key, redundant \in 2 .. 3, num \in 0 .. 1 :
        LET size   == IF IsSiblingFor(kad, key, num) THEN Max({num, 1}) ELSE redundant
            result == FindNode(kad, key, redundant, num)
            far    == \A n \in Siblings(kad) : RoutingBucketIndex(n) <= RoutingBucketIndex(key)
        IN  /\ Closest(Known(kad), 1, key) \subseteq result
            /\ far \/ key = Self => result = Closest(Known(kad), size, key)

\* A sibling is replaced by closer nodes, or has failed, or the node starts to join once
\* more before it has joined: what others say never makes the table worse.
SiblingsOnlyGetCloser ==
    [][\A n \in Siblings(kad) \ Siblings(kad') :
          \/ kad'.blamed = n \/ (kad.state = "INIT" /\ kad'.siblings = << >>)
          \/ SiblingsFull(kad') /\ n > Last(kad'.siblings).node]_vars

\* A node that joins becomes READY in the end, though bootstrap nodes fail.
JoinEnds == []<>(kad.state = "READY")
=============================================================================
