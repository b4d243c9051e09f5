-------------------------------- MODULE Scribe --------------------------------
(***************************************************************************)
(* One multicast group of Scribe (src/applications/scribe/): the tree that *)
(* the joins of its members build on the way to the node closest to the    *)
(* group's key, how it follows nodes that come and fail, and how data is   *)
(* published to it.                                                        *)
(*                                                                         *)
(* A node is the rank of its distance to the key.  The overlay is external:*)
(* it routes over any known node that is closer, takes another way when    *)
(* the next hop has failed, as Pastry does with acknowledgements, and      *)
(* calls update() at each node some time after a change.                   *)
(*                                                                         *)
(* Heartbeats and refreshes are no messages here: a timer expires when     *)
(* those that would restart it are no longer sent, and may do so when some *)
(* were lost.                                                              *)
(***************************************************************************)
EXTENDS Integers, FiniteSets, FiniteSetsExt

CONSTANTS
    Node,           \* ranks of nodes by distance to the key
    Configs         \* a set of Config

None == 0

\* members: the nodes at the beginning.  users, sources: the nodes whose applications
\* subscribe and publish.  prompt: messages arrive before a timer expires.  The others
\* bound what happens.
Config == [members : SUBSET Node, users : SUBSET Node, sources : SUBSET Node, joins : Nat,
           failures : Nat, subscribes : Nat, leaves : Nat, publishes : Nat, losses : Nat,
           prompt : BOOLEAN]

ASSUME ScribeAssumption == /\ Node \subseteq Nat \ {None}
                           /\ \A c \in Configs : c \in Config /\ c.members # {}
-----------------------------------------------------------------------------
VARIABLES
    config,             \* one of Configs, and what is left of its bounds
    alive,              \* the nodes of the overlay
    known,              \* the nodes that each of them knows
    group,              \* the ScribeGroup of each node
    childTimeoutList,   \* the children of each node that have a timer
    msgs,               \* the messages on their way
    data                \* history: what became of the published data

vars == <<config, alive, known, group, childTimeoutList, msgs, data>>

\* there: the group is in groupList.  parentTimer, heartbeat: these timers run.
NoGroup == [there |-> FALSE, parent |-> None, children |-> {}, subscribed |-> FALSE,
            source |-> FALSE, rendezvous |-> None, parentTimer |-> FALSE, heartbeat |-> FALSE]

\* routed: on the way to the key, not to a node.  id: of published data.
Msg(type, src, dst) == [type |-> type, src |-> src, dst |-> dst, routed |-> FALSE, wrongRoot |-> FALSE, id |-> 0]
Routed(type, src, dst) == [Msg(type, src, dst) EXCEPT !.routed = TRUE]

Hops(n) == LET closer == {k \in known[n] : k < n} IN IF closer = {} THEN {n} ELSE closer

Uses(bound) == config[bound] > 0 /\ config' = [config EXCEPT ![bound] = @ - 1]

\* Joins that a node sends to the key, if it asks for a parent.
Joins(n, asks, hop) == IF asks THEN {Routed("join", n, hop)} ELSE {}
-----------------------------------------------------------------------------
(***************************************************************************)
(* Children                                                                *)
(***************************************************************************)
IsForwarder(g) == g.children # {}

\* checkGroupEmpty(): the group is erased when nobody needs it, and its timers with it.
IsEmpty(g) == ~IsForwarder(g) /\ ~g.subscribed /\ ~g.source
Checked(g) == IF g.there /\ IsEmpty(g) THEN NoGroup ELSE g
Leaves(n, g) ==
    IF g.there /\ IsEmpty(g) /\ g.parent \notin {None, n} THEN {Msg("leave", n, g.parent)} ELSE {}

AddChild(n, g, c) == IF c = n THEN g ELSE [g EXCEPT !.children = @ \cup {c}]

\* Slip: the timer is not found.
TimersKept(list, c) == list
WithoutTimer(list, c) == list \ {c}

\* removeChildFromGroup()
RemoveChild(n, c) ==
    LET g == [group[n] EXCEPT !.children = @ \ {c}]
    IN  /\ group' = [group EXCEPT ![n] = Checked(g)]
        /\ childTimeoutList' = [childTimeoutList EXCEPT ![n] = WithoutTimer(@, c)]

\* Slip: only a new group asks.
AsksWhenNew(g) == ~g.there
Asks(g) == ~g.there \/ g.parent = None
-----------------------------------------------------------------------------
(***************************************************************************)
(* The application                                                         *)
(***************************************************************************)
SubscribeToGroup(n) ==
    /\ Uses("subscribes") /\ n \in alive \cap config.users /\ ~group[n].subscribed
    /\ group' = [group EXCEPT ![n].there = TRUE, ![n].subscribed = TRUE]
    /\ \E hop \in Hops(n) : msgs' = msgs \cup Joins(n, Asks(group[n]), hop)
    /\ UNCHANGED <<alive, known, childTimeoutList, data>>

LeaveGroup(n) ==
    LET g == [group[n] EXCEPT !.subscribed = FALSE]
    IN  /\ Uses("leaves") /\ n \in alive /\ group[n].subscribed
        /\ group' = [group EXCEPT ![n] = Checked(g)]
        /\ msgs' = msgs \cup Leaves(n, g)
        /\ data' = [data EXCEPT !.steady = FALSE]
        /\ UNCHANGED <<alive, known, childTimeoutList>>

\* deliverALMDataToRoot()
Publish(n) ==
    LET g == group[n]
    IN  /\ Uses("publishes") /\ n \in alive \cap config.sources
        /\ group' = [group EXCEPT ![n].there = TRUE, ![n].source = @ \/ ~g.there]
        /\ IF g.rendezvous # None
           THEN msgs' = msgs \cup {[Msg("publish", n, g.rendezvous) EXCEPT !.id = config.publishes]}
           ELSE \E hop \in Hops(n) :
                msgs' = msgs \cup {[Routed("publish", n, hop) EXCEPT !.id = config.publishes]}
        /\ UNCHANGED <<alive, known, childTimeoutList, data>>
-----------------------------------------------------------------------------
(***************************************************************************)
(* Messages                                                                *)
(***************************************************************************)
\* forward() takes a join of another node at the first hop, and deliver() one of this
\* node, which is then the root.
HandleJoinMessage(m) ==
    LET n == m.dst
        g == group[n]
        amIRoot == m.src = n
        joined  == [g EXCEPT !.there = TRUE, !.heartbeat = @ \/ ~IsForwarder(g)]
    IN  /\ m.type = "join" /\ n \in alive
        /\ group' = [group EXCEPT ![n] = AddChild(n, joined, m.src)]
        /\ childTimeoutList' = [childTimeoutList EXCEPT ![n] = @ \cup ({m.src} \ {n})]
        /\ \E hop \in Hops(n) :
            msgs' = (msgs \ {m}) \cup {Msg("joinResponse", n, m.src)} \cup Joins(n, ~amIRoot /\ Asks(g), hop)
        /\ UNCHANGED <<config, alive, known, data>>

HandleJoinResponse(m) ==
    LET n == m.dst
    IN  /\ m.type = "joinResponse" /\ n \in alive
        /\ group' = IF group[n].there
                    THEN [group EXCEPT ![n].parent = m.src, ![n].parentTimer = TRUE] ELSE group
        /\ msgs' = msgs \ {m}
        /\ UNCHANGED <<config, alive, known, childTimeoutList, data>>

HandleLeaveMessage(m) ==
    LET n == m.dst
    IN  /\ m.type = "leave" /\ n \in alive
        /\ IF group[n].there
           THEN /\ RemoveChild(n, m.src)
                /\ msgs' = (msgs \ {m}) \cup Leaves(n, [group[n] EXCEPT !.children = @ \ {m.src}])
           ELSE UNCHANGED <<group, childTimeoutList>> /\ msgs' = msgs \ {m}
        /\ UNCHANGED <<config, alive, known, data>>

\* The node is where data for the group passes: it is the root, or the child of one other
\* node, its parent.
InTree(n) ==
    IF n = Min(alive) THEN group[n].parent = n
    ELSE /\ group[n].parent \in alive
         /\ {p \in alive : n \in group[p].children} = {group[n].parent}
Members == {n \in alive : group[n].subscribed \/ IsForwarder(group[n])}

\* History: the nodes that are to get it, if the tree is whole and no join can change it.
Owed(id) ==
    IF (\E n \in Members : ~InTree(n)) \/ (\E m \in msgs : m.type = "join") THEN data
    ELSE [data EXCEPT !.owed = @ \cup {<<n, id>> : n \in Members}]

\* deliverALMDataToGroup()
\* Slip: only subscribers pass it on.
CopiesIfSubscribed(n, id) ==
    {[Msg("data", n, c) EXCEPT !.id = id] : c \in IF group[n].subscribed THEN group[n].children ELSE {}}
Copies(n, id) == {[Msg("data", n, c) EXCEPT !.id = id] : c \in group[n].children}
\* History: a node that has subscribed hands it to the application, too.
Got(d, n, id) ==
    [d EXCEPT !.got = @ \cup {<<n, id>>}, !.twice = @ \/ <<n, id>> \in d.got \cap d.owed]

HandlePublishCall(m) ==
    LET n == m.dst
        isRoot == group[n].there /\ group[n].parent = n
        answer == [Msg("publishResponse", n, m.src) EXCEPT !.wrongRoot = ~isRoot]
    IN  /\ m.type = "publish" /\ n \in alive
        /\ IF m.routed /\ Hops(n) # {n}
           THEN \E hop \in Hops(n) :
                msgs' = (msgs \ {m}) \cup {[m EXCEPT !.dst = hop]} /\ UNCHANGED data
           ELSE IF isRoot THEN msgs' = (msgs \ {m}) \cup {answer} \cup Copies(n, m.id) /\ data' = Got(Owed(m.id), n, m.id)
           ELSE msgs' = (msgs \ {m}) \cup {answer} /\ UNCHANGED data
        /\ UNCHANGED <<config, alive, known, group, childTimeoutList>>

HandlePublishResponse(m) ==
    /\ m.type = "publishResponse" /\ m.dst \in alive
    /\ group' = IF ~group[m.dst].there THEN group
                ELSE [group EXCEPT ![m.dst].rendezvous = IF m.wrongRoot THEN None ELSE m.src]
    /\ msgs' = msgs \ {m}
    /\ UNCHANGED <<config, alive, known, childTimeoutList, data>>

HandleData(m) ==
    /\ m.type = "data" /\ m.dst \in alive
    /\ IF group[m.dst].there THEN msgs' = (msgs \ {m}) \cup Copies(m.dst, m.id) /\ data' = Got(data, m.dst, m.id)
       ELSE msgs' = msgs \ {m} /\ UNCHANGED data
    /\ UNCHANGED <<config, alive, known, group, childTimeoutList>>
-----------------------------------------------------------------------------
(***************************************************************************)
(* Timers.  Whoever has the node among its children sends it heartbeats;   *)
(* a child refreshes its timer at its parent.                              *)
(***************************************************************************)
Heard(n)        == \E p \in alive : n \in group[p].children /\ group[p].heartbeat
Refreshed(n, c) == c \in alive /\ group[c].parent = n

Expires == config.prompt => msgs = {}

HandleParentTimeout(n) ==
    /\ Expires /\ n \in alive /\ group[n].parentTimer
    /\ IF Heard(n) THEN Uses("losses") /\ data' = [data EXCEPT !.steady = FALSE]
       ELSE UNCHANGED <<config, data>>
    /\ group' = [group EXCEPT ![n].parentTimer = FALSE]
    /\ \E hop \in Hops(n) : msgs' = msgs \cup Joins(n, TRUE, hop)
    /\ UNCHANGED <<alive, known, childTimeoutList>>

HandleChildTimeout(n, c) ==
    /\ Expires /\ n \in alive /\ c \in childTimeoutList[n]
    /\ IF Refreshed(n, c) THEN Uses("losses") ELSE UNCHANGED config
    /\ IF group[n].there
       THEN RemoveChild(n, c) /\ msgs' = msgs \cup Leaves(n, [group[n] EXCEPT !.children = @ \ {c}])
       ELSE /\ childTimeoutList' = [childTimeoutList EXCEPT ![n] = WithoutTimer(@, c)]
            /\ UNCHANGED <<group, msgs>>
    /\ data' = [data EXCEPT !.steady = FALSE]
    /\ UNCHANGED <<alive, known>>
-----------------------------------------------------------------------------
(***************************************************************************)
(* The overlay                                                             *)
(***************************************************************************)
\* Slip: whatever node it is.
AnyNode(x, n)  == x # n
IsCloser(x, n) == x < n

\* update(): the root asks a node that is closer to take over.
Updates(n, x) == IF group[n].parent = n /\ IsCloser(x, n) THEN {Msg("join", n, x)} ELSE {}

Appear(x) ==
    /\ Uses("joins") /\ x \in Node \ alive
    /\ alive' = alive \cup {x}
    /\ known' = [known EXCEPT ![x] = alive]
    /\ data' = [data EXCEPT !.steady = FALSE]
    /\ UNCHANGED <<group, childTimeoutList, msgs>>

Learn(n, x) ==
    /\ n \in alive /\ x \in alive \ ({n} \cup known[n])
    /\ known' = [known EXCEPT ![n] = @ \cup {x}]
    /\ msgs' = msgs \cup Updates(n, x)
    /\ UNCHANGED <<config, alive, group, childTimeoutList, data>>

\* A node that comes back has another address.
Fail(x) ==
    /\ Uses("failures") /\ x \in alive /\ alive # {x}
    /\ alive' = alive \ {x}
    /\ known' = [known EXCEPT ![x] = {}]
    /\ group' = [group EXCEPT ![x] = NoGroup]
    /\ childTimeoutList' = [childTimeoutList EXCEPT ![x] = {}]
    /\ data' = [data EXCEPT !.steady = FALSE]
    /\ UNCHANGED msgs

\* What was sent to a node that has failed is lost, a join to the key finds another way.
Forget(n, x) ==
    /\ n \in alive /\ x \in known[n] \ alive
    /\ known' = [known EXCEPT ![n] = @ \ {x}]
    /\ LET stopped == {m \in msgs : m.dst = x /\ m.src = n}
           again   == \E m \in stopped : m.type = "join" /\ m.routed
           hops    == LET closer == {k \in known[n] \ {x} : k < n} IN IF closer = {} THEN {n} ELSE closer
       IN  \E hop \in hops : msgs' = (msgs \ stopped) \cup Joins(n, again, hop)
    /\ UNCHANGED <<config, alive, group, childTimeoutList, data>>

Drop(m) ==
    /\ m.dst \notin alive /\ ~(m.type = "join" /\ m.routed /\ m.src \in alive)
    /\ msgs' = msgs \ {m}
    /\ UNCHANGED <<config, alive, known, group, childTimeoutList, data>>

Lose(m) ==
    /\ Uses("losses")
    /\ msgs' = msgs \ {m}
    /\ data' = [data EXCEPT !.steady = FALSE]
    /\ UNCHANGED <<alive, known, group, childTimeoutList>>
-----------------------------------------------------------------------------
Init ==
    /\ config \in Configs
    /\ alive = config.members
    /\ known = [n \in Node |-> IF n \in alive THEN alive \ {n} ELSE {}]
    /\ group = [n \in Node |-> NoGroup]
    /\ childTimeoutList = [n \in Node |-> {}]
    /\ msgs = {}
    /\ data = [steady |-> TRUE, owed |-> {}, got |-> {}, twice |-> FALSE]

Receive(m) ==
    \/ HandleJoinMessage(m) \/ HandleJoinResponse(m) \/ HandleLeaveMessage(m)
    \/ HandlePublishCall(m) \/ HandlePublishResponse(m) \/ HandleData(m) \/ Drop(m)

Next ==
    \/ \E m \in msgs : Receive(m) \/ Lose(m)
    \/ \E n \in Node : \/ SubscribeToGroup(n) \/ LeaveGroup(n) \/ Publish(n)
                       \/ HandleParentTimeout(n) \/ Appear(n) \/ Fail(n)
    \/ \E n, x \in Node : HandleChildTimeout(n, x) \/ Learn(n, x) \/ Forget(n, x)

Spec == Init /\ [][Next]_vars
-----------------------------------------------------------------------------
TypeOK ==
    /\ alive \subseteq Node /\ known \in [Node -> SUBSET Node]
    /\ \A n \in Node :
        /\ group[n].parent \in Node \cup {None} /\ group[n].rendezvous \in Node \cup {None}
        /\ group[n].children \cup childTimeoutList[n] \subseteq Node
        /\ ~group[n].there => group[n] = NoGroup

\* The timers agree with the children: each child can time out, nothing else does, and who
\* has children sends heartbeats (addChildToGroup(), removeChildFromGroup(), and groups
\* that are erased and come back).  And a parent is closer to the key than its child:
\* whatever happens, the tree has no cycle (update() and the routing).
TreeConsistent ==
    /\ TypeOK
    /\ \A n \in alive : /\ childTimeoutList[n] = group[n].children
                        /\ IsForwarder(group[n]) => group[n].heartbeat
    /\ \A n \in Node : group[n].parent \in {None} \cup 1 .. n

\* Nothing is on its way, the overlay is settled, and no timer but the root's expires.
Quiet ==
    /\ msgs = {} /\ config.losses = 0
    /\ \A n \in alive : known[n] = alive \ {n}
    /\ \A n \in alive : group[n].parentTimer => Heard(n) \/ (n = Min(alive) /\ group[n].parent = n)
    /\ \A n \in alive : \A c \in childTimeoutList[n] : Refreshed(n, c)

\* When nothing is left to wait for, every subscriber is in the tree, at one place, and so
\* is every node that it depends on, after any sequence of joins, leaves, and failures.
QuietMeansConnected == Quiet => \A n \in Members : InTree(n)

\* Data that is published when the tree is whole, and no join is under way, reaches every
\* node of the tree, once, whoever joins meanwhile, unless nodes come, go or leave or
\* messages are lost.
DataReachesTree ==
    data.steady /\ (\A m \in msgs : m.type # "data") => data.owed \subseteq data.got /\ ~data.twice
=============================================================================
