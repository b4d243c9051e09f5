--------------------------------- MODULE Gia ---------------------------------
(***************************************************************************)
(* The unstructured overlay Gia (src/overlay/gia/): the handshake by which *)
(* nodes become neighbors, the tokens that neighbors grant each other, and *)
(* the searches that walk over neighbors which have granted one.           *)
(*                                                                         *)
(* A node is its capacity.  Packets between two nodes arrive in order and  *)
(* are not lost, no node fails, and one key is searched for.               *)
(* maxLevelOfSatisfaction is 1, as in default.ini.  The time of the        *)
(* satisfaction timer, route messages to keys of no node, and statistics   *)
(* are left out.                                                           *)
(***************************************************************************)
EXTENDS Integers, Sequences, FiniteSets, SequencesExt

CONSTANTS
    Node,               \* 1 .. some number
    maxNeighbors,
    minNeighbors,
    InitialTokens,      \* that neighbors have of each other at first, 5 in the code
    maxHopCount,
    Configs             \* a set of Config

None == 0
Ids  == 1 .. 2

\* links: who are neighbors already, by sets of two.  joins: the nodes that may join.  keys:
\* the nodes that have the key.  searches: by id, what applications search for (or send to
\* a node), and how many answers they want.  armed: the nodes whose token timer runs.
\* cut: optimizeReversePath.  The others bound how often something happens.
Config == [links : SUBSET SUBSET Node, joins : SUBSET Node, keys : SUBSET Node,
           searches : [Ids -> [origin : Node \cup {None}, dest : Node \cup {None}, responses : Nat]],
           armed : SUBSET Node, cut : BOOLEAN, requests : Nat, updates : Nat, timeouts : Nat,
           forgets : Nat, puts : Nat]

Linked(c, n) == {m \in Node \ {n} : {m, n} \in c.links}

ASSUME GiaAssumption ==
    /\ IsFiniteSet(Node) /\ Node = 1 .. Cardinality(Node)
    /\ {maxNeighbors, minNeighbors, InitialTokens, maxHopCount} \subseteq Nat
    /\ \A c \in Configs : c \in Config /\ \A n \in Node : Cardinality(Linked(c, n)) <= maxNeighbors
-----------------------------------------------------------------------------
VARIABLES
    config,         \* one of Configs, and what is left of its bounds
    node,           \* the state of each node
    channel,        \* for two nodes, what the first has sent to the second
    history         \* what was found and told (by id), told twice; tokens minted; links dropped;
                    \* refused: answers that were sent and came back too late; steady: links stay;
                    \* again: the nodes one of which has asked for a link too soon

vars == <<config, node, channel, history>>

\* heard: the timestamp is newer than the last expiry of the timer for neighbors.
Info(degree) == [degree |-> degree, received |-> InitialTokens, sent |-> InitialTokens, keys |-> FALSE,
                 heard |-> TRUE]

Fresh(c, n) ==
    [state     |-> IF Linked(c, n) = {} THEN "NONE" ELSE "READY",
     neighbors |-> [m \in Linked(c, n) |->
                      [Info(IF Linked(c, m) = {} THEN 0 ELSE Cardinality(Linked(c, m)) - 1)
                       EXCEPT !.keys = m \in c.keys]],
     degree    |-> IF Linked(c, n) = {} THEN 0 ELSE Cardinality(Linked(c, n)) - 1,
     neighCand |-> {}, knownNodes |-> {},
     keys      |-> n \in c.keys,
     messages  |-> << >>,       \* msgBookkeepingList: the remaining nodes by the message's id
     waiting   |-> {},          \* messages that wait for a token
     satisfactionTimer |-> FALSE, tokenTimer |-> n \in c.armed, updateTimer |-> FALSE, keyListTimer |-> FALSE]

Init ==
    /\ config \in Configs
    /\ node = [n \in Node |-> Fresh(config, n)]
    /\ channel = [p \in Node \X Node |-> << >>]
    /\ history = [found |-> {}, told |-> {}, twice |-> FALSE, minted |-> 0, dropped |-> {},
                  refused |-> {}, again |-> {}, steady |-> config.requests + config.timeouts = 0]

Uses(bound) == config[bound] > 0 /\ config' = [config EXCEPT ![bound] = @ - 1]

\* What a handler works on: its node n, the node's state s, the packets out that it sends to
\* each node, and the answers that are found and told to the application.
Work(n) == [n |-> n, s |-> node[n], out |-> [to \in Node |-> << >>], found |-> {}, told |-> {}, minted |-> 0]
Send(r, to, m) == [r EXCEPT !.out[to] = Append(@, m)]
Note(r, type)  == [type |-> type, degree |-> r.s.degree]
WithNeighbors(r, type) == [type |-> type, degree |-> r.s.degree, nodes |-> DOMAIN r.s.neighbors]

Size(s) == Cardinality(DOMAIN s.neighbors)
Erased(f, key) == [k \in DOMAIN f \ {key} |-> f[k]]
With(f, key, value) == [k \in DOMAIN f \cup {key} |-> IF k = key THEN value ELSE f[k]]

\* An assertion that fails ends the simulation.
Running == \A n \in Node : node[n].state # "CRASH"

\* What a handler that is done leaves behind, its packets being appended to the channels.
Finish(r, chan, past) ==
    /\ Running
    /\ node' = [node EXCEPT ![r.n] = r.s]
    /\ channel' = [p \in Node \X Node |-> IF p[1] = r.n THEN chan[p] \o r.out[p[2]] ELSE chan[p]]
    /\ history' = [past EXCEPT !.found = @ \cup r.found, !.told = @ \cup r.told,
                               !.twice = @ \/ r.told \cap past.told # {}, !.minted = @ + r.minted]
Leave(r) == Finish(r, channel, history)
-----------------------------------------------------------------------------
(***************************************************************************)
(* Tokens                                                                  *)
(***************************************************************************)
\* grantToken(): the neighbor with the fewest tokens is granted one more, of several the
\* one with the highest capacity.
Ahead(s, m, o) == \/ s.neighbors[m].sent < s.neighbors[o].sent
                  \/ s.neighbors[m].sent = s.neighbors[o].sent /\ m > o

GrantToken(r) ==
    IF Size(r.s) = 0 THEN r
    ELSE LET m == CHOOSE m \in DOMAIN r.s.neighbors : \A o \in DOMAIN r.s.neighbors \ {m} : Ahead(r.s, m, o)
         IN  Send([r EXCEPT !.s.neighbors[m].sent = @ + 1], m, Note(r, "TOKEN"))

\* Slip: as if a neighbor had sent the message.
GrantTokenAlways(r, fromApp) == GrantToken(r)
\* A message of the own application has not used a token that this node had granted.
GrantTokenBack(r, fromApp) == IF fromApp THEN r ELSE GrantToken(r)
-----------------------------------------------------------------------------
(***************************************************************************)
(* Neighbors                                                               *)
(***************************************************************************)
\* changeState(INIT).  boot: a bootstrap node, if there is one.  The satisfaction timer
\* expires at once, before others that are started with it and before any packet comes,
\* and then again and again.
ToInit(s, boot) ==
    [s EXCEPT !.state = "INIT", !.degree = 0, !.satisfactionTimer = TRUE, !.tokenTimer = TRUE,
              !.knownNodes = IF boot = None THEN @ ELSE @ \cup {boot}]

\* The nodes that the bootstrap list may name: ready ones.
ReadyNodes == {n \in Node : node[n].state = "READY"}
Boots(n)   == IF ReadyNodes \ {n} = {} THEN {None} ELSE ReadyNodes \ {n}

\* getDropCandidate(): of the neighbors with no more capacity the one with the most, if it
\* has more neighbors than the new node and would keep some.
DropCandidate(s, capacity, degree) ==
    LET below == {m \in DOMAIN s.neighbors : m <= capacity}
        cand  == Max(below)
    IN  IF below # {} /\ s.neighbors[cand].degree > degree /\ s.neighbors[cand].degree > 1
        THEN cand ELSE None

HasRoom(s) == Size(s) < maxNeighbors

\* acceptNode(): may it be a neighbor, and what becomes of the others.
Accepts(s, m, degree) ==
    m \notin DOMAIN s.neighbors /\ (HasRoom(s) \/ DropCandidate(s, m, degree) # None)

Disconnected(r, m) == Send(r, m, Note(r, "DISCONNECT"))

\* Slip: the neighbor is not told.
MadeRoomQuietly(r, m, degree) ==
    IF HasRoom(r.s) THEN r ELSE [r EXCEPT !.s.neighbors = Erased(@, DropCandidate(r.s, m, degree))]
MadeRoom(r, m, degree) ==
    LET drop == DropCandidate(r.s, m, degree)
    IN  IF HasRoom(r.s) THEN r
        ELSE Disconnected([r EXCEPT !.s.neighbors = Erased(@, drop)], drop)

KeyList(r, m) == Send(r, m, Note(r, "KEYLIST"))

AddNeighbor(r, m, degree) ==
    LET t == [r EXCEPT !.s.degree = Size(r.s), !.s.state = "READY", !.s.updateTimer = TRUE]
        u == IF r.s.keys THEN KeyList(t, m) ELSE t
    IN  [u EXCEPT !.s.neighbors = With(@, m, Info(degree))]

RemoveNeighbor(r, m, boot) ==
    LET left == Erased(r.s.neighbors, m)
        t    == [r.s EXCEPT !.neighbors = left, !.degree = Cardinality(DOMAIN left), !.updateTimer = TRUE]
    IN  [r EXCEPT !.s = IF left = << >> THEN ToInit(t, boot) ELSE t]

\* updateNeighborList()
UpdateNeighborList(r, m, degree) ==
    IF m \notin DOMAIN r.s.neighbors THEN r
    ELSE [r EXCEPT !.s.neighbors[m] = [@ EXCEPT !.degree = degree, !.heard = TRUE]]
-----------------------------------------------------------------------------
(***************************************************************************)
(* The handshake: JOIN_REQ, JOIN_RSP, JOIN_ACK                             *)
(***************************************************************************)
Candidate(r, m)   == [r EXCEPT !.s.neighCand = @ \cup {m}]
NoCandidate(r, m) == [r EXCEPT !.s.neighCand = @ \ {m}]
Learns(r, m, nodes) == [r EXCEPT !.s.knownNodes = @ \cup (nodes \ {r.n, m})]
Denied(r, m)      == Send(r, m, Note(r, "DNY"))

HandleJoinReq(r, m, degree) ==
    IF Accepts(r.s, m, degree)
    THEN LET t == Candidate(MadeRoom(r, m, degree), m) IN Send(t, m, WithNeighbors(t, "RSP"))
    ELSE Denied(r, m)

HandleJoinRsp(r, m, degree, nodes) ==
    LET t == NoCandidate(r, m)
        u == Learns(AddNeighbor(MadeRoom(t, m, degree), m, degree), m, nodes)
    IN  IF m \notin r.s.neighCand THEN r
        ELSE IF Accepts(t.s, m, degree) THEN Send(u, m, WithNeighbors(u, "ACK")) ELSE Denied(t, m)

\* Slip: another node may have been faster.
ExpectedEarlier(s, m) == m \in s.neighCand
Expected(s, m) == m \in s.neighCand /\ HasRoom(s)

\* One that is refused stays a candidate.
HandleJoinAck(r, m, degree, nodes) ==
    IF Expected(r.s, m) THEN Learns(AddNeighbor(NoCandidate(r, m), m, degree), m, nodes)
    ELSE Disconnected(r, m)

HandleJoinDny(r, m) == [NoCandidate(r, m) EXCEPT !.s.knownNodes = @ \ {m}]
-----------------------------------------------------------------------------
(***************************************************************************)
(* Searches and route messages                                             *)
(***************************************************************************)
\* deliverSearchResult(), or what is sent to an application with callDeliver().
Deliver(r, id, found) == [r EXCEPT !.told = @ \cup {<<id, h>> : h \in found}]

\* forwardSearchResponseMessage(), for each node of found.
Answer(id, found, path) == [type |-> "ANSWER", id |-> id, found |-> found, path |-> Front(path)]
ForwardAnswers(r, id, found, path) ==
    IF path = << >> THEN Deliver(r, id, Range(found))
    ELSE IF Last(path) \notin DOMAIN r.s.neighbors THEN r
    ELSE [r EXCEPT !.out[Last(path)] = @ \o [i \in 1 .. Len(found) |-> Answer(id, found[i], path)]]

\* The nodes that this one knows to have the key: itself is found first.
Holders(r) ==
    {m \in DOMAIN r.s.neighbors : r.s.neighbors[m].keys} \cup (IF r.s.keys THEN {r.n} ELSE {})
FoundBefore(r, m, nodes) == Cardinality({h \in nodes \ {m} : h = r.n \/ (m # r.n /\ h < m)})
InOrder(r, nodes) ==
    [i \in 1 .. Cardinality(nodes) |-> CHOOSE m \in nodes : FoundBefore(r, m, nodes) = i - 1]

\* sendSearchResponseMessage(), for each of them that the message does not name yet.
Answered(r, m) ==
    LET new   == Holders(r) \ m.found
        taken == {h \in new : FoundBefore(r, h, new) < m.responses}
        t     == ForwardAnswers(r, m.id, InOrder(r, taken), m.path)
    IN  [r |-> [t EXCEPT !.found = @ \cup {<<m.id, h>> : h \in taken}],
         m |-> [m EXCEPT !.found = @ \cup taken, !.responses = @ - Cardinality(taken)]]

\* The reverse path with this node, without what comes after it if it is there already.
Before(n, path) == {i \in DOMAIN path : path[i] = n}
\* Slip: the path is not set to its new length first.
ReversedLate(n, path) ==
    Append(IF config.cut /\ Before(n, path) # {} THEN SubSeq(path, 1, Min(Before(n, path))) ELSE path, n)
Reversed(n, path) ==
    Append(IF config.cut /\ Before(n, path) # {} THEN SubSeq(path, 1, Min(Before(n, path)) - 1) ELSE path, n)

\* addMessage(), and what getNextHop() looks at: the neighbors that the message has not been
\* sent to from here, or all of them again.
Remaining(r, m) ==
    LET rest == IF m.id \in DOMAIN r.s.messages THEN r.s.messages[m.id]
                ELSE DOMAIN r.s.neighbors \ {m.src}
    IN  IF rest = {} THEN DOMAIN r.s.neighbors ELSE rest \cap DOMAIN r.s.neighbors

WithToken(r, nodes) == {h \in nodes : r.s.neighbors[h].received > 0}

Remembers(r, m) ==
    IF m.id \in DOMAIN r.s.messages THEN r
    ELSE [r EXCEPT !.s.messages = With(@, m.id, DOMAIN r.s.neighbors \ {m.src})]

Waits(r, m, fromApp) == [r EXCEPT !.s.waiting = @ \cup {[msg |-> m, fromApp |-> fromApp]}]

\* The message uses up a token of the neighbor.
TokenUsed(r, to) == [r EXCEPT !.s.neighbors[to].received = @ - 1]
SendOn(r, m, to, fromApp) ==
    Send(GrantTokenBack(TokenUsed(r, to), fromApp), to,
         [m EXCEPT !.hops = @ - 1, !.src = r.n, !.degree = r.s.degree])

WalkOn(r, m, fromApp) ==
    LET nodes == Remaining(r, m)
        hop   == Max(WithToken(r, nodes))
        t     == Remembers(r, m)
    IN  IF WithToken(r, nodes) = {} THEN Waits(t, m, fromApp)
        ELSE SendOn([t EXCEPT !.s.messages[m.id] = nodes \ {hop}], m, hop, fromApp)

\* forwardMessage()
Forward(r, m, fromApp) ==
    IF m.hops = 0 THEN GrantTokenBack(r, fromApp)
    ELSE IF m.dest = r.n THEN Deliver(GrantTokenBack(r, fromApp), m.id, {r.n})
    ELSE IF m.dest \in DOMAIN r.s.neighbors
    THEN IF r.s.neighbors[m.dest].received = 0 THEN Waits(r, m, fromApp) ELSE SendOn(r, m, m.dest, fromApp)
    ELSE WalkOn(r, m, fromApp)

\* processSearchMessage()
ProcessSearch(r, m, fromApp) ==
    LET a == Answered(r, m)
    IN  IF a.m.responses > 0
        THEN Forward(a.r, [a.m EXCEPT !.path = Reversed(r.n, @)], fromApp)
        ELSE [GrantToken(a.r) EXCEPT !.minted = IF fromApp THEN Min({1, Size(r.s)}) ELSE 0]
-----------------------------------------------------------------------------
(***************************************************************************)
(* Packets                                                                 *)
(***************************************************************************)
Handle(r, from, m, boot) ==
    LET u == UpdateNeighborList(r, from, m.degree)
        linked == from \in DOMAIN r.s.neighbors
    IN  CASE m.type = "REQ"        -> HandleJoinReq(u, from, m.degree)
          [] m.type = "RSP"        -> HandleJoinRsp(u, from, m.degree, m.nodes)
          [] m.type = "ACK"        -> HandleJoinAck(u, from, m.degree, m.nodes)
          [] m.type = "DNY"        -> HandleJoinDny(u, from)
          [] m.type = "DISCONNECT" -> RemoveNeighbor(u, from, boot)
          [] m.type = "TOKEN"      -> IF linked THEN [u EXCEPT !.s.neighbors[from].received = @ + 1] ELSE u
          [] m.type = "KEYLIST"    -> IF linked THEN [r EXCEPT !.s.neighbors[from].keys = TRUE] ELSE r
          [] m.type = "SEARCH"     -> ProcessSearch(u, m, FALSE)
          [] m.type = "ROUTE"      -> IF r.s.state = "READY" THEN Forward(u, m, FALSE) ELSE r
          [] m.type = "ANSWER"     -> ForwardAnswers(r, m.id, <<m.found>>, m.path)
          [] m.type = "UPDATE"     -> u

\* handleUDPMessage()
HandleUDPMessage(from, n) ==
    /\ channel[<<from, n>>] # << >> /\ ~node[n].satisfactionTimer
    /\ \E boot \in Boots(n) :
        LET m == Head(channel[<<from, n>>])
            r == Handle(Work(n), from, m, boot)
        IN  Finish(r, [channel EXCEPT ![<<from, n>>] = Tail(@)],
                   [history EXCEPT
                      !.dropped = IF from \in DOMAIN r.s.neighbors THEN @ \ {<<n, from>>} ELSE @,
                      !.refused = IF from \notin r.s.neighCand THEN @ \ {<<n, from>>}
                                  ELSE IF m.type = "ACK" THEN @ \cup {<<n, from>>} ELSE @])
    /\ UNCHANGED config
-----------------------------------------------------------------------------
(***************************************************************************)
(* Timers and applications                                                 *)
(***************************************************************************)
Finishes(r) == Leave(r) /\ UNCHANGED config

\* joinOverlay(): the first node is ready at once.
JoinOverlay(n) ==
    /\ node[n].state = "NONE" /\ n \in config.joins
    /\ \E boot \in Boots(n) :
        LET s == ToInit(node[n], boot)
        IN  Finishes([Work(n) EXCEPT !.s = [s EXCEPT !.state = IF boot = None THEN "READY" ELSE "INIT"]])

\* calculateLevelOfSatisfaction() is 1.
Satisfied(n) ==
    LET s == node[n]
    IN  /\ Size(s) >= minNeighbors
        /\ HasRoom(s) => SumSet(DOMAIN s.neighbors) >= Size(s) * n

\* One of the known nodes is asked, or the one that the global list names if none is known.
\* It names none if none is ready, and the assertion of add() fails.
Known(n, boot) ==
    LET s == node[n]
    IN  IF s.knownNodes = {} /\ s.neighbors = << >> /\ s.neighCand = {} THEN {boot} ELSE s.knownNodes

\* Packets of a handshake that n has sent to m, or m to n, are on their way, but for a
\* request of m, which crosses that of n.
OnItsWay(n, m, types) == \E i \in 1 .. Len(channel[<<n, m>>]) : channel[<<n, m>>][i].type \in types
TooSoon(n, m) == OnItsWay(n, m, {"REQ", "RSP", "ACK", "DNY"}) \/ OnItsWay(m, n, {"RSP", "ACK", "DNY"})

SatisfactionTimer(n) ==
    /\ node[n].state \in {"INIT", "READY"} /\ ~Satisfied(n)
    /\ \E boot \in IF ReadyNodes = {} THEN {None} ELSE ReadyNodes :
        LET known == Known(n, boot)
            t     == [Work(n) EXCEPT !.s.knownNodes = known, !.s.satisfactionTimer = FALSE]
        IN  \/ known = {None} /\ Finishes([t EXCEPT !.s.state = "CRASH"])
            \/ known # {None} /\ Finishes(t)
            \/ \E m \in known \ ({n, None} \cup DOMAIN node[n].neighbors \cup node[n].neighCand) :
                  /\ Uses("requests")
                  /\ Finish(Send(Candidate(t, m), m, Note(t, "REQ")), channel,
                            [history EXCEPT !.again = IF TooSoon(n, m) THEN @ \cup {{n, m}} ELSE @])

SendAll(r, type) ==
    [r EXCEPT !.out = [m \in Node |-> IF m \in DOMAIN r.s.neighbors THEN Append(@[m], Note(r, type)) ELSE @[m]]]

UpdateTimer(n) ==
    /\ node[n].updateTimer /\ Uses("updates")
    /\ Leave(SendAll([Work(n) EXCEPT !.s.updateTimer = FALSE], "UPDATE"))

SendKeyListTimer(n) ==
    /\ node[n].keyListTimer
    /\ Finishes(SendAll([Work(n) EXCEPT !.s.keyListTimer = FALSE], "KEYLIST"))

\* It is not started again before the next INIT.
SendTokenTimer(n) ==
    /\ node[n].tokenTimer /\ ~node[n].satisfactionTimer
    /\ LET t == [Work(n) EXCEPT !.s.tokenTimer = FALSE]
       IN  Finishes([GrantToken(t) EXCEPT !.minted = Min({1, Size(t.s)})])

\* Nothing is on its way between two nodes.
Between(n, m) == channel[<<n, m>>] \o channel[<<m, n>>]
Silent(n, m)  == Between(n, m) = << >>

\* removeTimedoutNodes(), and what follows if no neighbor is left.  The timer's interval is
\* the timeout of neighbors, which is longer than a packet takes.
TimedoutNeighbors(n) ==
    /\ node[n].state \in {"INIT", "READY"} /\ ~node[n].satisfactionTimer /\ Uses("timeouts")
    /\ \E boot \in Boots(n) :
        LET r    == Work(n)
            gone == {m \in DOMAIN r.s.neighbors : ~r.s.neighbors[m].heard}
            left == [m \in DOMAIN r.s.neighbors \ gone |-> [r.s.neighbors[m] EXCEPT !.heard = FALSE]]
            t    == [r EXCEPT !.s.neighbors = left]
        IN  /\ \A m \in gone : Silent(n, m)
            /\ Finish(IF left = << >> THEN [t EXCEPT !.s = ToInit(t.s, boot)] ELSE t, channel,
                      [history EXCEPT !.dropped = @ \cup {<<n, m>> : m \in gone}])

\* removeTimedoutMessages()
TimedoutMessages(n) ==
    \E id \in DOMAIN node[n].messages :
        Uses("forgets") /\ Leave([Work(n) EXCEPT !.s.messages = Erased(@, id)])

\* The timer of a message that waits for a token.
WaitForToken(n) ==
    \E w \in node[n].waiting :
        Finishes(Forward([Work(n) EXCEPT !.s.waiting = @ \ {w}], w.msg, w.fromApp))

\* handleAppMessage(), getRoute().  A second put before the key list is sent would schedule
\* the timer twice, which is an error.
HandlePut(n) ==
    /\ ~node[n].keyListTimer /\ Uses("puts")
    /\ Leave([Work(n) EXCEPT !.s.keys = TRUE, !.s.keyListTimer = TRUE])

Request(id) ==
    LET q == config.searches[id]
    IN  [type |-> IF q.dest = None THEN "SEARCH" ELSE "ROUTE", id |-> id, hops |-> maxHopCount,
         src |-> q.origin, degree |-> node[q.origin].degree, dest |-> q.dest,
         responses |-> q.responses, path |-> << >>, found |-> {}]

HandleRequest(id) ==
    LET m == Request(id)
        r == Work(config.searches[id].origin)
    IN  /\ config.searches[id].origin # None
        /\ config' = [config EXCEPT !.searches[id].origin = None]
        /\ Leave(IF r.s.state # "READY" THEN r
                 ELSE IF m.type = "SEARCH" THEN ProcessSearch(r, m, TRUE) ELSE Forward(r, m, TRUE))
-----------------------------------------------------------------------------
Next ==
    \/ \E n, m \in Node : HandleUDPMessage(n, m)
    \/ \E n \in Node : \/ JoinOverlay(n) \/ SatisfactionTimer(n) \/ UpdateTimer(n)
                       \/ SendKeyListTimer(n) \/ SendTokenTimer(n) \/ TimedoutNeighbors(n)
                       \/ TimedoutMessages(n) \/ WaitForToken(n) \/ HandlePut(n)
    \/ \E id \in Ids : HandleRequest(id)

Spec == Init /\ [][Next]_vars
-----------------------------------------------------------------------------
TypeOK ==
    /\ \A n \in Node :
        /\ node[n].state \in {"NONE", "INIT", "READY", "CRASH"}
        /\ DOMAIN node[n].neighbors \cup node[n].neighCand \subseteq Node \ {n}
        /\ \A m \in DOMAIN node[n].neighbors : {node[n].neighbors[m].received, node[n].neighbors[m].sent} \subseteq Nat
        /\ node[n].degree \in 0 .. maxNeighbors /\ Size(node[n]) <= maxNeighbors

\* However handshakes, drops and disconnections cross: when nothing is on its way between two
\* nodes, each is a neighbor of the other or none is, unless one of them has not heard of the
\* other for long; neither waits for an answer, but for a node that has refused an answer when
\* it was full, which keeps the other as a candidate; and none has too many neighbors.  But a
\* node that asks once more while an earlier handshake is under way can upset both.
\* (handleUDPMessage(), acceptNode(), the assertion in addNeighbor())
LinksAgree ==
    /\ TypeOK
    /\ \A n \in Node : \A m \in Node \ {n} : Silent(n, m) /\ {n, m} \notin history.again =>
        /\ m \in DOMAIN node[n].neighbors =>
               n \in DOMAIN node[m].neighbors \/ <<m, n>> \in history.dropped
        /\ m \in node[n].neighCand => <<n, m>> \in history.refused

\* Tokens that n has of others, tokens that are on their way to n, and messages that have
\* used one at a neighbor and for which n has granted none yet.
IsMessage(m) == m.type \in {"SEARCH", "ROUTE"}
Arriving(n) ==
    MapThenSumSet(LAMBDA m : Cardinality({i \in DOMAIN channel[<<m, n>>] :
                                 channel[<<m, n>>][i].type = "TOKEN" \/ IsMessage(channel[<<m, n>>][i])}), Node)
TokensOf(n) ==
    MapThenSumSet(LAMBDA m : node[n].neighbors[m].received, DOMAIN node[n].neighbors)
    + Arriving(n) + Cardinality({w \in node[n].waiting : ~w.fromApp})

\* As long as links stay, no token is lost or multiplied, wherever messages wait or end: for
\* each message that a neighbor has sent, one is granted.  Two more sources are the timer,
\* and processSearchMessage(), which does not ask whether a search came from the application.
TokensConserved ==
    history.steady =>
        MapThenSumSet(TokensOf, Node) = InitialTokens * MapThenSumSet(LAMBDA n : Size(node[n]), Node) + history.minted

\* As long as links stay, each answer reaches the application that has searched, once,
\* whatever way the search has gone; and there are no more than it has asked for.
AnswersReturn ==
    history.steady => \A id \in {i \in Ids : config.searches[i].dest = None} :
        LET Of(pairs) == {f \in pairs : f[1] = id}
            IsOf(m)   == m.type = "ANSWER" /\ m.id = id
        IN  /\ ~history.twice /\ Cardinality(Of(history.found)) <= config.searches[id].responses
            /\ (\A p \in Node \X Node : ~\E i \in DOMAIN channel[p] : IsOf(channel[p][i]))
                   => Of(history.told) = Of(history.found)
=============================================================================
