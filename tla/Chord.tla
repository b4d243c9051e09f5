-------------------------------- MODULE Chord --------------------------------
(***************************************************************************)
(* The ring maintenance of Chord (src/overlay/chord/Chord.cc): nodes that  *)
(* join, stabilize, notify each other, check their predecessors, fail and  *)
(* join again.  With the defaults of simulations/default.ini:              *)
(* aggressiveJoinMode, no failed successor remembered, no merge            *)
(* optimizations.  The finger table, which speeds up routing but takes no  *)
(* part in the maintenance of the ring, is left out, and so are the        *)
(* reports of failed nodes by lookups.                                     *)
(*                                                                         *)
(* Calls are unreliable only in that a node which has failed, or has not   *)
(* joined, does not answer; no message is lost on the way.  A JoinCall is  *)
(* routed: it reaches a node that holds itself responsible for the key.    *)
(***************************************************************************)
EXTENDS ChordSuccessorList

CONSTANTS
    None,               \* an unspecified NodeHandle
    StabilizeRetry,     \* parameter stabilizeRetry
    CheckPredecessor,   \* the values of checkPredecessorDelay > 0 that are looked at
    MaxFailures,        \* bound: so many nodes fail
    MaxCalls            \* bound: so many calls are on their way when a timer sends one

ASSUME StabilizeAssumption == StabilizeRetry \in Nat
ASSUME ConfigAssumption == CheckPredecessor \subseteq BOOLEAN /\ MaxFailures \in Nat
                           /\ MaxCalls \in Nat

ASSUME NoneAssumption == None \notin Node
-----------------------------------------------------------------------------
VARIABLES
    checkPredecessor,   \* is checkPredecessorDelay > 0?
    node,               \* what each node keeps
    calls               \* the calls and messages on their way

vars == <<checkPredecessor, node, calls>>

\* A node is OFF until it is created.  INIT is left within joinOverlay.
Peer == [state : {"OFF", "JOIN", "READY", "DEAD"},
         predecessor : Node \cup {None},
         list : List,
         stabilizing : BOOLEAN,                 \* is stabilize_timer scheduled?
         missing : 0 .. StabilizeRetry]         \* missingPredecessorStabRequests

\* phase: on the way to the callee, dropped there, or answered.  A JoinCall has no
\* callee until it is answered.  nodes and preNode are what an answer carries, or
\* a hint, which nobody answers.
Call == [type : {"Join", "Hint", "Stabilize", "Notify", "Ping"},
         from : Node, to : Node \cup {None},
         phase : {"sent", "dropped", "answered"},
         nodes : SUBSET Node, preNode : Node \cup {None}]

Ready(n) == node[n].state = "READY"
Alive(n) == node[n].state \in {"JOIN", "READY"}
Empty(p, n) == IsEmpty(p.list, n)
Successor(n) == GetSuccessor(node[n].list, n)

NewCall(type, from, to) == [type |-> type, from |-> from, to |-> to,
                            phase |-> "sent", nodes |-> {}, preNode |-> None]
Hint(from, to, preNode) == [NewCall("Hint", from, to) EXCEPT !.preNode = preNode]
Answered(c, to, nodes, preNode) ==
    [c EXCEPT !.to = to, !.phase = "answered", !.nodes = nodes, !.preNode = preNode]

\* The answer of a call, unless the caller has failed.
Answer(c, to, nodes, preNode) ==
    IF Alive(c.from) THEN {Answered(c, to, nodes, preNode)} ELSE {}

Send(c) == /\ Cardinality(calls) < MaxCalls
           /\ calls' = calls \cup {c}

Set(n, p) == node' = [node EXCEPT ![n] = p]
-----------------------------------------------------------------------------
\* changeState(READY) and changeState(JOIN): without a bootstrap node, which
\* every ready node is, the node is a ring of its own.
BecomeReady(p) == [p EXCEPT !.state = "READY", !.stabilizing = TRUE]

Enter(n, p) ==
    LET joining == [p EXCEPT !.state = "JOIN"]
    IN  IF \E m \in Node \ {n} : Ready(m) THEN joining ELSE BecomeReady(joining)

\* Slip: the node keeps its predecessor when it joins anew.
JoinOverlayKeeps(n, p) == Enter(n, [p EXCEPT !.list = Initial(n)])

\* joinOverlay: changeState(INIT), then changeState(JOIN).
JoinOverlay(n, p) ==
    Enter(n, [p EXCEPT !.predecessor = None, !.list = Initial(n)])

\* handleFailedNode.  A predecessor that is the successor too goes when any node
\* fails, and the timer is cancelled when the last successor has.
HandleFailed(n, p, failed) ==
    LET successor == GetSuccessor(p.list, n)
        list == HandleFailedNode(p.list, n, failed)
        lost == p.predecessor \in {failed, successor}
        last == p.state = "READY" /\ IsEmpty(list, n)
    IN  [p EXCEPT !.predecessor = IF lost THEN None ELSE @,
                  !.list = list,
                  !.stabilizing = (@ \/ failed = successor) /\ ~ last]

\* Slip: the node waits to be told to join.
HandleTimeoutWaits(n, p, failed) == HandleFailed(n, p, failed)

\* handleRpcTimeout of a StabilizeCall or NotifyCall.
HandleTimeout(n, p, failed) ==
    LET q == HandleFailed(n, p, failed)
    IN  IF q.state = "READY" /\ Empty(q, n) THEN JoinOverlay(n, q) ELSE q

\* isSiblingFor(thisNode, key, 1).
IsSiblingFor(n, key) ==
    LET p == node[n]
    IN  /\ p.state = "READY"
        /\ IF p.predecessor = None THEN Empty(p, n) \/ key = n
           ELSE IsBetweenR(key, p.predecessor, n)
-----------------------------------------------------------------------------
\* A node is created and joins.
Create(n) ==
    /\ node[n].state = "OFF"
    /\ Set(n, JoinOverlay(n, node[n]))
    /\ UNCHANGED <<checkPredecessor, calls>>

\* A node fails without notice, with it the answers and timers it waits for.
Fail(n) ==
    /\ Alive(n)
    /\ Cardinality({m \in Node : node[m].state = "DEAD"}) < MaxFailures
    /\ Set(n, [node[n] EXCEPT !.state = "DEAD", !.predecessor = None,
                              !.list = Initial(n), !.stabilizing = FALSE])
    /\ calls' = {c \in calls : c.from = n => c.phase = "sent"}
    /\ UNCHANGED checkPredecessor

\* handleJoinTimerExpired: a JoinCall, or, when joinRetry has counted down (which
\* is a choice here), another bootstrap node.  The call's timeout is joinDelay, like
\* the timer's.
HandleJoinTimerExpired(n) ==
    /\ node[n].state = "JOIN"
    /\ \A c \in calls : ~ (c.type = "Join" /\ c.from = n)
    /\ \/ Set(n, Enter(n, node[n])) /\ UNCHANGED calls
       \/ UNCHANGED node /\ Send(NewCall("Join", n, None))
    /\ UNCHANGED checkPredecessor

\* rpcJoin, in the node that is responsible for the joining node's key.  The old
\* predecessor learns of the new one, and may be the joining node itself.
RpcJoin(c, n) ==
    LET p == node[n]
        alone == p.predecessor = None /\ Empty(p, n)
        hints == IF p.predecessor = None THEN {}
                 ELSE {Hint(n, p.predecessor, c.from)}
    IN  /\ c.type = "Join" /\ c.phase = "sent"
        /\ IsSiblingFor(n, c.from)
        /\ Set(n, [p EXCEPT
                    !.predecessor = c.from,
                    !.list = IF Empty(p, n) THEN Add(@, n, {c.from}) ELSE @])
        /\ calls' = (calls \ {c}) \cup hints \cup
                    Answer(c, n, Sent(p.list, n),
                           IF alone THEN n ELSE p.predecessor)
        /\ UNCHANGED checkPredecessor

\* A JoinCall that no node is responsible for times out, or its caller has failed.
JoinTimeout(c) ==
    /\ c.type = "Join" /\ c.phase = "sent"
    /\ Alive(c.from) => \A n \in Node : ~ IsSiblingFor(n, c.from)
    /\ calls' = calls \ {c}
    /\ UNCHANGED <<checkPredecessor, node>>

\* handleRpcJoinResponse.
HandleRpcJoinResponse(c) ==
    LET n == c.from
        p == node[n]
    IN  /\ c.type = "Join" /\ c.phase = "answered"
        /\ Set(n, BecomeReady(
                    [p EXCEPT !.list = Add(@, n, c.nodes \cup {c.to}),
                              !.predecessor = IF c.preNode = None THEN @
                                              ELSE c.preNode]))
        /\ calls' = calls \ {c}
        /\ UNCHANGED checkPredecessor

\* handleNewSuccessorHint, whatever state the node is in.
Closer(p, n, m) == IsBetween(m, n, GetSuccessor(p.list, n)) \/ Empty(p, n)

HandleNewSuccessorHint(c) ==
    LET n == c.to
        p == node[n]
    IN  /\ c.type = "Hint"
        /\ Set(n, IF Alive(n) /\ Closer(p, n, c.preNode)
                  THEN [p EXCEPT !.list = Add(@, n, {c.preNode})] ELSE p)
        /\ calls' = calls \ {c}
        /\ UNCHANGED checkPredecessor
-----------------------------------------------------------------------------
\* Bound: a node sends no second StabilizeCall to a node that has not answered the
\* first or the NotifyCall that follows.  With the default delays it cannot.
Stabilizing(n, m) == \E c \in calls : /\ c.type \in {"Stabilize", "Notify"}
                                      /\ c.from = n /\ c.to = m

\* The predecessor check that replaces the pings of checkPredecessorDelay > 0.
GivesUp(p) == ~ checkPredecessor /\ p.missing >= StabilizeRetry

\* Slip: whether or not there is a successor.
StabilizesAlways(p, n) == TRUE

Stabilizes(p, n) == ~ Empty(p, n)

\* handleStabilizeTimerExpired.  The count of stabilizations during which the
\* predecessor was not heard of is read only where it is at most StabilizeRetry.
HandleStabilizeTimerExpired(n) ==
    LET p == node[n]
        given == IF GivesUp(p) THEN [p EXCEPT !.predecessor = None, !.missing = 0]
                 ELSE p
    IN  /\ p.stabilizing
        /\ IF p.state # "READY"
           THEN Set(n, [p EXCEPT !.stabilizing = FALSE]) /\ UNCHANGED calls
           ELSE IF ~ Stabilizes(p, n)
           THEN Set(n, given) /\ UNCHANGED calls
           ELSE /\ ~ Stabilizing(n, Successor(n))
                /\ Set(n, IF checkPredecessor THEN given
                          ELSE [given EXCEPT !.missing =
                                    IF @ < StabilizeRetry THEN @ + 1 ELSE @])
                /\ Send(NewCall("Stabilize", n, Successor(n)))
        /\ UNCHANGED checkPredecessor

\* handleRpcCall of a node that has not joined: the call goes unanswered.
Dropped(c) ==
    /\ c.type \in {"Stabilize", "Notify"} /\ c.phase = "sent"
    /\ ~ Ready(c.to)
    /\ calls' = (calls \ {c}) \cup
                (IF Alive(c.from) THEN {[c EXCEPT !.phase = "dropped"]} ELSE {})
    /\ UNCHANGED <<checkPredecessor, node>>

\* The predecessor has been heard of.
Heard(p, m) == IF m = p.predecessor THEN [p EXCEPT !.missing = 0] ELSE p

\* rpcStabilize.
RpcStabilize(c) ==
    LET n == c.to
    IN  /\ c.type = "Stabilize" /\ c.phase = "sent"
        /\ Ready(n)
        /\ Set(n, Heard(node[n], c.from))
        /\ calls' = (calls \ {c}) \cup Answer(c, n, {}, node[n].predecessor)
        /\ UNCHANGED checkPredecessor

\* handleRpcStabilizeResponse: the successor's predecessor may be the successor;
\* a node whose list is empty takes what it is told.  It notifies its successor.
Told(p, n, c) ==
    CASE Empty(p, n) -> {IF c.preNode = None THEN c.to ELSE c.preNode}
      [] ~ Empty(p, n) /\ c.preNode # None /\ Closer(p, n, c.preNode) -> {c.preNode}
      [] OTHER -> {}

HandleRpcStabilizeResponse(c) ==
    LET n == c.from
        list == Add(node[n].list, n, Told(node[n], n, c))
    IN  /\ c.type = "Stabilize" /\ c.phase = "answered"
        /\ IF Ready(n)
           THEN /\ Set(n, [node[n] EXCEPT !.list = list])
                /\ calls' = (calls \ {c}) \cup
                            {NewCall("Notify", n, GetSuccessor(list, n))}
           ELSE UNCHANGED node /\ calls' = calls \ {c}
        /\ UNCHANGED checkPredecessor

\* Slip: whoever notifies is the predecessor.
AcceptsAny(p, n, m) == TRUE

\* rpcNotify: a closer predecessor is taken, and by a node without a successor as
\* its successor too.  The answer carries the list as it is then.
Accepts(p, n, m) == \/ p.predecessor = None
                    \/ IsBetween(m, p.predecessor, n)

RpcNotify(c) ==
    LET n == c.to
        p == Heard(node[n], c.from)
        q == IF Accepts(p, n, c.from)
             THEN [p EXCEPT
                    !.predecessor = c.from,
                    !.list = IF Empty(p, n) THEN Add(@, n, {c.from}) ELSE @]
             ELSE p
    IN  /\ c.type = "Notify" /\ c.phase = "sent"
        /\ Ready(n)
        /\ Set(n, q)
        /\ calls' = (calls \ {c}) \cup Answer(c, n, Sent(q.list, n), None)
        /\ UNCHANGED checkPredecessor

\* handleRpcNotifyResponse: only the current successor's answer counts.
HandleRpcNotifyResponse(c) ==
    LET n == c.from
    IN  /\ c.type = "Notify" /\ c.phase = "answered"
        /\ IF Ready(n) /\ Successor(n) = c.to
           THEN Set(n, [node[n] EXCEPT !.list = UpdateList(@, n, c.to, c.nodes)])
           ELSE UNCHANGED node
        /\ calls' = calls \ {c}
        /\ UNCHANGED checkPredecessor
-----------------------------------------------------------------------------
\* A timeout takes longer than a message: what is on its way between either of
\* the two nodes and another arrives first.  (A JoinCall is routed, and may wait
\* longer than that.)
Overdue(c) ==
    \A d \in calls : {d.from, d.to} \cap {c.from, c.to} # {} =>
        d.phase = "dropped" \/ d.type = "Ping" \/ (d.type = "Join" /\ d.phase = "sent")

\* handleRpcTimeout.
HandleRpcTimeout(c) ==
    /\ c.phase = "dropped" /\ Overdue(c)
    /\ Set(c.from, HandleTimeout(c.from, node[c.from], c.to))
    /\ calls' = calls \ {c}
    /\ UNCHANGED checkPredecessor

\* handleTimerEvent of checkPredecessor_timer, which is never cancelled.
CheckPredecessorTimer(n) ==
    LET ping == NewCall("Ping", n, node[n].predecessor)
    IN  /\ checkPredecessor /\ Alive(n)
        /\ node[n].predecessor # None
        /\ ping \notin calls
        /\ Send(ping)
        /\ UNCHANGED <<checkPredecessor, node>>

\* The ping is answered, in any state, or its caller has failed.
PingResponse(c) ==
    /\ c.type = "Ping"
    /\ Alive(c.to) \/ ~ Alive(c.from)
    /\ calls' = calls \ {c}
    /\ UNCHANGED <<checkPredecessor, node>>

\* pingTimeout, which ignores what handleFailedNode returns.
PingTimeout(c) ==
    /\ c.type = "Ping"
    /\ Alive(c.from) /\ ~ Alive(c.to) /\ Overdue(c)
    /\ Set(c.from, HandleFailed(c.from, node[c.from], c.to))
    /\ calls' = calls \ {c}
    /\ UNCHANGED checkPredecessor
-----------------------------------------------------------------------------
Init ==
    /\ checkPredecessor \in CheckPredecessor
    /\ node = [n \in Node |->
                [state |-> "OFF", predecessor |-> None, list |-> Initial(n),
                 stabilizing |-> FALSE, missing |-> 0]]
    /\ calls = {}

\* What the timers and messages of OMNeT++ do; and what happens to the nodes.
Handle(c) ==
    \/ \E n \in Node : RpcJoin(c, n)
    \/ JoinTimeout(c) \/ HandleRpcJoinResponse(c) \/ HandleNewSuccessorHint(c)
    \/ Dropped(c) \/ RpcStabilize(c) \/ HandleRpcStabilizeResponse(c)
    \/ RpcNotify(c) \/ HandleRpcNotifyResponse(c) \/ HandleRpcTimeout(c)
    \/ PingResponse(c) \/ PingTimeout(c)

Timer(n) == \/ HandleJoinTimerExpired(n)
            \/ HandleStabilizeTimerExpired(n)
            \/ CheckPredecessorTimer(n)

Next ==
    \/ \E n \in Node : Create(n) \/ Fail(n) \/ Timer(n)
    \/ \E c \in calls : Handle(c)

Spec == Init /\ [][Next]_vars
-----------------------------------------------------------------------------
(***************************************************************************)
(* Properties                                                              *)
(***************************************************************************)
\* Every variable has its type.  A successor list is never without a node, marks
\* only nodes it holds, and is never longer than successorListSize once a handler
\* has ended, although updateList fills it before it cuts it.
GoodList(l) ==
    /\ l.nodes # {}
    /\ l.fresh \subseteq l.nodes
    /\ Cardinality(l.nodes) <= SuccessorListSize

TypeOK ==
    /\ checkPredecessor \in BOOLEAN
    /\ node \in [Node -> Peer]
    /\ calls \subseteq Call
    /\ \A n \in Node : GoodList(node[n].list)

\* The assertions of the code.  No node calls itself: the timeout of such a call
\* would break failed != thisNode in ChordSuccessorList::handleFailedNode, and the
\* answer to such a NotifyCall the !isEmpty() that ends updateList.  And a node that
\* finds nobody to join has no predecessor (changeState).
AssertionsHold ==
    /\ \A c \in calls : c.from # c.to
    /\ \A n \in Node : node[n].state = "JOIN" => node[n].predecessor = None

\* A node with a predecessor has a successor: findNode throws if it finds one that
\* has none.  This is what Chord.cc says of itself; see ReadyHasSuccessor.
HasSuccessor ==
    \A n \in Node : Ready(n) /\ Empty(node[n], n) => node[n].predecessor = None

\* It holds when nodes do not ping their predecessors: a node that loses its last
\* successor joins again, and whoever becomes the predecessor of a node alone
\* becomes its successor too, by whichever of rpcJoin, rpcNotify and the answer to
\* a join it happens.
ReadyHasSuccessor == ~ checkPredecessor => HasSuccessor

NoneFailed == \A n \in Node : node[n].state # "DEAD"

\* No two nodes hold themselves responsible for the same key.
OneResponsible ==
    \A key \in Node : \A n, m \in {k \in Node : IsSiblingFor(k, key)} : n = m

\* The nodes of the ring, and those that become one with the answer on its way.
JoinAnswered(c) == c.type = "Join" /\ c.phase = "answered"
Member(n) == Ready(n) \/ \E c \in calls : JoinAnswered(c) /\ c.from = n

\* n has, or will have, m as its predecessor; n is a ring of its own.
Follows(n, m) == \/ Ready(n) /\ node[n].predecessor = m
                 \/ \E c \in calls : JoinAnswered(c) /\ c.from = n /\ c.preNode = m
Alone(n) == Ready(n) /\ node[n].predecessor = None /\ Empty(node[n], n)

\* No member lies on the arc between another one and its predecessor.
ArcsApart ==
    \A k \in Node : Member(k) =>
        /\ \A n, m \in Node : Follows(n, m) => ~ IsBetween(k, m, n)
        /\ \A n \in Node : Alone(n) => k = n

\* A node of a ring has lost its predecessor, which handleFailedNode drops with any other
\* node when it is the successor too, or a predecessor not heard of.
LostPredecessor(n) == /\ Ready(n) /\ ~ Empty(node[n], n)
                      /\ node[n].predecessor = None

TakesAnother(n) == LostPredecessor(n) /\ node'[n].predecessor # None

\* However the joins of several nodes overlap with each other, with hints that are late,
\* with the stabilization of nodes whose successor is out of date, and with nodes that give
\* up and join again: while the arcs are apart no key has two responsible nodes, and until
\* a node fails nothing ends this but a node which has lost its predecessor and believes
\* whoever notifies it next.
ResponsibleOnce ==
    [][ArcsApart =>
        /\ OneResponsible
        /\ NoneFailed' => ArcsApart' \/ \E n \in Node : TakesAnother(n)]_vars

\* A call to its successor comes to nothing in this step.
SuccessorFails(n) ==
    \E c \in calls \ calls' :
        /\ c.from = n /\ c.to = Successor(n)
        /\ c.phase = "dropped" \/ (c.type = "Ping" /\ ~ Alive(c.to))

\* A list sent by the successor arrives in this step.
ListArrives(n) ==
    \E c \in calls \ calls' : c.type = "Notify" /\ c.phase = "answered" /\ c.from = n

\* While a node is READY, its successor is replaced only by a node between the two
\* that a hint, a stabilization or a joining node names, unless it did not answer.
\* A list that arrives, late or not, changes nothing about it ("don't add nodes, if
\* this would change our successor"), although its nodes replace all others.
SuccessorGetsCloser ==
    [][\A n \in Node : Ready(n) /\ Ready(n)' =>
        \/ Successor(n)' = Successor(n)
        \/ IsBetween(Successor(n)', n, Successor(n)) /\ ~ ListArrives(n)
        \/ SuccessorFails(n)]_vars
-----------------------------------------------------------------------------
(***************************************************************************)
(* What makes the assertions and ReadyHasSuccessor inductive.              *)
(***************************************************************************)
\* No node is its own predecessor, and only a ready node has one.
GoodPredecessor(n, p) ==
    /\ p.predecessor # n
    /\ p.state # "READY" => p.predecessor = None

PeersGood == \A n \in Node : GoodPredecessor(n, node[n])

\* No call goes to its sender; all but a JoinCall that is still on its way go to
\* some node.  No answer to a JoinCall names the joining node as its predecessor,
\* and only nodes that check their predecessor ping it.
GoodCall(c) ==
    /\ c.to # c.from
    /\ (c.type = "Join" /\ c.phase = "sent") \/ c.to \in Node
    /\ c.type = "Join" => c.preNode # c.from
    /\ c.type = "Hint" => c.preNode \in Node
    /\ c.type = "Ping" => checkPredecessor

CallsGood == \A c \in calls : GoodCall(c)

\* A node joins with one call at a time, and is not READY until it has ended.
JoinsOneByOne ==
    \A c \in calls : c.type = "Join" =>
        /\ node[c.from].state \in {"JOIN", "DEAD"}
        /\ \A d \in calls : d.type = "Join" /\ d.from = c.from => d = c

\* A node that has not joined, or has no successor, waits for no answer of one: it
\* got there by a timeout, which comes later than any answer.
Busy(c) == c.type \in {"Stabilize", "Notify"} /\ c.phase # "dropped"
Quiet(p, n) == p.state \in {"OFF", "JOIN"} \/ (p.state = "READY" /\ Empty(p, n))

QuietNodesWait == \A c \in calls : Busy(c) => ~ Quiet(node[c.from], c.from)

IInv ==
    /\ TypeOK
    /\ PeersGood
    /\ ReadyHasSuccessor
    /\ CallsGood
    /\ JoinsOneByOne
    /\ QuietNodesWait
=============================================================================
