---------------------------- MODULE NeighborCache ----------------------------
(***************************************************************************)
(* The neighbor cache of one node (src/common/NeighborCache.cc): what it   *)
(* knows of the round trip times to other nodes, and the listeners that    *)
(* wait in an entry until a ping they asked for has ended.                 *)
(*                                                                         *)
(* The overlay asks with getProx.  Every RPC of the node reports how it    *)
(* ended (updateNode, setNodeTimeout; see verdict in BaseRpc), the pings   *)
(* of the cache itself among them, and either report serves all listeners  *)
(* of the entry.  A listener called back may ask again at once: callbacks  *)
(* are steps of their own, between which only getProx can run.             *)
(*                                                                         *)
(* Time is simTime(), in whole units; what happens within one unit happens *)
(* at the same instant.  The round trip times themselves, network          *)
(* coordinates (ncsType "none", the default; nothing calls updateNcsInfo)  *)
(* and the list of closest nodes are left out.                             *)
(***************************************************************************)
EXTENDS Naturals, FiniteSets, Functions

CONSTANTS
    Node,               \* the addresses of the other nodes
    Self,               \* the address of this node
    Query,              \* the calls of getProx made with a listener
    MaxSize,            \* parameter maxSize
    RttExpirationTime,  \* parameter rttExpirationTime
    Queries,            \* for each value of parameter enableNeighborCache that is
                        \* looked at, the queries that are made with it
    MaxTime             \* bound: time stops here, and no query is made any more

ASSUME SelfAssumption  == Self \notin Node
ASSUME QueriesAssumption == /\ DOMAIN Queries \subseteq BOOLEAN
                            /\ Queries \in [DOMAIN Queries -> SUBSET Query]
ASSUME BoundAssumption == /\ MaxSize \in Nat
                          /\ RttExpirationTime \in Nat
                          /\ MaxTime \in Nat

Addr == Node \cup {Self}
Time == 0 .. MaxTime
-----------------------------------------------------------------------------
VARIABLES
    enableNeighborCache,    \* does the cache answer queries at all?
    now,                    \* simTime()
    neighborCache,          \* address -> entry, for the addresses it knows
    neighborCacheExpireMap, \* the multimap of times and addresses
    pings,                  \* query -> the ping sent for it that has not ended
    calling,                \* the callbacks still to be made by the running handler
    \* history, which the code does not keep:
    answer                  \* query -> what getProx or the callback told

vars == <<enableNeighborCache, now, neighborCache, neighborCacheExpireMap,
          pings, calling, answer>>

\* The listeners of an entry form a vector in the code; here they may be called
\* in any order.
Entry == [insertTime : Time, waitingContexts : SUBSET Query,
          rttState : {"VALID", "UNKNOWN", "TIMEOUT", "WAITING"}]
Item  == [time : Time, node : Addr]
\* fresh: sent at this very instant, so that an answer would have taken no time.
Ping  == [node : Node, fresh : BOOLEAN]

TypeOK ==
    /\ enableNeighborCache \in DOMAIN Queries
    /\ now \in Time
    /\ DOMAIN neighborCache \subseteq Addr
    /\ neighborCache \in [DOMAIN neighborCache -> Entry]
    /\ neighborCacheExpireMap \subseteq Item
    /\ DOMAIN pings \subseteq Query
    /\ pings \in [DOMAIN pings -> Ping]
    /\ calling \subseteq [query : Query, prox : {"RTT", "TIMEOUT"}]
    /\ answer \in [Query -> {"NotAsked", "WAITING", "SELF", "RTT", "TIMEOUT"}]

Init ==
    /\ enableNeighborCache \in DOMAIN Queries
    /\ now = 0
    /\ neighborCache = [a \in {} |-> {}]
    /\ neighborCacheExpireMap = {}
    /\ pings = [q \in {} |-> {}]
    /\ calling = {}
    /\ answer = [q \in Query |-> "NotAsked"]

With(f, x, y) == [z \in DOMAIN f \cup {x} |-> IF z = x THEN y ELSE f[z]]
Without(f, X) == Restrict(f, DOMAIN f \ X)

Known(a) == a \in DOMAIN neighborCache
Idle     == calling = {}    \* no handler is running: the next event may come
-----------------------------------------------------------------------------
(***************************************************************************)
(* Insertion and eviction.                                                 *)
(***************************************************************************)
\* Slip: an entry that is being waited for can be evicted.
BlockedIfFresh(e) == e.insertTime = now

\* cleanupCache stops at an entry like this one.
Blocked(e) == e.rttState = "WAITING" \/ e.insertTime = now

\* Slip: the cache is never cleaned up.
NoEvictions(c, items) == {{}}

\* What cleanupCache may remove, oldest first: down to half of maxSize, or until
\* it meets a blocked entry.  Items of the same time are in no order.
Evictions(c, items) ==
    LET surplus == Cardinality(DOMAIN c) - MaxSize \div 2
        Stops(E) == \/ Cardinality(E) = surplus
                    \/ \E i \in items \ E :
                           /\ Blocked(c[i.node])
                           /\ \A j \in items \ E : i.time <= j.time
    IN  IF Cardinality(DOMAIN c) <= MaxSize THEN {{}}
        ELSE {E \in SUBSET items :
                  /\ Cardinality(E) <= surplus
                  /\ \A i \in E : ~Blocked(c[i.node])
                  /\ \A i \in E, j \in items \ E : i.time <= j.time
                  /\ Stops(E)}

\* A new entry for an unknown address, and cleanupCache.
Insert(a, e) ==
    LET filled == With(neighborCache, a, e)
        items  == neighborCacheExpireMap \cup {[time |-> now, node |-> a]}
    IN  \E E \in Evictions(filled, items) :
            /\ neighborCache' = Without(filled, {i.node : i \in E})
            /\ neighborCacheExpireMap' = items \ E

\* Slip: the time at which the entry will expire is stored.
EntryToExpire(state, W) ==
    [insertTime |-> now + RttExpirationTime, waitingContexts |-> W, rttState |-> state]

NewEntry(state, W) ==
    [insertTime |-> now, waitingContexts |-> W, rttState |-> state]

\* Slip: insertTime is set to now before the item is looked for.
MovedLate(a) ==
    (neighborCacheExpireMap \ {i \in neighborCacheExpireMap : i.node = a /\ i.time >= now})
        \cup {[time |-> now, node |-> a]}

\* updateEntry: a's item, searched for from a's insertTime on, moves to now.
Moved(a) ==
    (neighborCacheExpireMap \ {i \in neighborCacheExpireMap :
                                   i.node = a /\ i.time >= neighborCache[a].insertTime})
        \cup {[time |-> now, node |-> a]}
-----------------------------------------------------------------------------
(***************************************************************************)
(* Queries.                                                                *)
(***************************************************************************)
Expired(a) ==
    /\ neighborCache[a].rttState \in {"VALID", "TIMEOUT"}
    /\ now - neighborCache[a].insertTime >= RttExpirationTime

\* getNodeRtt: the state a query finds, and the cache after it has looked: an
\* expired entry becomes unknown.
Seen(a) == IF ~Known(a) \/ Expired(a) THEN "UNKNOWN" ELSE neighborCache[a].rttState
Looked(a) == IF Known(a) /\ Expired(a)
             THEN [neighborCache EXCEPT ![a].rttState = "UNKNOWN"] ELSE neighborCache

\* The types of queries that ping (defaultQueryType and defaultQueryTypeQ choose
\* among them) and whether such a query has to wait for a ping.
PingingTypes == {"EXACT", "EXACT_TIMEOUT", "QUERY"}
SendsQuery(a, type) ==
    \/ type = "QUERY"
    \/ Seen(a) \in {"WAITING", "UNKNOWN"}
    \/ type = "EXACT" /\ Seen(a) = "TIMEOUT" /\ neighborCache[a].insertTime # now

MayAsk(q) ==
    /\ q \in Queries[enableNeighborCache]
    /\ answer[q] = "NotAsked"
    /\ now < MaxTime

Answered(q, prox) == answer' = [answer EXCEPT ![q] = prox]
PingSent(q, a) == pings' = With(pings, q, [node |-> a, fresh |-> TRUE])

\* getProx for this node itself.
GetProxSelf(q) ==
    /\ MayAsk(q)
    /\ enableNeighborCache
    /\ Answered(q, "SELF")
    /\ UNCHANGED <<enableNeighborCache, now, neighborCache, neighborCacheExpireMap,
                   pings, calling>>

\* getProx answers from the cache.
GetProxHit(q, a, type) ==
    /\ MayAsk(q)
    /\ enableNeighborCache
    /\ ~SendsQuery(a, type)
    /\ neighborCache' = Looked(a)
    /\ Answered(q, IF Seen(a) = "VALID" THEN "RTT" ELSE "TIMEOUT")
    /\ UNCHANGED <<enableNeighborCache, now, neighborCacheExpireMap, pings, calling>>

\* getProx, insertNodeContext and queryProx for an unknown node: cleanupCache,
\* called before queryProx adds the listener, spares the new entry.
GetProxMiss(q, a) ==
    /\ MayAsk(q)
    /\ enableNeighborCache
    /\ ~Known(a)
    /\ Insert(a, NewEntry("WAITING", {q}))
    /\ PingSent(q, a)
    /\ Answered(q, "WAITING")
    /\ UNCHANGED <<enableNeighborCache, now, calling>>

\* getProx while a ping is under way: the listener joins those that wait.
GetProxJoin(q, a) ==
    /\ MayAsk(q)
    /\ enableNeighborCache
    /\ Seen(a) = "WAITING"
    /\ neighborCache' = [neighborCache EXCEPT ![a].waitingContexts = @ \cup {q}]
    /\ Answered(q, "WAITING")
    /\ UNCHANGED <<enableNeighborCache, now, neighborCacheExpireMap, pings, calling>>

\* The entry after insertNodeContext and queryProx have renewed it for a ping.
Renewed(a, q) == [neighborCache EXCEPT
    ![a].insertTime = now, ![a].rttState = "WAITING", ![a].waitingContexts = @ \cup {q}]

\* getProx with an entry that is of no use: another ping.
GetProxAgain(q, a, type) ==
    /\ MayAsk(q)
    /\ enableNeighborCache
    /\ Known(a)
    /\ SendsQuery(a, type)
    /\ Seen(a) # "WAITING"
    /\ neighborCache' = Renewed(a, q)
    /\ neighborCacheExpireMap' = Moved(a)
    /\ PingSent(q, a)
    /\ Answered(q, "WAITING")
    /\ UNCHANGED <<enableNeighborCache, now, calling>>

\* getProx with one of the types that never wait (AVAILABLE, ESTIMATED) has no
\* listener and changes no more than getNodeRtt does.
GetProxImmediate(a) ==
    /\ enableNeighborCache
    /\ Known(a)
    /\ Expired(a)
    /\ neighborCache' = Looked(a)
    /\ UNCHANGED <<enableNeighborCache, now, neighborCacheExpireMap, pings, calling, answer>>

\* getProx with the cache disabled: queryProx pings in any case.
\* The listener waits in a new entry ...
QueryProxNew(q, a) ==
    /\ MayAsk(q)
    /\ ~enableNeighborCache
    /\ ~Known(a)
    /\ Insert(a, NewEntry("UNKNOWN", {q}))
    /\ PingSent(q, a)
    /\ Answered(q, "WAITING")
    /\ UNCHANGED <<enableNeighborCache, now, calling>>

\* ... or in one that is left as it is otherwise, however old.
QueryProxKnown(q, a) ==
    /\ MayAsk(q)
    /\ ~enableNeighborCache
    /\ Known(a)
    /\ neighborCache' = [neighborCache EXCEPT ![a].waitingContexts = @ \cup {q}]
    /\ PingSent(q, a)
    /\ Answered(q, "WAITING")
    /\ UNCHANGED <<enableNeighborCache, now, neighborCacheExpireMap, calling>>
-----------------------------------------------------------------------------
(***************************************************************************)
(* The results of RPCs.  Both reports reach the cache whether it is        *)
(* enabled or not.                                                         *)
(***************************************************************************)
\* Slip: a timeout is stored but not told.
CallsBackIfAlive(a, prox) ==
    calling' = IF Known(a) /\ prox = "RTT"
               THEN {[query |-> q, prox |-> prox] : q \in neighborCache[a].waitingContexts}
               ELSE {}

\* The callbacks of updateNode and setNodeTimeout: getNodeContexts has emptied
\* the entry before the first one runs.
CallsBack(a, prox) ==
    calling' = IF Known(a)
               THEN {[query |-> q, prox |-> prox] : q \in neighborCache[a].waitingContexts}
               ELSE {}

\* Slip: getNodeContexts copies the listeners and keeps them.
StillListed(a, state) == [neighborCache EXCEPT
    ![a] = [@ EXCEPT !.insertTime = now, !.rttState = state]]

Reported(a, state) == [neighborCache EXCEPT
    ![a] = [@ EXCEPT !.insertTime = now, !.rttState = state,
                     !.waitingContexts = {}]]

\* updateNode; an answer that took no time is ignored.
UpdateNode(a, instantly) ==
    \/ /\ instantly
       /\ UNCHANGED <<neighborCache, neighborCacheExpireMap, calling>>
    \/ /\ ~instantly /\ ~Known(a)
       /\ Insert(a, NewEntry("VALID", {}))
       /\ CallsBack(a, "RTT")
    \/ /\ ~instantly /\ Known(a)
       /\ neighborCacheExpireMap' = Moved(a)
       /\ neighborCache' = Reported(a, "VALID")
       /\ CallsBack(a, "RTT")

SetNodeTimeout(a) ==
    \/ /\ ~Known(a)
       /\ Insert(a, NewEntry("TIMEOUT", {}))
       /\ CallsBack(a, "TIMEOUT")
    \/ /\ Known(a)
       /\ neighborCacheExpireMap' = Moved(a)
       /\ neighborCache' = Reported(a, "TIMEOUT")
       /\ CallsBack(a, "TIMEOUT")

\* A ping sent for query q is answered, some time later ...
PingResponse(q) ==
    /\ Idle
    /\ q \in DOMAIN pings
    /\ ~pings[q].fresh
    /\ UpdateNode(pings[q].node, FALSE)
    /\ pings' = Without(pings, {q})
    /\ UNCHANGED <<enableNeighborCache, now, answer>>

\* ... or it is not.
PingTimeout(q) ==
    /\ Idle
    /\ q \in DOMAIN pings
    /\ ~pings[q].fresh
    /\ SetNodeTimeout(pings[q].node)
    /\ pings' = Without(pings, {q})
    /\ UNCHANGED <<enableNeighborCache, now, answer>>

\* Another RPC of this node, sent at an earlier time, ends.  This node answers
\* itself without delay (SimpleUDP).
RpcResponse(a) ==
    /\ Idle
    /\ now > 0
    /\ UpdateNode(a, a = Self)
    /\ UNCHANGED <<enableNeighborCache, now, pings, answer>>

RpcTimeout(a) ==
    /\ Idle
    /\ now > 0
    /\ SetNodeTimeout(a)
    /\ UNCHANGED <<enableNeighborCache, now, pings, answer>>

\* A listener is told.
ProxCallback(c) ==
    /\ calling' = calling \ {c}
    /\ Answered(c.query, c.prox)
    /\ UNCHANGED <<enableNeighborCache, now, neighborCache, neighborCacheExpireMap, pings>>

Tick ==
    /\ Idle
    /\ now < MaxTime
    /\ now' = now + 1
    /\ pings' = [q \in DOMAIN pings |-> [pings[q] EXCEPT !.fresh = FALSE]]
    /\ UNCHANGED <<enableNeighborCache, neighborCache, neighborCacheExpireMap,
                   calling, answer>>
-----------------------------------------------------------------------------
GetProx(q) ==
    \/ GetProxSelf(q)
    \/ \E a \in Node, type \in PingingTypes : GetProxHit(q, a, type) \/ GetProxAgain(q, a, type)
    \/ \E a \in Node : \/ GetProxMiss(q, a) \/ GetProxJoin(q, a)
                       \/ QueryProxNew(q, a) \/ QueryProxKnown(q, a)

Next ==
    \/ \E q \in Query : GetProx(q) \/ PingResponse(q) \/ PingTimeout(q)
    \/ \E a \in Addr : RpcResponse(a)
    \/ \E a \in Node : GetProxImmediate(a) \/ RpcTimeout(a)
    \/ \E c \in calling : ProxCallback(c)
    \/ Tick

\* Time passes, a ping ends (RpcCalls promises it: TimedCallsEnd) and callbacks
\* return.
Fairness == /\ WF_vars(Tick)
            /\ WF_vars(\E c \in calling : ProxCallback(c))
            /\ \A q \in Query : WF_vars(PingResponse(q) \/ PingTimeout(q))

Spec == Init /\ [][Next]_vars /\ Fairness
-----------------------------------------------------------------------------
(***************************************************************************)
(* Correctness.                                                            *)
(***************************************************************************)
\* The cache and its expire map are about the same nodes, with one item each,
\* at the entry's insertTime: updateEntry's search starts there and has no other
\* end, and the assertions after every change compare the sizes of the two.
ExpireMapAgrees ==
    /\ \A i \in neighborCacheExpireMap : Known(i.node)
    /\ \A a \in DOMAIN neighborCache :
           \E i \in neighborCacheExpireMap :
               /\ i.node = a
               /\ i.time = neighborCache[a].insertTime
               /\ \A j \in neighborCacheExpireMap : j.node = a => j = i

\* The listeners that wait for news of some node.
WaitsIn(q, a) == q \in neighborCache[a].waitingContexts
BeingCalled(q) == \E c \in calling : c.query = q

\* A listener that was told to wait is in one entry, or about to be called, and
\* nowhere else; one that has got its answer is in none: nobody is forgotten
\* when an entry is evicted, renewed or reported, and nobody is told twice.
WaitersKept ==
    \A q \in Query :
        /\ answer[q] = "WAITING" <=>
               BeingCalled(q) \/ \E a \in DOMAIN neighborCache : WaitsIn(q, a)
        /\ \A a, b \in DOMAIN neighborCache : WaitsIn(q, a) /\ WaitsIn(q, b) => a = b
        /\ \A c, d \in calling : c.query = q /\ d.query = q => c = d
        /\ BeingCalled(q) => \A a \in DOMAIN neighborCache : ~WaitsIn(q, a)

\* With the cache enabled this holds; a disabled cache can lose listeners.
EnabledKeepsWaiters == enableNeighborCache => WaitersKept

\* With the cache enabled, listeners are only in entries that wait, so the
\* exception "not waiting for response, but additional contexts found!" of
\* insertNodeContext is never thrown; and an entry only waits as long as a ping
\* that will report on its node is under way.
WaitingIsPinged ==
    enableNeighborCache =>
        \A a \in DOMAIN neighborCache :
            /\ neighborCache[a].waitingContexts # {} => neighborCache[a].rttState = "WAITING"
            /\ neighborCache[a].rttState = "WAITING" => \E q \in DOMAIN pings : pings[q].node = a

\* A query that is made has no ping under way, which its own would replace.
PingsWereAsked == \A q \in DOMAIN pings : answer[q] # "NotAsked"

\* The inductive invariant (NeighborCacheProofs): a listener waits only in a WAITING
\* entry, which is never evicted and stops waiting only in a report, when all its
\* listeners are called.
IInv ==
    /\ TypeOK
    /\ IsFiniteSet(DOMAIN neighborCache)
    /\ ExpireMapAgrees
    /\ EnabledKeepsWaiters
    /\ WaitingIsPinged
    /\ PingsWereAsked

\* The cache only grows beyond maxSize if its oldest entry is being waited for
\* or was inserted at this very instant, whichever operation inserts.
Oldest(items) == {i \in items : \A j \in items : i.time <= j.time}
GrowsWithinBounds ==
    [][Cardinality(DOMAIN neighborCache') > Cardinality(DOMAIN neighborCache)
         /\ Cardinality(DOMAIN neighborCache') > MaxSize
       => \E i \in Oldest(neighborCacheExpireMap') : Blocked(neighborCache[i.node])']_vars

\* With the cache enabled every listener told to wait is called back: time and
\* again there is none left that waits (each query is made once).
WaitersAreCalled ==
    enableNeighborCache ~> \A q \in Query : answer[q] # "WAITING"
=============================================================================
