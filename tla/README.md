# OverSim in TLA+

OverSim is an overlay network simulator (C++, on OMNeT++): structured and
unstructured peer-to-peer protocols under `src/src/overlay`, services on top of
them under `src/src/applications`, `tier2` and `tier3`, the common machinery they
all use under `src/src/common`, and models of the network below under
`src/src/underlay`.  This directory holds TLA+ models of its core, the TLC
configurations that check them and the theorems that TLAPS proves about them.
Paths below are relative to `src/src`; line numbers are those of that tree.

1. [The system](#1-the-system) - components, state, interactions, what is hard
2. [The models](#2-the-models) - modules, and how they correspond to the code
3. [The runs](#3-the-runs) - what TLC checks, bounds, fairness, findings
4. [The proofs](#4-the-proofs)
5. [What is only checked, and what is not modelled](#5-what-is-only-checked-and-what-is-not-modelled)
6. [The plan](#6-the-plan)

## 1. The system

A simulated node is a stack: an underlay (UDP, TCP), an overlay, up to three tiers
of applications, and beside them a neighbor cache, a crypto module and a bootstrap
list.  OMNeT++ executes one event at a time, so there are no threads; the
concurrency is that of nodes and messages, and *within* a node that of callbacks:
handling an answer calls listeners, which send, cancel and delete while the
handler is only half done.

### 1.1 Components

| component | state | operations | correct if |
|---|---|---|---|
| **BaseRpc** (`common/BaseRpc.cc`) | `rpcStates`: nonce -> message, retries, timer, listener | `sendRpcCall` over UDP, the overlay or between tiers; retransmission; answers; `cancelRpcMessage`, `cancelAllRpcs` | every call ends at most once, and ends if it has a timeout; listeners see each end once; only the addressee's answer counts; a node is blamed only for its own silence |
| **IterativeLookup** (`common/IterativeLookup.cc`) | paths with next hops, pending calls shared by the paths (`rpcs`), pings, visited, dead, siblings | `lookup`, `start`, `stop`, `checkStop`, `sendRpc`, answers and timeouts per path, sibling verification, retries, `abortLookup` | it ends, tells its listener once, leaves no call behind, and a valid result is the closest (verified) siblings |
| **NeighborCache** (`common/NeighborCache.cc`) | `neighborCache`: address -> rtt, state, waiting listeners; an expire map ordered by time | `getProx` with five query types, `updateNode`, `setNodeTimeout`, expiration, `cleanupCache` | both maps agree; who is told to wait is called back exactly once; the cache is bounded |
| **Chord** (`overlay/chord/Chord.cc`, `ChordSuccessorList.cc`) | predecessor, successor list, join state, timers | join, stabilize, notify, hints, predecessor checks, `handleFailedNode`, rejoin | one node responsible for each key, no READY node without a way to its ring, successors only get closer, its own assertions |
| **BaseOverlay** (`common/BaseOverlay.cc`) | overlay state, lookups in progress, visited hops of routed messages | `sendToKey`, `findNode`, `forward`/`deliver`, join, find-node and next-hop RPCs | a message is handled once at least where it belongs, or dropped for a reason that is counted; recorded routes have no loops; routing ends |
| **RecursiveLookup** | one routed RPC | `lookup`, answer, timeout, abort | as IterativeLookup |
| BootstrapList, GlobalNodeList | peers, partitions, bootstrapped flags | register, choose, remove, merge | a node that joins is given a node that lives; partitions are found |
| **DHT** (`applications/dht`) | stored values, pending puts and gets, replicas | put, get, maintenance when siblings change, timeouts | each request is answered once; a get sees acknowledged puts; a value survives fewer failures than it has replicas |
| **Kademlia** (`overlay/kademlia`) | buckets, sibling table, replacement caches | join, routing table insertion, refresh, failed nodes | siblings are the closest known; the application knows them; a live node is not pushed out |
| **Pastry** (`overlay/pastry`), Bamboo | leaf set, routing table, neighborhood set | join, leaf set repair, state exchange | the leaf set holds the closest nodes, from the right source, and is repaired |
| Koorde, Broose, de Bruijn | as above, with de Bruijn pointers | | |
| **Gia** (`overlay/gia`) | neighbors, tokens, key lists | handshakes, token grants, searches and their answers | links are mutual; tokens are neither lost nor doubled; answers find their way back |
| **Scribe** (`applications/scribe`) | groups with parent, children, root flag | subscribe, leave, publish, timers, `update` | one tree per group that reaches each subscriber |
| NICE, NTree, PubSubMMOG, Quon, VAST | clusters, trees, Voronoi neighbors | | geometry |
| i3, P2PNS | triggers; name cache | | |
| SimpleUDP, SimpleTCP | send queues, positions | send with delay, bit errors, queue limits | |
| churn generators, configurators | lifetimes | create, kill, migrate nodes | |
| coordinates (Vivaldi, NPS ...), statistics, test applications, XML-RPC | | | |

`PROJECT.json` lists all of these with their status.

### 1.2 How they interact

* Every overlay, tier and helper derives from BaseRpc or from its listener
  interface.  An answer or a timeout runs `handleRpcResponse` or
  `handleRpcTimeout` of the caller *inside* BaseRpc's handler, and these may make
  or cancel any call, that of the handler included.
* A lookup is a listener of its own calls.  It is created by the overlay
  (`createLookup`), deletes itself when it ends, and tells whoever asked for it -
  a pending `sendToKey`, a DHT request - from within.
* BaseRpc reports each answer and each timeout of a call that went directly to a
  node to the neighbor cache, whose own pings are BaseRpc calls.  Overlays ask the
  cache (`getProx`) and are told at once or later (`proxCallback`).
* A lookup reports dead nodes to the overlay (`handleFailedNode`), which may repair
  its tables, or answer that it knows better next hops, or join again.
* With recursive routing a call to a key that this node is responsible for is
  answered before `sendRpcCall` returns.
* An overlay tells its application of nodes that come and go by `callUpdate`
  (`update()` of DHT and Scribe), which they take for the truth about who is
  responsible: DHT moves records, Scribe's rendezvous point moves.
* Scribe's messages are shown to the application on every hop (`forward()`), and a
  hop may end them there.

### 1.3 What is hard here

The list of hazards in `PROJECT.json` gives the lines.  They fall into these groups:
re-entrance (a callback changes the table its caller still uses), identity (answers
that come late, twice, or from another node at the same address), bookkeeping
shared by several actors (a lookup's paths share one call; a cache entry's listeners
share one ping), partial ends (a lookup is stopped, retried or aborted with calls
pending; an entry with listeners is evicted), interleavings of maintenance messages
between nodes (two joins of one arc in Chord, handshakes that cross in Gia, a Scribe
root that moves while nodes join it, a timeout about a node that has been replaced
since), answers in any order that are put together (the votes of a DHT get, the
states of a Pastry join), tables whose entries move between parts on every insertion
and failure (Kademlia's siblings and buckets, Pastry's two halves), and waiting for
ever (no timer, or a count that never reaches its target).

## 2. The models

| module | models | variables |
|---|---|---|
| `RpcCalls` | abstract: what a caller of BaseRpc may rely on | `status` |
| `BaseRpc` | one component's call table, its network and peers | `rpcStates timers net nodeKey stack verdict` + history |
| `BaseRpcProofs` | theorems about `BaseRpc` | |
| `IterativeLookup` | one lookup | `config lk` |
| `NeighborCache` | one node's cache | `enableNeighborCache now neighborCache neighborCacheExpireMap pings calling` + history |
| `NeighborCacheProofs` | theorems about `NeighborCache` | |
| `ChordSuccessorList` | key intervals and the successor list, as operators | |
| `Chord` | the nodes of a ring and the messages between them | `checkPredecessor node calls` |
| `ChordProofs` | lemmas and theorems about the two | |
| `RecursiveRouting` | routed messages and recursive lookups between nodes with given tables | `config tables packets pending ...` |
| `DHT` | one client, one item, the nodes that store it and the overlay's changes | `scenario members dataMap pendingRpcs ...` |
| `Kademlia` | one node's tables in any network | `config alive kad` |
| `Pastry` | one node's leaf set in any network | `config alive p net` |
| `Scribe` | the nodes of one group | `config alive known group childTimeoutList ...` |
| `Gia` | nodes, their links, tokens, searches, channels | `config node channel` + history |
| `RecursiveRoutingProofs`, `DHTProofs`, `PastryProofs`, `ScribeProofs`, `GiaProofs` | lemmas and theorems about each | |
| `GiaInvariants` | the inductive invariants of `Gia` and what its handlers are held to | |
| `MCBaseRpc`, `MCIterativeLookup`, `MCNeighborCache`, `MCRecursiveRouting`, `MCDHT`, `MCKademlia`, `MCPastry`, `MCScribe`, `MCGia` | values of constants for TLC | |

Names are those of the code where TLA+ allows it; the `map` of `PROJECT.json` gives
the lines each definition stands for.  Each module says at its head what it leaves
out.

**BaseRpc.**  One action per entry point: the interface (`SendRpcCall`,
`CancelRpcMessage`, `CancelAllRpcs`), which is callable at any time, and the two
halves of `internalHandleRpcMessage` - a timer (`Retry`, `TimeOut`) or an answer
(`DropResponse`, `HandleRpcResponse`).  A handler that runs callbacks does not end
with its action: it pushes the call's nonce on `stack`, interface actions may
follow, and `CallbackReturns` does what the code does after the listener returned
(`cancelAndDelete(state.timeoutMsg)`).  Handlers of events need an empty stack;
interface actions do not.  `SendRpcCallToSelf` and `RetryToSelf` are the calls
answered before they are sent.  `nodeKey` lets the node at an address leave and
come back under another key; the network loses, delays, reorders and duplicates.

**IterativeLookup.**  The lookup is a record `lk`, and the code's methods are
operators that take it and return it, because one event runs many of them:
`FindNodeResponse` distributes an answer to the paths that share the call, each
`HandleResponse` may `SendRpc`, and `CheckStop` ends the handler, perhaps with
`stop()` and `start()` in the same step.  A node is its rank in the order of distance
to the key.  What other nodes answer is arbitrary, which covers nodes that lie,
too.  The options of `IterativeLookupConfiguration` are a set, so that one run
covers many configurations.

**NeighborCache.**  Time is an explicit counter, because entries expire, an entry
inserted "now" is treated specially, and an answer that took no time is ignored.
Callbacks are steps of their own (`ProxCallback`), between which only `getProx` can
run.  `Evictions` gives the sets `cleanupCache` can remove.

**Chord.**  `node` holds every node's record, `calls` what is on its way.  A list is
the set of its nodes: the code's map is ordered by the distance from the node, so
its order follows.  A message is consumed by the handler that receives it; a call to
a node that is gone or not READY is `dropped`, and then times out
(`HandleRpcTimeout`).  `Enter` is `changeState(JOIN)` with the short cut for a node
that finds nobody (`READY` as a ring of its own).  `Fail` takes a node away without
notice.

*The one assumption about time* is `Overdue`: an RPC's timeout takes longer than a
message, so that messages in flight between the two nodes and others arrive before
it.  Everything else is free: timers of different nodes fire in any order, routed
JoinCalls take any time, pings any time.

**RecursiveRouting.**  What `sendToKey`, `handleBaseOverlayMessage`, `nextHopRpc` and
`internalHandleRpcTimeout` do to one message is one operator each, which returns what
is sent.  Next hops come from a table (`Tables`), as an overlay's `findNode` would give
them; a timeout removes the node from it, as `handleFailedNode` does.  A packet is a
record with its visited and next hops.  `Resent` is the second half of a NextHop
timeout: the node that has the message routes it again.  `HopCountMax` is at least one
(`RoutingAssumption`): with none every message would be dropped where it starts.
What an overlay promises of its tables is a hypothesis of two properties (`LeadToKey`):
each node's first next hop is closer to the key in the sense that some function to at most
`HopCountMax - 1` hops decreases (`Ways`), the second one, too, if a node may be removed
(`SpareWays`), and a first hop that is given is one of them (`GivenFirstHops`).

**DHT.**  The client's requests (`pendingRpcs`) with the answers they collect, the data
of each node (`dataMap`), and calls under way.  A call that times out may have been
handled or not.  `update()` of each node follows a change of `members` some time later.
`Update` sends the maintenance puts of both modes, to
whom `Receivers` names.  A get is the vote of
`handleGetResponse`: hashes are collected until `numGetRequests` of them and a ratio
agree, then one of the nodes that named the winner is asked for the value.  The entry's
three lists of nodes to ask (`replica`, `hashes`, the calls under way) are those of the
code, so that `AskedOnce` can say that no node is in two of them, or in one twice.  A node
has finitely many members (`DHTAssumption`), as half of them are counted.

**Kademlia.**  The node is its record `kad`.  `RoutingAdd` is `routingAdd()` with the
sibling table, the bucket of the node, the replacement cache and the pings that a full
bucket causes; `RoutingTimeout` its inverse with refill.  Everything the node reports
by `callUpdate` is put together in `kad.reported`.  Lookups end at any time after what
their answers have brought.

**Pastry.**  The leaf set is the code's vector with free slots in the middle, and
`InsertLeaf`, `Balanced` and `MergeNode` act on slots as the code does, since the
mistakes to be feared are those of slots.  Each hop on the way of a join message sends its
state, which may be lost or late; states are cached while nodes they name are pinged, and
queue behind each other.  A hop that hears no acknowledgement from the next one sends its
state again and routes the message another way, with the hop count that it had already got
(`Reroute`, from `internalHandleRpcTimeout()`).  So `ways` holds the hop count at the last hop
for each way of the message, and a state on its way is a hop count and a way; way 0 stands
for all messages of earlier attempts.

**Scribe.**  Each node's group record, its child timers and the messages on their way.
The overlay routes a join over any known closer node, and shows it to each.  Heartbeats
and refreshes are not messages: a timer may expire if nothing restarts it any more
(`Refreshed`, `Heard`), or if what would have restarted it was lost.  A node that asks for a
parent twice may get two, and data from both until the child timer of the one it does not
follow expires.  Therefore `DataReachesTree` speaks of data that is published while no join
is under way: history variables say who is owed such data (`Owed`), who has it (`Got`) and
whether any came twice.

**Gia.**  A node is its capacity.  A handler is an operator that returns the node's new
state and the packets it sends to each node; `Finish` appends them to the channels, one
for each pair of nodes, which keeps the order.  History variables count the tokens that a
timer or an own search mints, the links that one side has timed out (`dropped`), the answers
that came when the node was full (`refused`), and the pairs of which one has asked while
an earlier handshake of theirs was under way (`again`).  `LinksAgree` leaves the last out:
such a handshake can leave a link at one side only, or a candidate that is never asked
again (see 3.4).

## 3. The runs

A component has one run for its properties: the configurations it is checked
under are values a variable takes in `Init` and keeps.  One more run shows a
disagreement with the code's own words.

| run | module, cfg | what it shows |
|---|---|---|
| `rpc_calls` | MCBaseRpc, BaseRpc_all | safety of the table, the timers and the cache's verdicts, and that the inductive invariant `IInv` is one |
| `rpc_refines` | MCBaseRpc, BaseRpc_refines | BaseRpc implements RpcCalls, and calls with a timeout end |
| `lookup` | MCIterativeLookup, IterativeLookup_all | bookkeeping of paths and calls (`LookupConsistent`), what a valid result proves, and termination under ten configurations |
| `ncache` | MCNeighborCache, NeighborCache_all | maps agree, no listener lost or told twice, waits are backed by pings (`IInv`), growth bounded, waiters called, with the cache enabled and disabled |
| `chord` | Chord, Chord_all | assertions, responsibility, successors, under both predecessor checks, and the inductive invariant `IInv` |
| `dht` | MCDHT, DHT_all | no replica is asked twice for a value; a put that succeeds has a majority; without losses nothing fails; a get sees acknowledged puts; maintenance restores the replicas; every request is answered |
| `kademlia` | MCKademlia, Kademlia_all | the tables agree with a reference definition and with what the application was told; `findNode` returns the closest; siblings only get closer while nobody fails; a join ends |
| `pastry` | MCPastry, Pastry_all | the leaf set, and the siblings named from it, against reference definitions, and what was reported; it comes from the last hop, a longer way or an earlier attempt; nothing waits for nothing; a lost leaf starts a repair |
| `scribe` | MCScribe, Scribe_all | a tree, connected when nothing is under way, over which data reaches every node once, if no join was under way when it was published |
| `routing` | MCRecursiveRouting, RecursiveRouting_all | messages are handled or lost for a reason, where they belong; recorded routes have no loop; routing ends |
| `routing_back` | MCRecursiveRouting, RecursiveRouting_back | *violation*: see finding 1 |
| `gia` | MCGia, Gia_all | links are mutual, tokens are conserved, answers return once |

Some invariants are conjunctions of named parts, so that one property can be read, and
one run covers several: `IInv` of BaseRpc, NeighborCache and Chord, `LookupConsistent`,
`ResultProved`, `TablesConsistent`, `LeafSetConsistent`, `TreeConsistent`.  Each part has a mutant
of its own.

### 3.1 Bounds, and why they are enough

* **BaseRpc**: two nonces, so that one call can be made, cancelled or answered
  inside the callbacks of the other (three would only nest deeper); two nodes, one
  key and "no key", so that an address can change its key; one retry; six kinds of
  calls, one of each combination of transport and destination the code tells apart.
  Nonces are never reused.
* **IterativeLookup**: five ranks, the key's own node and this node included;
  answers of up to two nodes, in any order, with or without the sibling flag;
  one or two paths; one or two parallel calls; one retry.  Two paths and two calls
  are enough for a call to be shared, for answers to be early and late, and for a
  path to end before another.  `redundantNodes` 2 to 4 makes the vectors overflow.
* **NeighborCache**: two nodes and this node, a cache for one entry (so every
  insertion may evict), expiration after two units, time up to three, three queries
  (two when disabled): one starts a ping, one joins it and one is made from the
  callback of the first before the second is called.
* **Chord**: three nodes, the fewest for which a predecessor differs from the
  successor; one failure; lists of two; `stabilizeRetry` 1; and a timer sends a call
  only while at most one other (`MaxCalls` 2) is on its way.  Messages sent by
  handlers are not bounded.  With `MaxCalls` 3 and pings the same properties were
  found to hold on 880,831 states, too long for a regular run.  A node does not
  send a second StabilizeCall to a node before the first has ended, as the default
  delays ensure.

* **RecursiveRouting**: four nodes, eleven configurations: the three forms of routing
  with and without acknowledgements, recorded routes, `forward()`, a given first hop, an
  own key; tables that lead to the key, along a chain, or round in circles; one failure,
  one loss, one early timer; six hops, so that circles are cut by the maximum too.  In the
  tables `close` each node knows two that are closer to each key, so that one may be removed
  (`Close`); in `chain` one (`Chain`).  In both a message has the hops to get to every key,
  the detours included; with five it has not, and `QuietMeansHandled` says nothing of `close`.
* **DHT**: five nodes and eight scenarios: two or three replicas, two writers and a
  reader at once, a deletion, two losses and a failed lookup, an expiry, a join or leave
  during a request, two joins or leaves one after the other, in both modes.
* **Kademlia**: up to four other nodes with 3-bit keys, a sibling table of two and
  buckets of one with one candidate: each insertion may push a node from table to bucket
  to cache.  One failure or one lost call; with and without sibling pings, stale counts
  and `secureMaintenance`.
* **Pastry**: a ring of eleven places, four leaves, up to five other nodes, two failures,
  one loss, one state queued: a half of two is the smallest in which order matters.  Join
  messages of up to two hops, or of up to three of which one hop hears no acknowledgement
  (`reroutes`): the first way may be the shorter one, the longer one or as long.
* **Scribe**: up to four nodes of one group; one join and one failure of a node, two
  subscriptions, one leave, two publications.  `Twice` is the smallest setting in which data
  comes twice: four nodes, of which 3 becomes the parent of 4 while 4 asks again.
* **Gia**: five nodes with three neighbors: three nodes that join one another, a node that
  pushes a neighbor out of a clique, two nodes that race for the last place, two neighbors
  that lose each other, searches over a chain and a triangle with one token per link, and of a
  node without neighbors.

Deadlock checking is off where the system may stop: a component that has used its
nonces, a lookup that is gone, and two Chord nodes that are left alone in rings of
their own with all timers cancelled (which is a consequence of `Chord.cc:1359`, see 3.4),
requests that have all ended, a group without members.

### 3.2 Fairness

OMNeT++ executes every event that is scheduled.  So BaseRpc's timers fire and
callbacks return (weak fairness of `Retry \/ RetryToSelf \/ TimeOut` per nonce and of
`CallbackReturns`); messages need not arrive, hence no fairness for answers.  A lookup
relies on what BaseRpc promises - each of its calls ends - and on nothing else:
`IterativeLookup!Fairness` is weak fairness of `CallEnds` written out.  The
neighbor cache relies on the same for each ping, and on time passing.  No
liveness is claimed of Chord, see 3.4.

`DHT`: a call that is sent ends (`WF(Handle)`), by RpcCalls' promise; `EveryRequestAnswered`
needs no more.  `Kademlia`: pings and calls end, refresh timers fire, lookups finish, and the
bootstrap list names a live node again and again (`LivelyBootstrap`), as it is given the
ready nodes.  `RecursiveRouting`: packets arrive unless they are lost, and timers fire.
`Pastry!RepairBegins` is about single steps and needs no fairness.  No liveness is claimed of
Scribe, whose repeated losses would need strong fairness of too many actions to check;
`QuietMeansConnected` is its safety counterpart: once nothing is under way, the tree is
connected.  None is claimed of Gia, where a message without a token may wait for ever (3.4).

### 3.3 Mutants

Each property of a passing run comes with a plausible mistake it catches, listed
under `mutants`.  The mistaken versions are the operators marked "Slip" just before
the definition they get wrong; nothing else uses them.

### 3.4 Findings

Run `routing_back` shows a disagreement with the code's own words:

1. `BaseOverlay.cc:1779`: when the first hop of a recorded route fails,
   `internalHandleRpcTimeout()` removes it from `nextHops[]` and calls
   `handleBaseOverlayMessage()`, which takes the first entry that is left for this node and
   removes it as well.  So the message skips a hop that lives, although the log line at 1787
   says "Resend msg to next available node in nextHops[]: "; if that hop was the last one, this
   node handles the answer itself, and the caller never gets it.

The following were found by runs of the same kind, each with the property named here stated
for the case that the regular runs leave out.  To see one, state the property without its
exception and run it:

2. `BaseRpc.cc:194` turns the default timeout of a call between tiers into none, while
   `BaseRpc.h:309` promises a timeout and retransmissions.  A call that is not handled
   waits for ever (`TimedCallsEnd` of all calls).
3. `IterativeLookup.cc:991`: a FailedNodeCall is not recorded in `rpcs`, so `stop()`
   ("cancel pending rpcs", 249) does not cancel it: its listener may be deleted while
   the call is in flight (`NoOrphanedCalls` with those calls).
4. `IterativeLookup.cc:296`: with `majoritySiblings` a lookup of which all paths failed
   is valid and has no siblings, an error for `BaseOverlay.cc:1286`.
5. `IterativeLookup.cc:542`: without `merge`, an answer that comes too late does not
   mark its sender as visited; it is asked again although `BaseOverlay.ned:55` says
   that it never is (`NeverAskedTwiceIfRemembered` of all configurations).
6. `NeighborCache.cc:999`: with the cache disabled (the default) an entry that
   listeners wait in may be evicted (`EnabledKeepsWaiters` of both settings): they are
   never called, though `NeighborCache.h:316` has them called.
7. `Chord.cc:1359`: after a ping's timeout nobody looks whether the last successor was
   lost: a READY node with a predecessor and without a successor, which
   `Chord.cc:562` calls an error, and which no timer of its own repairs.
8. `DHT.cc:618`: with fewer siblings than `numGetRequests` a get waits for more answers than
   it has asked for, for ever (`EveryRequestAnswered` with two members and `gets` 3).
9. `Scribe.cc:303`: a node whose parent has failed sends one join and has no timer any
   more: if that join is lost it stays outside, although the comment at 297 says "send new join
   to rejoin group" (`QuietMeansConnected` with losses).
10. `BasePastry.cc:310`: a node whose last leaves fail joins again; if the bootstrap list is
   empty it is READY at once, the test `state != READY` does not leave the callback, and the
   cached state is used after it was erased, although the comment at 308 says that the
   handler exits (`p.state # "CRASH"` with two deaths among nodes {2, 9}).
11. `Pastry.cc:1277`: "all state messages are here, sort by hopcount:" is said of a joining
   node that has received `joinHopCount` states.  The code counts states, of whatever hop and
   message.  When a message is routed again (`BaseOverlay.cc:1768`) a hop sends its state
   twice, with two hop counts, and late states of an earlier attempt count, too: so a hop's
   state may be missing, and a longer way may bring a state that sorts behind the last hop's,
   from which the leaf set is then built (1141).  The TODO at 1304 speaks of wrong hop counts
   in iterative mode only (`LeafSetFromLastHop` without its two exceptions).

Other things met while modelling, each part of the models as the code has it:

* *Lookup.*  `finishedPaths` may stay short of the number of paths (the TODO at 329): a
  path that finishes within `start()` is not counted; the empty `rpcs` end the lookup
  then.  With `verifySiblings` a lookup whose siblings never answered their pings is
  valid and empty (877).  `parallelPaths` stays reduced after the first `start()` (211).
  `majoritySiblings` is not cleared by a retry.
* *NeighborCache.*  An ESTIMATED query finds an rtt of 0 in an entry that waits for its
  first ping (930); AVAILABLE answers PROX_WAITING without registering anybody; QUERY
  is documented to return PROX_UNKNOWN and returns PROX_WAITING; `updateNcsInfo` has
  no caller; an rtt of 0 is ignored together with those who wait for it (339).
* *Chord.*  `handleFailedNode` drops a predecessor that is also the successor when
  *any* node fails (522-531), and `rpcNotify` believes whoever comes next (1121).  Two nodes
  can then hold themselves responsible for a key although no node has failed and nothing was
  lost.  TLC finds this with four nodes and `MaxCalls` 3 (62 steps, 49 million states, too
  long for a run): nodes give each other up and join again, and a call that was dropped times
  out after later ones have.  Three nodes never get there.  `ResponsibleOnce` therefore
  names this step as the only one that ends what the others keep.  `joinRetry` is counted down before it is tested, so
  one call less is made than the name says, and with 1 none at all.  A node taken for
  a successor before it is READY drops the StabilizeCall and is treated as failed;
  a ring of two may dissolve and form again in turn, without any failure, for as long
  as the timers' phases fit.  This is why "the ring converges" is not among the
  properties: it depends on times the model does not have, and `<>[]` of it fails on
  that cycle.
* *RecursiveRouting.*  Hops that have failed count towards the hop limit.  A message sent
  to a given first hop that is farther from the key can get stuck, because it may not come
  back to its source.  `callForward()` hands the message to the application without its
  visited hops, so with `useCommonAPIforward` loops are not detected and source routed
  answers do not work; the properties leave it out.  `handleFailedNode()` of the last known
  node drops the message.  An acknowledged message may be dropped after all.  In full
  recursive routing a lookup of an own key is answered while it is being sent, and
  `RecursiveLookup.cc:68` then writes to the deleted lookup.
* *DHT.*  Without `secureMaintenance` `update()` sets `responsible` on a copy of the entry (768),
  so a record whose responsible node leaves is not passed on by its heir.  With it a sibling
  that comes back ignores maintenance puts and stays without responsibility.  Both are
  exceptions in `ReplicasRestored`.  A value that arrives after the last timeout is dropped.
* *Kademlia.*  Joining again clears the tables without `callUpdate`.  A READY node whose
  sibling table becomes empty by a FailedNodeCall does not join again; only a failed next
  hop has that effect (`BaseOverlay.cc:1768`).  `isSiblingFor` may say yes although a bucket
  holds a closer node.  `findNode` misses closer nodes of a bucket when a sibling's bucket
  is above the key's.  `secureMaintenance` leaves some `callUpdate` out.
* *Pastry.*  `failedNode()` reports the leaf before it is erased; joining again reports
  nothing.  A node with one leaf left joins again even if others it knows live.  If the
  first hop does not acknowledge a join call, both `internalHandleRpcTimeout()` and
  `handleRpcTimeout()` join, so two messages are under way (`HandleJoinTimeout`).  The node asked for repair is read through a
  pointer into a slot that balancing has changed meanwhile.
* *Scribe.*  A message is shown to `forward()` at the rendezvous point, too, before it is
  delivered: a root without the group takes a child as an ordinary forwarder, and then joins
  itself.  `update()` measures on the ring (`KeyRingMetric`), which suits Pastry, not Chord.  A
  parent is not told that its child has another; for up to a minute data comes twice.
  A publication that reaches a former root is lost.
* *Gia.*  Handshakes that cross make both sides disconnect.  A node that asks again while
  an earlier handshake is under way may end with a link that the other has given up.  A node that is full when an
  answer to its response arrives refuses it and keeps the other as a candidate, which
  it never asks again; so would a lost response.  A node that has timed out a neighbor
  asks it again and is denied, and the request refreshes the link at the other side: neither forgets.
  The degree sent on adding a neighbor is one too low.  The token timer runs once after INIT,
  so that tokens come back only with messages.  An own search that is answered at once grants a
  token that nobody has used (1185).  A second `GIAput` within `keyListDelay` schedules a
  scheduled timer.  If no node is ready and nothing is known, `add()`'s assertion fails.

## 4. The proofs

Eight modules have proofs: BaseRpc, NeighborCache, Chord, Scribe, DHT, RecursiveRouting,
Pastry and Gia.  TLC looks at small instances; the theorems below hold for every value of the
constants that satisfies the modules' assumptions (`...Assumption`), among them
that nodes of Chord are finitely many natural numbers, that `None` and `NoNode` are
no nodes, and that the calls a component makes are ones `BaseRpc.h` can produce.
Each module of proofs states one inductive invariant `IInv`, proves that the initial states
satisfy it and that each action preserves it (a lemma per action), and draws the theorems
from it.  TLC checks `IInv` of BaseRpc, NeighborCache and Chord in their runs as well; that
of the others is stated in the module of proofs, since it quantifies over sets of records
or sequences that TLC cannot enumerate, and their runs check what follows from it.

**BaseRpcProofs.**  The safety properties of the table are not inductive alone:
that only the addressee ends a call needs that each message in flight belongs to
the call its nonce names and that answers come from whom the call went to
(`MessagesBelong`); that nobody is blamed unjustly needs that the table holds the
arguments the call was made with (`TableIsAsked`); and that a state in the table is
never that of an ended call needs that nothing ends before it is made
(`EndedWereAsked`).  From `IInv` follow

* `TypeCorrect`, `Accounted`, `Timers`, `CallbacksOnce`, `Transmissions`, `Authentic`
  and `FairBlame`, the safety properties of the table, which run `rpc_calls` checks as the
  parts of `IInv` and as `BlameIsEarned`;
* `Refinement`: every behaviour of BaseRpc is one of RpcCalls under the mapping
  `Status` (its safety part).  Each action maps to a step of RpcCalls or to a stutter:
  `SendRpcCallToSelf` to `MakeAndAnswer`, `CancelAllRpcs` to `Cancel` of a set.

**ChordProofs.**  Two layers.  The lemmas about lists rest on one fact, that
`Precedes(n, ., .)` is a strict total order (`Order`) with a least element in every set
(`Nearest`, from the well-foundedness of `<`): cutting a list keeps the nearest node
(`FirstKeepsNearest`) and leaves at most k (`FirstIsBounded`, by the pigeonhole
principle on the number of nodes before each), so adding never empties a list and
replaces a successor only by a nearer node (`AddSuccessor`), `updateList` never
replaces it (`UpdateSuccessor`), nor does the failure of another node
(`FailedSuccessor`).  The invariant adds what relates nodes and messages:

* `PeersGood` and `CallsGood`: no node is its own predecessor, or calls itself.  For a
  JoinCall's answer this rests on `ResponsibleFor`: a node is never responsible for
  the key of its own predecessor.
* `JoinsOneByOne`: a node joins with one call at a time and is not READY before its
  end; so an answer to a join never replaces what a ready node has learnt.
* `QuietNodesWait`: a node without a successor has no StabilizeCall or NotifyCall in
  flight.  Else the answer could make it notify itself.  It is preserved because a
  list is emptied by a timeout only, and a timeout comes after the answers in flight:
  this is where the assumption `Overdue` about time is used.

From it follow `TypeCorrect`, `Assertions`, `NeverIsolated` (`ReadyHasSuccessor`) and, as
an action property, `SuccessorOnlyGetsCloser`.

`ArcsStayApart` (`ResponsibleOnce`) speaks of arcs.  A ready node holds the arc from its
predecessor to itself, and so does a joining node to which an answer is on its way: `RpcJoin`
gives a part of its arc away before the joining node can hold it.  `ArcsApart` says that no
member lies on the arc of another; it implies that no key has two responsible nodes
(`ApartIsOnce`), whatever the successor lists look like.  Every step keeps it until a node
fails (`NextApart`), but the one in which a node that has lost its predecessor takes another:
`RpcJoin` divides an arc, the answer hands it over, `rpcNotify` makes an arc shorter, and a
timeout only drops one.  That a lone node is not notified by anybody is `QuietNodesWait`.
Two more facts are needed (`ArcInv`): who has answered a JoinCall is ready until the answer
has arrived, which uses `Overdue` again, so that a node that finds nobody ready is alone
indeed; and nobody pings a node that does not exist yet, so that a ping times out only after a
failure.  `WholeRingIsConsistent` is the consequence for whole behaviours: as long as no node
fails or loses its predecessor while it has a successor, each key has one responsible node at
most, however joins overlap.

**NeighborCacheProofs.**  That no listener is forgotten depends on eviction, renewal and
reports at once.  The invariant has four parts that need each other: only a WAITING
entry has listeners (`WaitingIsPinged`), so an evicted one, which is never WAITING
(`EvictionFacts`), has none; a report takes the listeners of its node before the first
is called (`EnabledKeepsWaiters`); a WAITING entry has a ping under way, which ends
with a report on that very node; and a query that is made has no ping yet that its own
could replace (`PingsWereAsked`).  `ExpireMapAgrees` is preserved by the three ways to
change the maps: insertion with evictions (`InsertFacts`), renewal (`MovedFacts`) and a
change that keeps the time (`KeptFacts`).  Above them are five kinds of steps (`AskStep`,
`DisabledAskStep`, `ReportStep`, `QuietStep` and callbacks), to which the actions are
reduced.  From `IInv` follow `SearchesEnd`, `NobodyForgotten` and `WaitingHasPing`;
`GrowthBounded`, an action property, adds that evictions remove as many entries as items
(`EvictedCount`) and that only an insertion makes the cache grow.

**ScribeProofs.**  Three invariants, one for each theorem.

* `IInv`: timers and children agree (`TimersAgree`), parents are closer to the key than
  their children, and so are the destinations of joins than their sources
  (`TowardsKey`): whoever answers a join is closer, so the tree has no cycle
  (`TreeIsConsistent`).
* `Attached`: a node that is subscribed, has children or a parent (`Seeks`) has its parent's
  timer running, or a join or the answer to one on its way (`Asking`).  It is preserved
  unless a message is lost, so `QuietIsConnected` has that hypothesis, about the
  configurations; finding 9 shows that the theorem is false without it.  That a quiet group
  is a tree follows by looking at the node closest to the key that is not in it (`Least`).
* `SInv`: while nodes neither come nor go nor leave and nothing is lost (`steady`), the tree
  is whole (`Whole`: parents have their children, and who is sent a joinResponse is a child
  already), publications have numbers of their own (`Fresh`), and a node that is owed data
  has got it, or it is on its way to it, or its parent, which is owed it too, has not got it
  yet; what is on its way to a node comes from its only parent, and the node has not got it
  (`Delivery`).  From it follows `DataReachesTheTree`.

**DHTProofs.**  `ClientOK` relates a request of the client, its calls under way and what
the nodes have done: a put has counted no more answers than siblings that have handled it
and whose answer is not still under way (`Done`), there are at most `numSent` siblings to
ask, and a request has one call to a node at a time (`OneCall`).  So when the answers counted
are more than half of `numSent`, more than half of the siblings have handled the put
(`PutSuccess`), although answers arrive in any order, calls time out that were handled, and
nodes leave.  That no
node is asked twice (`NobodyAskedTwice`) is `NoNodeTwice`: the nodes to be asked, those
that named a hash and those that are being asked have no node in common, and no list has a
node twice, through every way in which `handleGetResponse` moves nodes between them.

Two more invariants hold while the table is undisturbed: `FInv` and `RInv` say so for states in
which all that was planned is left of the scenario's bounds (`Within`: a step either uses one
of them up, and then they differ from the plan for ever, or is a step of the client or a sibling,
`BoundOrNot`).

* `NoFailures`: the client's calls and lists name siblings only, no hash is chosen before the state
  says so, and nothing was told as failed.  Then a get that has counted an answer has a vector that
  is not empty, and always goes on (`AsksNext`): it waits, asks the next node for its hash, or a
  node of the longest vector for the value.  From it follows `NothingFails`.
* `ReadsOK`: a get that began after the only put ended has a `Quorum`, more than half of the siblings
  that already held the value when it began; nodes of it report nothing else (`Believes` for
  what was counted, `Hears` for what is under way).  A vector wins the vote with half of the
  siblings, which the quorum meets, or when all have answered, and then the longest is not shorter
  than the quorum (`BestIsWritten`).  That all have answered when nobody is left to ask needs a
  count: no more than one call is waited for once `numGetRequests` answers have come (`Counts`).
  From it follows `ReadersSeeWrites`, for one put of the scenario, as in the property.

`MInv` is about a table that changes, one node at a time, when the maintenance that the change
before caused is done: value v of the only put is the only one anywhere, among the votes too,
and once the lookup has told the siblings, each of them is `Covered`: it has v, or a put to it is under
way, or an `update()` is to come at a node that will send it one (`PassesOn`).  A put to such a node
could take its responsibility away, which is why `PassesOn` asks that none is under way.  All updates to
come are about the same node, so whoever they come to sends the item to the same
nodes: when one of them does, nobody else has to.  When the overlay changes, `NewSibling` shows
that the nodes which become siblings are those that a responsible node sends the item to: the
node that joined, or the one that is the last sibling after another left; it rests on the order of the
siblings (`RanksOfSiblings`).  From it follows `MaintenanceRestores`.

**RecursiveRoutingProofs.**  What may be said of a message depends on who has it: on its way
to a node (`Carried`), at a node or shown to its application (`Held`), or at its destination
(`Arrived`).  In each
the recorded route is `Straight`: no node twice, none of them the present one, and not longer
than the hop count; source routed answers consume their route, so that the two sum to at
most `HopCountMax`.  A lemma per operator (`RouteToKeyOK`, `SendToKeyOK`, `HandleRouteOK`,
`ResentOK` ...) says that its effect keeps to this.  `NoLoops` follows, for all tables,
even tables that lead in circles.

Three more invariants are about tables that lead to the key (`LeadToKey`), and get a message
there although a hop fails or was removed without cause.

* `OwnInv`: a message is that of a request that was sent, or the answer to it.
* `GoodInv`: by a measure that the hypothesis provides (`Distance`), the next node is closer to the
  key than all that have had the message (`Closing`), which is why loop detection never rejects the hop
  that leads on; the hops left are enough (`Onward`), for sending it again another way, too
  (`Resends`, `Budget`): the second hop of a table is one hop closer than it need be, which pays for the
  hop that failed; and a recorded route begins with the caller (`Traced`, `Backward`).  So a message
  is at its destination only at the node that has the key, or at one that has removed that node (`Reached`).
  From it follows `ClosestHandles`.
* `SafeInv`: an acknowledgement that is on its way, or has arrived, means that the message is
  `Safe`: with a living node, as a call that is not acknowledged or a message shown to the
  application, closer to its end than with the one that sent it (`Kept`), or handled, and the same of
  the answer (`Ended`).  A call on its way, its acknowledgement, and a copy that was sent again too
  early may all be there at once; what keeps a node from relying on an old acknowledgement of the
  same message is that the measure decreases from one `Kept` to the next.  Each handler takes
  on what it is about to acknowledge (`Takes`); a step loses at most what it has taken on
  elsewhere (`Loses`, `AllStay`).  When nothing is on its way, nothing is `Kept`, so all is handled:
  `QuietIsHandled`.

The proofs found three errors of the properties.  `HandledAtClosest` must ask that the tables lead to
the key after the step that removes a node, not before.  With source routing the answer of a node to its own
lookup may travel over a hop to itself, and is not sent again when that one times out.  And in a network of
one node a timeout drops the message although the node itself has the key, since `handleFailedNode`
has nobody left; `Chain` and `Close` ask for another one.

**PastryProofs.**  `NodeOK` says that a node in state JOIN has a call, a timer or a cached
state, that a cached state has pings pending, and that nothing is queued but behind a cached
state: so the node is never `Stuck` (`NeverStuck`).  While it joins, the states received are
such that the last one has the highest hop count, and once the last hop's is known a state
with it is among them; each of another hop is of an earlier attempt, or of a hop before the
end of one of the ways of the message (`OnWay`, `ReceivedOK`).  `NetOK` says the same of the
states on their way, and a new way (`Reroute`) only adds to `OnWay`.  So the node becomes ready
with the last hop's state, or with one of as high a hop count, which a longer way or an earlier
attempt must have brought (`LastHop`), however they are sorted in.
The lemmas about inserting into a sequence and looking for a place in it are stated once.

The second half of the module is about the leaf set.  `SlotsRight` says what it
holds, but neither how the slots lie nor what was pushed out of them before, so it is not
inductive.  `Good` says that the slots taken are those in the middle, in the order of
the ring, and that the halves differ by at most one; `Holds` says that each node heard of is a
leaf, or lies beyond both ends of a leaf set that is full.  Merging one node keeps both, case by
case: it goes to its place in one half, the last leaf of that half moves to the other or is
pushed out, and balancing moves a leaf across.  Failing a leaf keeps `Good`, and starts
what was heard of anew.  With what was reported and what is awaited this is `LeavesInv`, which
every step keeps (`LeavesInvariance`; no more than `BY DEF` where the step leaves the leaf set
alone), and the conjuncts of `SlotsRight` follow (`SlotsAreRight`).

`SiblingsAreRight` is geometry on a ring, and completes `LeafSetIsConsistent`.  A leaf set that equals `ClosestLeaves` of all nodes
satisfies `Holds` for all of them (`HoldsAll`), so a node that is no leaf lies between
its two ends.  If any node is closer to a key than this one, a neighbor of this one is
(`NeighborIsCloser`): `isClosestNode()` may look at these two only.  And the way from a key to
a node beyond the ends passes an end (`PassesEnd`), so a vector that was complete
before an end was reached, which `createSiblingVector()` checks, misses nobody closer.

**GiaProofs.**  `IInv` says of any two nodes that what each thinks of the other (`SideOf`:
neighbor, candidate, given up, refused) fits what is on its way between them, `Dialogue`.
The packets of a handshake on a channel are a word of at most three letters (`Carries`;
other packets may go between them), and `Row` is the table of the words that may be under way
in the two directions with each pair of sides; `Agree` is the table and its mirror image.  A handler
reads the first letter and may say another (`Handled`); towards all other nodes it says
nothing or `DISCONNECT` (`Aside`).  So the lemmas about one letter (`HearsReq`,
`HearsRsp` ...) are about the table alone, and those about the code (one per handler) say
what its answer is in each case.  When nothing is on its way, the table leaves only
the cases that `LinksAgree` allows (`Agreement`).  Searches, answers, tokens and updates
never disturb a handshake (`PairKeeps`).

`Steady` is the second invariant, for as long as no request is sent and no neighbor is timed
out.  It says that links are mutual and packets go over links only (`Linking`), that what a
packet or a waiting message carries agrees with what was found and with the links of its path
(`Underway`, `WaitsAt`), that a search or a route message is still to be sent, on its way,
waiting or arrived, but not two of these (`Lives`), that tokens held and not yet paid for and packets that
carry one add up to the initial ones and those minted (`Balance`), and that each node found is either on its
way to the application or has been told to it (`Settled`).  The parts need each other: tokens
balance only since a message goes over a link only, and an answer finds its way only since no
second copy of the search has changed what nodes remember.  The lemmas about handlers (`ForwardCounts`,
`SearchCounts`, `AnswersCounts` ...) say what a handler adds to what is counted, and
`SumsAfter` that this is all that changes.  `MapThenSumSet` is recursive; a sum is defined
without recursion as the number of units below the values (`SumOver`), and both are the same
(`SumIsTotal`, by a smallest set on which they differ).  From `Steady` follow
`TokensAreConserved` and `AnswersAreReturned`.  The proof found an error of the model: a node
without neighbors that finds its own key grants no token, but the history variable counted
one; the configuration `Alone` now runs into this case.

## 5. What is only checked, and what is not modelled

Only checked by TLC:

* everything about IterativeLookup and Kademlia, whose operators are folds over sequences:
  what a fold returns needs induction over data (for the one fold of Pastry, `Merged`, it is done
  by hand: `MergedStepwise` unfolds it into a chain of leaf sets, and `Induction` takes the least
  step that would break what the chain keeps);
* all liveness properties and the liveness part of the refinement, which the prover does not
  reach (fairness, `ENABLED`), and Pastry's `RepairBegins`.

Left out of modelled components:

* BaseRpc: source routes (where a retry would insert an invalid iterator range,
  line 266), reuse of a nonce, statistics, computed timeouts.
* IterativeLookup: proximity vectors, `findNodeExt`, statistics.
* NeighborCache: the round trip times themselves, timeouts computed from them,
  network coordinates (`ncsType` is "none" by default), discovery mode, the view of
  closest nodes.
* Chord: fingers; merge optimizations, non-aggressive joins and
  `memorizeFailedSuccessor`, which are off by default; failures reported by lookups
  (`handleFailedNode` from `IterativeLookup.cc:968`); lost messages.  A lost answer would
  break `Overdue`, and a node could then notify itself.
* BaseOverlay: joining and bootstrapping, attacks, iterative routing (which is
  IterativeLookup), `recursiveRoutingHook` but for Pastry's join.  RecursiveLookup:
  `abortLookup`.
* DHT: several keys, kinds and ids; attacks; dumps.  Puts of two writers reach replicas in
  any order; `ReadsSeeWrites` and `ReplicasRestored` claim something for one put only.
* Kademlia: time, proximity, R/Kademlia, `pingNewSiblings`, `newMaintenance`, changes of
  address.
* Pastry: routing table, neighborhood set, the states it sends, the second stage, partial join
  paths, discovery.
* Scribe: several groups (they are independent), the overlay's routing.
* Gia: lost or reordered packets, nodes that leave, the interval of the satisfaction timer,
  keys of no node, several keys.

Not modelled at all: the components marked so in `PROJECT.json` with their reasons.
Most are further protocols of the kinds modelled here; others rest on geometry or
floating point (coordinates, Voronoi overlays), or are input and output.

## 6. The plan

Done, in this order: `RpcCalls` and `BaseRpc` (everything else uses it), its proofs and
refinement; `IterativeLookup`; `NeighborCache`; `ChordSuccessorList` and `Chord`; the proofs
of `Chord` and `NeighborCache`; `DHT`; `Kademlia`; `Pastry`; `Scribe`; `RecursiveRouting`; `Gia`;
the proofs of `Scribe`, `DHT`, `RecursiveRouting`, `Pastry` and `Gia`.

Left to prove: what Kademlia's tables and IterativeLookup's sorted candidates hold, which
rests on folds (see 5).

Components worth modelling next: BootstrapList and GlobalNodeList (partitions), SimpleUDP's
queues, P2PNS's cache, i3's triggers, Bamboo.  Compositions: a lookup over `RpcCalls` (a lookup
relies on `TimedCallsEnd` only), the DHT over `IterativeLookup`'s promise to its listener
(`ListenerToldOnce` and `EveryLookupEnds`).
