--------------------------------- MODULE DHT ---------------------------------
(***************************************************************************)
(* The distributed hash table (src/applications/dht/): puts and gets of    *)
(* one data item on the siblings of its key, the vote about the hashes     *)
(* that a get collects, and the maintenance calls that move the item when  *)
(* the overlay reports a new or a lost neighbor, in both modes.            *)
(*                                                                         *)
(* A node is the rank of its distance to the key.  Values are numbers,     *)
(* ordered like their hashes; NoValue stands for no record, the empty      *)
(* value and the unspecified hash.  The overlay is external: it knows its  *)
(* members, and calls update() at each of them some time after a change.   *)
(* A call ends by its answer or its timeout (module RpcCalls); what times  *)
(* out was lost, before or after it was handled.                           *)
(*                                                                         *)
(* Left out: other keys, kinds and ids, the attacks, dumps, statistics,    *)
(* and the err flag of isSiblingFor().                                     *)
(***************************************************************************)
EXTENDS Integers, Sequences, FiniteSets, SequencesExt, FiniteSetsExt

CONSTANTS
    Node,           \* ranks of nodes by distance to the key
    Client,         \* the node whose application calls put and get
    Value,          \* the values that are stored
    Scenarios       \* what happens to the table: a set of Scenario

NoValue == 0
NoHash  == -1

\* replicas, gets: numReplica and numGetRequests.  requests: what the application asks for, in this order.  joins, leaves, losses,
\* expiries and invalid bound what happens; calm: changes of the overlay wait for
\* the maintenance that the one before causes.
Request  == [type : {"put"}, value : Value \cup {NoValue}] \cup [type : {"get"}, value : {NoValue}]
Scenario == [replicas : Nat \ {0}, gets : Nat \ {0},
             secure : BOOLEAN, calm : BOOLEAN, requests : Seq(Request), members : SUBSET Node,
             joins : Nat, leaves : Nat, losses : Nat, expiries : Nat, invalid : Nat]

ASSUME DHTAssumption ==
    /\ Node \subseteq Nat /\ Client \in Node /\ Value \subseteq Nat \ {NoValue}
    /\ Scenarios \subseteq Scenario
    /\ \A s \in Scenarios : Client \in s.members /\ IsFiniteSet(s.members)
-----------------------------------------------------------------------------
VARIABLES
    scenario,       \* one of Scenarios, and what is left of its bounds
    members,        \* the nodes of the overlay
    dataMap,        \* DHTDataStorage of every node: Nothing or a DhtDataEntry
    pendingRpcs,    \* the client's requests, by their position in requests
    calls,          \* the calls and answers on their way
    updates,        \* calls of update() to come: <<node, neighbor, joined>>
    history         \* what was told to the application, and when

vars == <<scenario, members, dataMap, pendingRpcs, calls, updates, history>>

NumReplica     == scenario.replicas
NumGetRequests == scenario.gets

Nothing == [value |-> NoValue]
NoVotes == [v \in {} |-> {}]
Entry(value, responsible) == [value |-> value, responsible |-> responsible, votes |-> NoVotes]
Stores(n) == dataMap[n] # Nothing

\* PendingRpcsEntry, and the answer to it.
Pending == [state |-> "LOOKUP_STARTED", replica |-> << >>, hashVector |-> NoHash,
            hashes |-> [h \in {} |-> << >>], numSent |-> 0,
            numAvailableReplica |-> 0, numFailed |-> 0, numResponses |-> 0]
Told(success, value) == [success |-> success, value |-> value]

\* A call of a request (0: a maintenance call of node src, about a neighbor).
Call(r, kind, src, to, value, about) ==
    [req |-> r, kind |-> kind, src |-> src, to |-> to, value |-> value,
     about |-> about, answered |-> FALSE]
RequestCall(r, kind, to, value) == Call(r, kind, Client, to, value, Client)

Closer(n)   == {m \in members : m < n}
Siblings(k) == [i \in 1 .. Min({k, Cardinality(members)}) |->
                   CHOOSE n \in members : Cardinality(Closer(n)) = i - 1]
IsSiblingFor(n, k) == n \in Range(Siblings(k))

\* map[x] = v
With(map, x, v) == [y \in DOMAIN map \cup {x} |-> IF y = x THEN v ELSE map[y]]

\* Requests that have not started have no entry; those told have one no longer.
Open     == DOMAIN pendingRpcs
Close(r) == Restrict(pendingRpcs, Open \ {r})

Init ==
    /\ scenario \in Scenarios
    /\ members = scenario.members
    /\ dataMap = [n \in Node |-> Nothing]
    /\ pendingRpcs = [r \in {} |-> Pending]
    /\ calls = {} /\ updates = {}
    /\ history = [told |-> [r \in {} |-> Told(FALSE, NoValue)], began |-> [r \in {} |-> {}],
                  asked |-> [r \in {} |-> {}], handled |-> {}, guarded |-> TRUE,
                  planned |-> scenario]

\* The application learns the outcome of request r.
Tell(r, answer) ==
    /\ pendingRpcs' = Close(r)
    /\ history' = [history EXCEPT !.told = With(@, r, answer)]
Fail(r) == Tell(r, Told(FALSE, NoValue))
-----------------------------------------------------------------------------
(***************************************************************************)
(* Requests of the application                                             *)
(***************************************************************************)
\* History: the requests that had ended when this one began.
HandleCAPIRequest ==
    LET r == Cardinality(DOMAIN history.began) + 1
    IN  /\ r <= Len(scenario.requests)
        /\ pendingRpcs' = With(pendingRpcs, r, Pending)
        /\ history' = [history EXCEPT !.began = With(@, r, DOMAIN history.told)]
        /\ UNCHANGED <<scenario, members, dataMap, calls, updates>>

PutToSiblings(r, e, siblings) ==
    /\ calls' = calls \cup {RequestCall(r, "put", n, scenario.requests[r].value) : n \in Range(siblings)}
    /\ pendingRpcs' = [pendingRpcs EXCEPT ![r] =
           [e EXCEPT !.state = "PUT_SENT", !.numSent = Len(siblings)]]

GetHashes(r, e, siblings) ==
    LET first == SubSeq(siblings, 1, Min({NumGetRequests, Len(siblings)}))
    IN  /\ calls' = calls \cup {RequestCall(r, "hash", n, NoValue) : n \in Range(first)}
        /\ pendingRpcs' = [pendingRpcs EXCEPT ![r] =
               [e EXCEPT !.state = "GET_HASH_SENT", !.numSent = Len(first),
                         !.replica = SubSeq(siblings, Len(first) + 1, Len(siblings)),
                         !.numAvailableReplica = Len(siblings)]]

HandleLookupResponse(r) ==
    /\ r \in Open /\ pendingRpcs[r].state = "LOOKUP_STARTED"
    /\ \/ /\ scenario.invalid > 0
          /\ scenario' = [scenario EXCEPT !.invalid = @ - 1]
          /\ Fail(r) /\ UNCHANGED calls
       \/ LET siblings == Siblings(NumReplica)
          IN  /\ IF scenario.requests[r].type = "put"
                 THEN PutToSiblings(r, pendingRpcs[r], siblings)
                 ELSE GetHashes(r, pendingRpcs[r], siblings)
              /\ history' = [history EXCEPT !.asked = With(@, r, Range(siblings))]
              /\ UNCHANGED scenario
    /\ UNCHANGED <<members, dataMap, updates>>
-----------------------------------------------------------------------------
(***************************************************************************)
(* The nodes that are called                                               *)
(***************************************************************************)
\* The value with most votes, the first of them in the order of the map.
Majority(votes) ==
    CHOOSE v \in DOMAIN votes :
        \A w \in DOMAIN votes : \/ Cardinality(votes[w]) < Cardinality(votes[v])
                                \/ Cardinality(votes[w]) = Cardinality(votes[v]) /\ v <= w

Verified(e) == DOMAIN e.votes = {}

\* Ignored: an entry that was not put together from votes, of a sibling.
IgnoresMaintenance(n) == Stores(n) /\ Verified(dataMap[n]) /\ IsSiblingFor(n, NumReplica)

Vote(n, c) ==
    LET e     == IF Stores(n) THEN dataMap[n] ELSE Entry(c.value, IsSiblingFor(n, NumReplica))
        was   == IF c.value \in DOMAIN e.votes THEN e.votes[c.value] ELSE {}
        votes == With(e.votes, c.value, was \cup {c.src})
        v     == Majority(votes)
    IN  [value |-> v, responsible |-> TRUE,
         votes |-> IF Cardinality(votes[v]) > NumReplica THEN NoVotes ELSE votes]

Responsible(n) == IsSiblingFor(n, IF scenario.secure THEN NumReplica ELSE 1)

Store(n, c) == IF c.value = NoValue THEN Nothing ELSE Entry(c.value, Responsible(n))

\* Answers to maintenance calls, and an ignored call, change nothing at their sender.
HandlePutRequest(c) ==
    /\ c.kind = "put" /\ ~c.answered /\ c.to \in members
    /\ IF c.req = 0 /\ scenario.secure
       THEN dataMap' = IF IgnoresMaintenance(c.to) THEN dataMap
                       ELSE [dataMap EXCEPT ![c.to] = Vote(c.to, c)]
       ELSE dataMap' = [dataMap EXCEPT ![c.to] = Store(c.to, c)]
    /\ calls' = (calls \ {c}) \cup (IF c.req = 0 THEN {} ELSE {[c EXCEPT !.answered = TRUE]})
    /\ history' = [history EXCEPT !.handled = IF c.req = 0 THEN @ ELSE @ \cup {<<c.req, c.to>>}]
    /\ UNCHANGED <<scenario, members, pendingRpcs, updates>>

HandleGetRequest(c) ==
    /\ c.kind \in {"hash", "value"} /\ ~c.answered /\ c.to \in members
    /\ calls' = (calls \ {c}) \cup {[c EXCEPT !.answered = TRUE, !.value = dataMap[c.to].value]}
    /\ UNCHANGED <<scenario, members, dataMap, pendingRpcs, updates, history>>
-----------------------------------------------------------------------------
(***************************************************************************)
(* Answers and timeouts at the client                                      *)
(***************************************************************************)
Keep(r, e) == pendingRpcs' = [pendingRpcs EXCEPT ![r] = e] /\ UNCHANGED history

\* Slip: half of the answers are taken for a majority.
HalfPut(e)    == 2 * e.numResponses >= e.numSent
MostPut(e)    == 2 * e.numResponses > e.numSent
\* Slip: more than half have to fail.
MostFailed(e) == 2 * e.numFailed > e.numSent
HalfFailed(e) == 2 * e.numFailed >= e.numSent
\* Slip: the first hash is taken.
FirstHash(count, e) == count >= 1
\* ratioIdentical = 0.5
Identical(count, e) == 2 * count >= e.numAvailableReplica

\* The longest vector, the first of them in the order of the map.
Best(hashes) ==
    LET long == {h \in DOMAIN hashes : hashes[h] # << >> /\ \A g \in DOMAIN hashes :
                                           Len(hashes[g]) <= Len(hashes[h])}
    IN  IF long = {} THEN NoHash ELSE Min(long)

\* Slip: the node that is asked stays in the vector.
NotPopped(e) == e
\* The last node of the chosen vector is asked for the value, and removed.
Popped(e) == [e EXCEPT !.hashes[e.hashVector] = Front(@)]
ValueCall(r, e) == RequestCall(r, "value", Last(e.hashes[e.hashVector]), NoValue)
HashCall(r, e)  == RequestCall(r, "hash", Last(e.replica), NoValue)
CanAsk(e) == e.hashVector # NoHash /\ e.hashes[e.hashVector] # << >>

HandlePutResponse(r, c) ==
    LET e == [pendingRpcs[r] EXCEPT !.numResponses = @ + 1]
    IN  /\ IF MostPut(e) THEN Tell(r, Told(TRUE, scenario.requests[r].value)) ELSE Keep(r, e)
        /\ calls' = calls \ {c}

HandlePutTimeout(r, c) ==
    LET e == [pendingRpcs[r] EXCEPT !.numFailed = @ + 1]
    IN  /\ IF HalfFailed(e) THEN Fail(r) ELSE Keep(r, e)
        /\ calls' = calls \ {c}

\* Slip: the state is not set, as in the last case of handleRpcTimeout().
StillHashSent(e) == e
ValueSent(e) == [e EXCEPT !.state = "GET_VALUE_SENT"]

\* The end of handleGetResponse(): the value of the chosen hash is asked for, once.
Decide(r, e, rest) ==
    IF e.hashVector = NoHash THEN Keep(r, e) /\ calls' = rest
    ELSE IF CanAsk(e)
    THEN Keep(r, ValueSent(Popped(e))) /\ calls' = rest \cup {ValueCall(r, e)}
    ELSE Fail(r) /\ calls' = rest

Counted(e, c) ==
    LET was == IF c.value \in DOMAIN e.hashes THEN e.hashes[c.value] ELSE << >>
    IN  [e EXCEPT !.hashes = With(@, c.value, Append(was, c.to)), !.numResponses = @ + 1]

HandleHash(r, c) ==
    LET e    == Counted(pendingRpcs[r], c)
        best == Best(e.hashes)
        rest == calls \ {c}
    IN  IF e.state = "GET_VALUE_SENT" THEN Keep(r, e) /\ calls' = rest
        ELSE IF Identical(Len(e.hashes[best]), e)
        THEN Decide(r, [e EXCEPT !.hashVector = best], rest)
        ELSE IF e.numResponses < NumGetRequests THEN Decide(r, e, rest)
        ELSE IF e.replica # << >>
        THEN Decide(r, [e EXCEPT !.replica = Front(@)], rest \cup {HashCall(r, e)})
        ELSE Decide(r, [e EXCEPT !.hashVector = best], rest)

HandleValue(r, c) ==
    IF pendingRpcs[r].state = "GET_VALUE_SENT"
    THEN Tell(r, Told(TRUE, c.value)) /\ calls' = calls \ {c}
    ELSE Decide(r, pendingRpcs[r], calls \ {c})

\* Whichever call it was: the state decides who is asked next.  The value is asked
\* for in the last case, too, but the state is not changed.
HandleGetTimeout(r, c) ==
    LET e    == pendingRpcs[r]
        last == IF e.numResponses > 0 THEN [e EXCEPT !.hashVector = Best(e.hashes)] ELSE e
        rest == calls \ {c}
    IN  IF e.state = "GET_VALUE_SENT"
        THEN IF CanAsk(e) THEN Keep(r, Popped(e)) /\ calls' = rest \cup {ValueCall(r, e)}
             ELSE Fail(r) /\ calls' = rest
        ELSE IF e.replica # << >>
        THEN Keep(r, [e EXCEPT !.replica = Front(@)]) /\ calls' = rest \cup {HashCall(r, e)}
        ELSE IF CanAsk(last)
        THEN Keep(r, Popped(last)) /\ calls' = rest \cup {ValueCall(r, last)}
        ELSE Fail(r) /\ calls' = rest

HandleRpcResponse(c) ==
    /\ c.answered
    /\ IF c.req \notin Open THEN calls' = calls \ {c} /\ UNCHANGED <<pendingRpcs, history>>
       ELSE CASE c.kind = "put"   -> HandlePutResponse(c.req, c)
              [] c.kind = "hash"  -> HandleHash(c.req, c)
              [] c.kind = "value" -> HandleValue(c.req, c)
    /\ UNCHANGED <<scenario, members, dataMap, updates>>

\* Nobody handles an answer or a timeout of a request that is over.
TimesOut(c) ==
    IF c.req \notin Open THEN calls' = calls \ {c} /\ UNCHANGED <<pendingRpcs, history>>
    ELSE IF c.kind = "put" THEN HandlePutTimeout(c.req, c)
    ELSE HandleGetTimeout(c.req, c)

HandleRpcTimeout(c) ==
    /\ ~c.answered /\ c.to \notin members
    /\ TimesOut(c)
    /\ UNCHANGED <<scenario, members, dataMap, updates>>

\* The call or its answer is lost.
Lose(c) ==
    /\ scenario.losses > 0
    /\ scenario' = [scenario EXCEPT !.losses = @ - 1]
    /\ TimesOut(c)
    /\ UNCHANGED <<members, dataMap, updates>>
-----------------------------------------------------------------------------
(***************************************************************************)
(* Maintenance                                                             *)
(***************************************************************************)
\* Slip: the last sibling gets nothing.
ReceiversButLast(node, joined) ==
    {m \in {node} : joined /\ m < Last(Siblings(NumReplica))}
\* What a node that is responsible for the item does about a neighbor: whom it sends
\* the item to, and whether it is still responsible then.
Receivers(node, joined) ==
    LET last == Last(Siblings(NumReplica))
    IN  CASE scenario.secure /\ joined  -> {m \in {node} : m <= last}
          [] scenario.secure /\ ~joined -> {m \in {last} : node < last}
          [] ~scenario.secure           -> {m \in {node} : joined /\ IsSiblingFor(m, NumReplica)}

StaysResponsible(n, joined) ==
    scenario.secure /\ joined => n <= Last(Siblings(NumReplica))

Update(u) ==
    LET n == u[1]  node == u[2]  joined == u[3]
    IN  /\ u \in updates
        /\ updates' = updates \ {u}
        /\ IF Stores(n) /\ dataMap[n].responsible
           THEN /\ calls' = calls \cup {Call(0, "put", n, to, dataMap[n].value, node) :
                                        to \in Receivers(node, joined)}
                /\ dataMap' = [dataMap EXCEPT ![n].responsible = StaysResponsible(n, joined)]
           ELSE UNCHANGED <<calls, dataMap>>
        /\ UNCHANGED <<scenario, members, pendingRpcs, history>>

\* No update() and no put, of a request or for maintenance, is under way.
Settled == updates = {} /\ \A c \in calls : c.kind # "put"

\* History: if there is an item, somebody responsible is left, who passes it on.
Guarded(ms, joined) ==
    (\E n \in Node : Stores(n)) => /\ joined \/ scenario.secure
                                   /\ \E n \in ms : Stores(n) /\ dataMap[n].responsible

Change(ms, node, joined) ==
    /\ scenario.calm => Settled
    /\ members' = ms
    /\ dataMap' = [dataMap EXCEPT ![node] = Nothing]
    /\ updates' = {u \in updates : u[1] \in ms} \cup {<<n, node, joined>> : n \in ms \ {node}}
    /\ history' = [history EXCEPT !.guarded = @ /\ Guarded(ms, joined)]
    /\ UNCHANGED <<pendingRpcs, calls>>

Join(n) ==
    /\ scenario.joins > 0 /\ n \notin members
    /\ scenario' = [scenario EXCEPT !.joins = @ - 1]
    /\ Change(members \cup {n}, n, TRUE)

Leave(n) ==
    /\ scenario.leaves > 0 /\ n \in members \ {Client}
    /\ scenario' = [scenario EXCEPT !.leaves = @ - 1]
    /\ Change(members \ {n}, n, FALSE)

HandleTtlTimer(n) ==
    /\ scenario.expiries > 0 /\ Stores(n)
    /\ scenario' = [scenario EXCEPT !.expiries = @ - 1]
    /\ dataMap' = [dataMap EXCEPT ![n] = Nothing]
    /\ UNCHANGED <<members, pendingRpcs, calls, updates, history>>
-----------------------------------------------------------------------------
Handle ==
    \/ \E r \in Open : HandleLookupResponse(r)
    \/ \E c \in calls : \/ HandlePutRequest(c) \/ HandleGetRequest(c)
                        \/ HandleRpcResponse(c) \/ HandleRpcTimeout(c)
    \/ \E u \in updates : Update(u)

Next ==
    \/ HandleCAPIRequest
    \/ Handle
    \/ \E c \in calls : Lose(c)
    \/ \E n \in Node : Join(n) \/ Leave(n) \/ HandleTtlTimer(n)

\* Lookups answer, calls are answered or time out, and update() is called.
Spec == Init /\ [][Next]_vars /\ WF_vars(Handle)
-----------------------------------------------------------------------------
Requests == 1 .. Len(scenario.requests)

TypeOK ==
    /\ members \subseteq Node /\ Client \in members
    /\ \A n \in Node : Stores(n) => /\ n \in members /\ dataMap[n].value \in Value
                                    /\ DOMAIN dataMap[n].votes \subseteq Value
    /\ Open \subseteq Requests
    /\ \A r \in Open : /\ Range(pendingRpcs[r].replica) \subseteq Node
                       /\ DOMAIN pendingRpcs[r].hashes \subseteq Value \cup {NoValue}
                       /\ pendingRpcs[r].numSent \in 0 .. NumReplica
    /\ \A c \in calls : c.kind \in {"put", "hash", "value"} /\ {c.src, c.to} \subseteq Node
    /\ updates \subseteq Node \X Node \X BOOLEAN

IsPut(r)  == scenario.requests[r].type = "put"
Puts      == {r \in Requests : IsPut(r)}
WasTold(r) == r \in DOMAIN history.told
Succeeded(r) == WasTold(r) /\ history.told[r].success

\* Nothing was lost, no lookup was invalid and no entry expired...
Reliable == \A b \in {"losses", "invalid", "expiries"} : scenario[b] = history.planned[b]
\* ... and the overlay is what it was at first.
Undisturbed == Reliable /\ scenario = history.planned

\* Whom calls of request r are on their way to.
Waiting(C, r) == {c.to : c \in {d \in C : d.req = r}}

\* No node is in two places of a request, or twice in one of them.
NoNodeTwice(e, waiting) ==
    /\ IsInjective(e.replica) /\ Range(e.replica) \cap waiting = {}
    /\ \A h \in DOMAIN e.hashes :
        /\ IsInjective(e.hashes[h])
        /\ Range(e.hashes[h]) \cap (waiting \cup Range(e.replica)) = {}
        /\ \A g \in DOMAIN e.hashes \ {h} : Range(e.hashes[h]) \cap Range(e.hashes[g]) = {}

\* A get asks each sibling once for the hash, and nobody for the value who is still
\* to be asked: replica, the hash vectors and the calls on their way share no node
\* (pop_back() after each call, and hashVector points into hashes).
AskedOnce ==
    /\ TypeOK
    /\ \A r \in Open : NoNodeTwice(pendingRpcs[r], Waiting(calls, r))

\* A put is reported a success only after more than half of the siblings that the
\* lookup found have handled it, whatever is lost and whoever leaves
\* (handlePutResponse() counts answers of all of the request's calls).
PutSuccessMeansMajority ==
    \A r \in Puts : Succeeded(r) =>
        2 * Cardinality({n \in history.asked[r] : <<r, n>> \in history.handled})
            > Cardinality(history.asked[r])

\* No request fails if nothing was lost, however the puts and gets of several
\* requests interleave at the replicas (the vote always finds somebody to ask).
NothingLostNothingFails ==
    Undisturbed => \A r \in DOMAIN history.told : history.told[r].success

\* A get that begins after the only put was acknowledged returns its value, though
\* some replicas may not have handled it yet: the vote about numGetRequests hashes
\* must not be won by those that have no value.
ReadsSeeWrites ==
    Undisturbed => \A p \in Puts, g \in DOMAIN history.told :
        Puts = {p} /\ p \in history.began[g] /\ WasTold(g) =>
            history.told[g].value = scenario.requests[p].value

\* Once the maintenance that a change causes is done, all siblings of the key hold
\* the item again, if somebody responsible was left at each change (update() and
\* the two kinds of maintenance; without secureMaintenance for joining nodes only).
ReplicasRestored ==
    \A p \in Puts :
        scenario.calm /\ Settled /\ Reliable /\ history.guarded /\ Puts = {p} /\ Succeeded(p) =>
            \A n \in Range(Siblings(NumReplica)) :
                dataMap[n].value = scenario.requests[p].value

\* Every put and get is told an outcome if the lookup finds at least numGetRequests
\* siblings (or is invalid): each answer and each timeout either leaves a call that
\* is waited for, or asks somebody else, or ends the request.
EveryRequestAnswered ==
    \A r \in 1 .. 3 : r \in DOMAIN history.began ~>
        \/ WasTold(r)
        \/ r \in DOMAIN history.asked /\ Cardinality(history.asked[r]) < NumGetRequests
=============================================================================
