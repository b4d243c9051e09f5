-------------------------- MODULE NeighborCacheProofs --------------------------
(***************************************************************************)
(* The neighbor cache never loses a listener while it is enabled, its two  *)
(* maps agree whether it is or not, and it grows beyond its size only      *)
(* while its oldest entry may not be evicted: for any number of nodes and  *)
(* queries, any size and any expiration time.                              *)
(***************************************************************************)
EXTENDS NeighborCache, FiniteSetTheorems, TLAPS

\* Items and entries correspond one to one.
LEMMA ItemFacts ==
    ASSUME IInv
    PROVE  /\ \A i \in neighborCacheExpireMap :
                /\ i \in Item /\ i.node \in DOMAIN neighborCache
                /\ i.time = neighborCache[i.node].insertTime
                /\ \A j \in neighborCacheExpireMap : j.node = i.node => j = i
           /\ \A a \in DOMAIN neighborCache :
                /\ a \in Addr /\ neighborCache[a] \in Entry
                /\ \E i \in neighborCacheExpireMap : i.node = a
BY DEF IInv, TypeOK, ExpireMapAgrees, Known

\* The other way round: of a cache and its items.
AgreeOn(cache, items) ==
    /\ \A i \in items : /\ i.node \in DOMAIN cache
                        /\ i.time = cache[i.node].insertTime
                        /\ \A j \in items : j.node = i.node => j = i
    /\ \A a \in DOMAIN cache : \E i \in items : i.node = a

LEMMA Agree ==
    ASSUME AgreeOn(neighborCache, neighborCacheExpireMap)
    PROVE  ExpireMapAgrees
<1>1. ASSUME NEW a \in DOMAIN neighborCache
      PROVE  \E i \in neighborCacheExpireMap :
                 /\ i.node = a
                 /\ i.time = neighborCache[a].insertTime
                 /\ \A j \in neighborCacheExpireMap : j.node = a => j = i
  <2>1. PICK i \in neighborCacheExpireMap : i.node = a
    BY DEF AgreeOn
  <2> QED
    BY <2>1 DEF AgreeOn
<1> QED
  BY <1>1 DEF AgreeOn, ExpireMapAgrees, Known

\* What cleanupCache removes are items it has, none of them blocked.
LEMMA EvictionFacts ==
    ASSUME NEW c, NEW items, NEW E \in Evictions(c, items)
    PROVE  E \subseteq items /\ \A i \in E : ~ Blocked(c[i.node])
BY DEF Evictions
-------------------------------------------------------------------------------
(***************************************************************************)
(* The three ways in which the two maps change.                            *)
(***************************************************************************)
MapsGood ==
    /\ DOMAIN neighborCache \subseteq Addr
    /\ neighborCache \in [DOMAIN neighborCache -> Entry]
    /\ neighborCacheExpireMap \subseteq Item
    /\ IsFiniteSet(DOMAIN neighborCache)
    /\ ExpireMapAgrees

\* The maps between the insertion of an entry and the evictions.
Filled(a, e) == With(neighborCache, a, e)
Items(a)     == neighborCacheExpireMap \cup {[time |-> now, node |-> a]}

LEMMA FilledFacts ==
    ASSUME IInv, NEW a \in Addr, ~ Known(a), NEW e \in Entry, e.insertTime = now
    PROVE  /\ DOMAIN Filled(a, e) = DOMAIN neighborCache \cup {a}
           /\ Filled(a, e)[a] = e
           /\ \A b \in DOMAIN neighborCache : Filled(a, e)[b] = neighborCache[b]
           /\ IsFiniteSet(DOMAIN Filled(a, e))
           /\ AgreeOn(Filled(a, e), Items(a)) /\ Items(a) \subseteq Item
           /\ \A b \in DOMAIN Filled(a, e) : b \in Addr /\ Filled(a, e)[b] \in Entry
<1> DEFINE filled == Filled(a, e)
           items  == Items(a)
           new    == [time |-> now, node |-> a]
<1>1. /\ DOMAIN filled = DOMAIN neighborCache \cup {a} /\ filled[a] = e
      /\ \A b \in DOMAIN neighborCache : filled[b] = neighborCache[b]
  BY DEF Filled, With, Known
<1>2. new \in Item /\ new.node = a /\ new.time = now /\ new \in items
  BY DEF IInv, TypeOK, Item, Items
<1>3. \A i \in neighborCacheExpireMap : i.node # a
  BY ItemFacts DEF Known
<1>4. /\ \A i \in items : i \in neighborCacheExpireMap \/ i = new
      /\ neighborCacheExpireMap \subseteq items
  BY DEF Items
<1> HIDE DEF filled, items, new
<1>5. \A i \in items : /\ i \in Item /\ i.node \in DOMAIN filled
                       /\ i.time = filled[i.node].insertTime
  BY <1>1, <1>2, <1>4, ItemFacts
<1>6. \A i, j \in items : j.node = i.node => j = i
  BY <1>2, <1>3, <1>4, ItemFacts
<1>7. \A b \in DOMAIN filled : b \in Addr /\ filled[b] \in Entry
                               /\ \E i \in items : i.node = b
  BY <1>1, <1>2, <1>4, ItemFacts
<1>8. IsFiniteSet(DOMAIN filled)
  BY <1>1, FS_AddElement DEF IInv
<1>9. AgreeOn(filled, items)
  BY <1>5, <1>6, <1>7 DEF AgreeOn
<1> QED
  BY <1>1, <1>5, <1>7, <1>8, <1>9 DEF filled, items

\* An insertion: the new entry stays, and no blocked one goes.
LEMMA InsertFacts ==
    ASSUME IInv, NEW a \in Addr, ~ Known(a), NEW e \in Entry, e.insertTime = now,
           Insert(a, e)
    PROVE  /\ MapsGood'
           /\ a \in DOMAIN neighborCache' /\ neighborCache'[a] = e
           /\ \A b \in DOMAIN neighborCache' \ {a} :
                b \in DOMAIN neighborCache /\ neighborCache'[b] = neighborCache[b]
           /\ \A b \in DOMAIN neighborCache \ DOMAIN neighborCache' :
                neighborCache[b].rttState # "WAITING"
<1> DEFINE filled == Filled(a, e)
           items  == Items(a)
<1>1. PICK E \in Evictions(filled, items) :
        /\ neighborCache' = Without(filled, {i.node : i \in E})
        /\ neighborCacheExpireMap' = items \ E
  BY DEF Insert, Filled, Items
<1>2. /\ DOMAIN filled = DOMAIN neighborCache \cup {a} /\ filled[a] = e
      /\ \A b \in DOMAIN neighborCache : filled[b] = neighborCache[b]
  BY FilledFacts
<1>3. E \subseteq items /\ \A i \in E : ~ Blocked(filled[i.node])
  BY EvictionFacts
<1>4. /\ AgreeOn(filled, items) /\ items \subseteq Item
      /\ \A b \in DOMAIN filled : b \in Addr /\ filled[b] \in Entry
  BY FilledFacts
<1>5. IsFiniteSet(DOMAIN filled)
  BY FilledFacts
<1> HIDE DEF filled, items
<1>6. /\ DOMAIN neighborCache' = DOMAIN filled \ {i.node : i \in E}
      /\ \A b \in DOMAIN neighborCache' : neighborCache'[b] = filled[b]
  BY <1>1 DEF Without, Restrict
<1>7. neighborCache' \in [DOMAIN neighborCache' -> Entry]
  BY <1>1, <1>4 DEF Without, Restrict
<1>8. IsFiniteSet(DOMAIN neighborCache')
  BY <1>5, <1>6, FS_Subset
<1>9. ExpireMapAgrees'
  <2>1. \A i \in items \ E :
            /\ i.node \in DOMAIN neighborCache'
            /\ i.time = neighborCache'[i.node].insertTime
            /\ \A j \in items \ E : j.node = i.node => j = i
    BY <1>3, <1>4, <1>6 DEF AgreeOn
  <2>2. \A b \in DOMAIN neighborCache' : \E i \in items \ E : i.node = b
    BY <1>4, <1>6 DEF AgreeOn
  <2> QED
    <3>1. AgreeOn(neighborCache, neighborCacheExpireMap)'
      BY <1>1, <2>1, <2>2 DEF AgreeOn
    <3> QED
      BY <3>1, Agree, PTL
<1>10. a \in DOMAIN neighborCache'
  BY <1>2, <1>3, <1>6 DEF Blocked
<1>11. \A b \in DOMAIN neighborCache \ DOMAIN neighborCache' :
          neighborCache[b].rttState # "WAITING"
  BY <1>2, <1>3, <1>6 DEF Blocked
<1> QED
  BY <1>1, <1>2, <1>4, <1>6, <1>7, <1>8, <1>9, <1>10, <1>11 DEF MapsGood

\* An entry changes and its item moves to now.
LEMMA MovedFacts ==
    ASSUME IInv, NEW a \in DOMAIN neighborCache, NEW e \in Entry, e.insertTime = now,
           neighborCache' = [neighborCache EXCEPT ![a] = e],
           neighborCacheExpireMap' = Moved(a)
    PROVE  MapsGood'
<1>1. now \in Time /\ neighborCache \in [DOMAIN neighborCache -> Entry]
  BY DEF IInv, TypeOK
<1>2. DOMAIN neighborCache' = DOMAIN neighborCache /\ neighborCache'[a] = e
      /\ \A b \in DOMAIN neighborCache \ {a} : neighborCache'[b] = neighborCache[b]
  BY <1>1
<1>3. neighborCache[a].insertTime \in Nat
  BY ItemFacts, BoundAssumption DEF Entry, Time
<1>4. Moved(a) = {i \in neighborCacheExpireMap : i.node # a}
                    \cup {[time |-> now, node |-> a]}
  BY <1>3, ItemFacts DEF Moved
<1>5. ExpireMapAgrees'
  <2> DEFINE items == neighborCacheExpireMap'
             new == [time |-> now, node |-> a]
  <2>1. \A i \in items : i = new \/ (i \in neighborCacheExpireMap /\ i.node # a)
    BY <1>4
  <2>2. new \in items /\ new.node = a /\ new.time = now
        /\ \A i \in neighborCacheExpireMap : i.node # a => i \in items
    BY <1>4
  <2> HIDE DEF items, new
  <2>3. \A i \in items : /\ i.node \in DOMAIN neighborCache'
                         /\ i.time = neighborCache'[i.node].insertTime
                         /\ \A j \in items : j.node = i.node => j = i
    BY <1>2, <2>1, <2>2, ItemFacts
  <2>4. \A b \in DOMAIN neighborCache' : \E i \in items : i.node = b
    BY <1>2, <2>2, ItemFacts
  <2> QED
    <3>1. AgreeOn(neighborCache, neighborCacheExpireMap)'
      BY <2>3, <2>4 DEF AgreeOn, items
    <3> QED
      BY <3>1, Agree, PTL
<1>6. Moved(a) \subseteq Item
  BY <1>1, <1>4, ItemFacts DEF Item
<1> QED
  BY <1>1, <1>2, <1>5, <1>6, ItemFacts DEF MapsGood, IInv

\* An entry changes and keeps its time.
LEMMA KeptFacts ==
    ASSUME IInv, NEW a \in DOMAIN neighborCache, NEW e \in Entry,
           e.insertTime = neighborCache[a].insertTime,
           neighborCache' = [neighborCache EXCEPT ![a] = e],
           UNCHANGED neighborCacheExpireMap
    PROVE  MapsGood'
<1>1. neighborCache \in [DOMAIN neighborCache -> Entry]
  BY DEF IInv, TypeOK
<1>2. DOMAIN neighborCache' = DOMAIN neighborCache /\ neighborCache'[a] = e
      /\ \A b \in DOMAIN neighborCache \ {a} : neighborCache'[b] = neighborCache[b]
  BY <1>1
<1>3. ExpireMapAgrees'
  BY <1>2, ItemFacts DEF ExpireMapAgrees, Known
<1> QED
  BY <1>1, <1>2, <1>3, ItemFacts DEF MapsGood, IInv, TypeOK
-------------------------------------------------------------------------------
(***************************************************************************)
(* The waiting listeners: what a step does to them.                        *)
(***************************************************************************)
Waits(q, a) == a \in DOMAIN neighborCache /\ WaitsIn(q, a)

WaitsGood ==
    \A q \in Query :
        /\ answer[q] = "WAITING" <=> BeingCalled(q) \/ \E a : Waits(q, a)
        /\ \A a, b : Waits(q, a) /\ Waits(q, b) => a = b
        /\ \A c, d \in calling : c.query = q /\ d.query = q => c = d
        /\ BeingCalled(q) => \A a : ~ Waits(q, a)

LEMMA WaitersAreWaits == WaitersKept <=> WaitsGood
BY DEF WaitersKept, WaitsGood, Waits

\* A query starts to wait for a.
LEMMA AskingKeeps ==
    ASSUME WaitersKept, NEW q \in Query, NEW a,
           answer \in [Query -> {"NotAsked", "WAITING", "SELF", "RTT", "TIMEOUT"}],
           answer[q] = "NotAsked",
           Answered(q, "WAITING"), calling' = calling,
           \A p, b : Waits(p, b)' <=> Waits(p, b) \/ (p = q /\ b = a)
    PROVE  WaitersKept'
<1>1. /\ answer'[q] = "WAITING"
      /\ \A p \in Query \ {q} : answer'[p] = answer[p]
  BY DEF Answered
<1>2. \A p : BeingCalled(p)' <=> BeingCalled(p)
  BY DEF BeingCalled
<1>3. ~ BeingCalled(q) /\ \A b : ~ Waits(q, b)
  BY WaitersAreWaits DEF WaitsGood
<1>4. ASSUME NEW p \in Query
      PROVE  /\ answer'[p] = "WAITING" <=> BeingCalled(p)' \/ \E b : Waits(p, b)'
             /\ \A b, d : Waits(p, b)' /\ Waits(p, d)' => b = d
             /\ \A c, d \in calling' : c.query = p /\ d.query = p => c = d
             /\ BeingCalled(p)' => \A b : ~ Waits(p, b)'
  <2>1. CASE p = q
    BY <1>1, <1>2, <1>3, <2>1 DEF BeingCalled
  <2>2. CASE p # q
    BY <1>1, <1>2, <2>2, WaitersAreWaits DEF WaitsGood
  <2> QED
    BY <2>1, <2>2
<1> QED
  <2>1. WaitsGood'
    BY <1>4 DEF WaitsGood
  <2> QED
    BY <2>1, WaitersAreWaits, PTL

\* A report takes all listeners of a.
LEMMA ReportKeeps ==
    ASSUME WaitersKept, NEW a, Idle, answer' = answer,
           \A p, b : Waits(p, b)' <=> Waits(p, b) /\ b # a,
           \A p : BeingCalled(p)' <=> Waits(p, a),
           \A c, d \in calling' : c.query = d.query => c = d
    PROVE  WaitersKept'
<1>1. \A p : ~ BeingCalled(p)
  BY DEF BeingCalled, Idle
<1>2. ASSUME NEW p \in Query
      PROVE  /\ answer'[p] = "WAITING" <=> BeingCalled(p)' \/ \E b : Waits(p, b)'
             /\ \A b, d : Waits(p, b)' /\ Waits(p, d)' => b = d
             /\ \A c, d \in calling' : c.query = p /\ d.query = p => c = d
             /\ BeingCalled(p)' => \A b : ~ Waits(p, b)'
  BY <1>1, WaitersAreWaits DEF WaitsGood
<1> QED
  <2>1. WaitsGood'
    BY <1>2 DEF WaitsGood
  <2> QED
    BY <2>1, WaitersAreWaits, PTL

\* Nothing changes for those that wait.
LEMMA SameKeeps ==
    ASSUME WaitersKept, calling' = calling,
           \A p \in Query : answer'[p] = "WAITING" <=> answer[p] = "WAITING",
           \A p, b : Waits(p, b)' <=> Waits(p, b)
    PROVE  WaitersKept'
<1>1. ASSUME NEW p \in Query
      PROVE  /\ answer'[p] = "WAITING" <=> BeingCalled(p)' \/ \E b : Waits(p, b)'
             /\ \A b, d : Waits(p, b)' /\ Waits(p, d)' => b = d
             /\ \A c, d \in calling' : c.query = p /\ d.query = p => c = d
             /\ BeingCalled(p)' => \A b : ~ Waits(p, b)'
  BY WaitersAreWaits DEF BeingCalled, WaitsGood
<1> QED
  <2>1. WaitsGood'
    BY <1>1 DEF WaitsGood
  <2> QED
    BY <2>1, WaitersAreWaits, PTL

\* A listener is told.
LEMMA CallbackKeeps ==
    ASSUME TypeOK, WaitersKept, NEW c \in calling, ProxCallback(c)
    PROVE  WaitersKept'
<1>1. /\ c.query \in Query /\ c.prox # "WAITING"
      /\ answer \in [Query -> {"NotAsked", "WAITING", "SELF", "RTT", "TIMEOUT"}]
  BY DEF TypeOK
<1>2. /\ answer'[c.query] # "WAITING"
      /\ \A p \in Query \ {c.query} : answer'[p] = answer[p]
      /\ calling' = calling \ {c}
  BY <1>1 DEF ProxCallback, Answered
<1>3. \A p, b : Waits(p, b)' <=> Waits(p, b)
  BY DEF ProxCallback, Waits, WaitsIn
<1>4. /\ ~ BeingCalled(c.query)'
      /\ \A p \in Query \ {c.query} : BeingCalled(p)' <=> BeingCalled(p)
  BY <1>1, <1>2, WaitersAreWaits DEF BeingCalled, WaitsGood
<1>5. ASSUME NEW p \in Query
      PROVE  /\ answer'[p] = "WAITING" <=> BeingCalled(p)' \/ \E b : Waits(p, b)'
             /\ \A b, d : Waits(p, b)' /\ Waits(p, d)' => b = d
             /\ \A e, d \in calling' : e.query = p /\ d.query = p => e = d
             /\ BeingCalled(p)' => \A b : ~ Waits(p, b)'
  <2>1. CASE p = c.query
    <3>1. BeingCalled(p) /\ \A b : ~ Waits(p, b)
      BY <2>1, WaitersAreWaits DEF BeingCalled, WaitsGood
    <3> QED
      BY <1>2, <1>3, <1>4, <2>1, <3>1, WaitersAreWaits DEF WaitsGood
  <2>2. CASE p # c.query
    BY <1>2, <1>3, <1>4, <2>2, WaitersAreWaits DEF WaitsGood
  <2> QED
    BY <2>1, <2>2
<1> QED
  <2>1. WaitsGood'
    BY <1>5 DEF WaitsGood
  <2> QED
    BY <2>1, WaitersAreWaits, PTL
-------------------------------------------------------------------------------
(***************************************************************************)
(* The kinds of steps.                                                     *)
(***************************************************************************)
\* Except for a's, entries stay as they are, or go and are not waited for.
Others(a) ==
    /\ \A b \in DOMAIN neighborCache' \ {a} :
          b \in DOMAIN neighborCache /\ neighborCache'[b] = neighborCache[b]
    /\ \A b \in DOMAIN neighborCache \ (DOMAIN neighborCache' \cup {a}) :
          neighborCache[b].rttState # "WAITING"

LEMMA OthersWait ==
    ASSUME WaitingIsPinged, enableNeighborCache, NEW a, Others(a)
    PROVE  \A p, b : b # a => (Waits(p, b)' <=> Waits(p, b))
BY DEF WaitingIsPinged, Others, Waits, WaitsIn

LEMMA PingSentFacts ==
    ASSUME IInv, NEW q \in Query, NEW a \in Node, PingSent(q, a)
    PROVE  /\ DOMAIN pings' = DOMAIN pings \cup {q}
           /\ pings' \in [DOMAIN pings' -> Ping]
           /\ pings'[q].node = a
           /\ \A p \in DOMAIN pings \ {q} : pings'[p] = pings[p]
<1>1. /\ DOMAIN pings' = DOMAIN pings \cup {q}
      /\ pings' = [p \in DOMAIN pings' |->
                        IF p = q THEN [node |-> a, fresh |-> TRUE] ELSE pings[p]]
  BY DEF PingSent, With
<1> DEFINE new == [node |-> a, fresh |-> TRUE]
<1>2. pings \in [DOMAIN pings -> Ping] /\ new \in Ping /\ new.node = a
  BY DEF IInv, TypeOK, Ping
<1>3. pings' = [p \in DOMAIN pings' |-> IF p = q THEN new ELSE pings[p]]
  BY <1>1
<1> HIDE DEF new
<1>4. \A p \in DOMAIN pings' : pings'[p] = IF p = q THEN new ELSE pings[p]
  BY <1>3
<1>5. \A p \in DOMAIN pings' : pings'[p] \in Ping
  BY <1>1, <1>2, <1>4
<1>6. pings' \in [DOMAIN pings' -> Ping]
  BY <1>3, <1>5
<1> QED
  BY <1>1, <1>2, <1>4, <1>6

LEMMA PingEndedFacts ==
    ASSUME IInv, NEW q, pings' = Without(pings, {q})
    PROVE  /\ DOMAIN pings' = DOMAIN pings \ {q}
           /\ pings' \in [DOMAIN pings' -> Ping]
           /\ \A p \in DOMAIN pings' : pings'[p] = pings[p]
BY DEF IInv, TypeOK, Without, Restrict

\* A query waits in a's entry, and a is pinged or was being pinged.
LEMMA AskStep ==
    ASSUME IInv, enableNeighborCache, NEW q \in Query, answer[q] = "NotAsked",
           NEW a \in Node, MapsGood', Others(a), a \in DOMAIN neighborCache',
           neighborCache'[a].rttState = "WAITING",
           neighborCache'[a].waitingContexts =
               (IF Known(a) THEN neighborCache[a].waitingContexts ELSE {}) \cup {q},
           \/ PingSent(q, a)
           \/ /\ pings' = pings
              /\ Known(a) /\ neighborCache[a].rttState = "WAITING",
           Answered(q, "WAITING"), UNCHANGED <<enableNeighborCache, now, calling>>
    PROVE  IInv'
<1>1. /\ TypeOK /\ WaitersKept /\ WaitingIsPinged /\ PingsWereAsked
      /\ answer \in [Query -> {"NotAsked", "WAITING", "SELF", "RTT", "TIMEOUT"}]
  BY DEF IInv, EnabledKeepsWaiters, TypeOK
<1>2. q \notin DOMAIN pings
  BY <1>1 DEF PingsWereAsked
<1>3. /\ DOMAIN pings' \subseteq Query /\ pings' \in [DOMAIN pings' -> Ping]
      /\ \A p \in DOMAIN pings : p \in DOMAIN pings' /\ pings'[p] = pings[p]
      /\ DOMAIN pings' \subseteq DOMAIN pings \cup {q}
      /\ \E p \in DOMAIN pings' : pings'[p].node = a
  <2>1. CASE PingSent(q, a)
    BY <1>1, <1>2, <2>1, PingSentFacts, ZenonT(30) DEF TypeOK
  <2>2. CASE pings' = pings /\ Known(a) /\ neighborCache[a].rttState = "WAITING"
    BY <1>1, <2>2 DEF TypeOK, WaitingIsPinged, Known
  <2> QED
    BY <2>1, <2>2
<1>4. /\ answer' \in [Query -> {"NotAsked", "WAITING", "SELF", "RTT", "TIMEOUT"}]
      /\ answer'[q] = "WAITING" /\ \A p \in Query \ {q} : answer'[p] = answer[p]
  BY <1>1 DEF Answered
<1>5. TypeOK'
  BY <1>1, <1>3, <1>4 DEF TypeOK, MapsGood
<1>6. WaitersKept'
  <2>1. \A p, b : Waits(p, b)' <=> Waits(p, b) \/ (p = q /\ b = a)
    BY <1>1, OthersWait DEF Waits, WaitsIn, Known
  <2> QED
    BY <1>1, <2>1, AskingKeeps
<1>7. WaitingIsPinged'
  <2>1. ASSUME NEW b \in DOMAIN neighborCache'
        PROVE  /\ neighborCache'[b].waitingContexts # {} => neighborCache'[b].rttState = "WAITING"
               /\ neighborCache'[b].rttState = "WAITING" => \E p \in DOMAIN pings' : pings'[p].node = b
    <3>1. CASE b = a
      BY <1>3, <3>1
    <3>2. CASE b # a
      BY <1>1, <1>3, <2>1, <3>2 DEF WaitingIsPinged, Others
    <3> QED
      BY <3>1, <3>2
  <2> QED
    BY <2>1 DEF WaitingIsPinged
<1>8. PingsWereAsked'
  BY <1>1, <1>3, <1>4 DEF PingsWereAsked, TypeOK
<1> QED
  BY <1>5, <1>6, <1>7, <1>8 DEF IInv, MapsGood, EnabledKeepsWaiters

\* With the cache disabled only the maps matter.
LEMMA DisabledAskStep ==
    ASSUME IInv, ~ enableNeighborCache, NEW q \in Query, NEW a \in Node, MapsGood',
           PingSent(q, a), Answered(q, "WAITING"),
           UNCHANGED <<enableNeighborCache, now, calling>>
    PROVE  IInv'
<1>1. TypeOK /\ PingsWereAsked
  BY DEF IInv
<1>2. /\ answer' \in [Query -> {"NotAsked", "WAITING", "SELF", "RTT", "TIMEOUT"}]
      /\ answer'[q] = "WAITING" /\ \A p \in Query \ {q} : answer'[p] = answer[p]
  BY <1>1 DEF Answered, TypeOK
<1>3. TypeOK'
  BY <1>1, <1>2, PingSentFacts DEF TypeOK, MapsGood
<1>4. PingsWereAsked'
  <2>1. DOMAIN pings' = DOMAIN pings \cup {q} /\ DOMAIN pings \subseteq Query
    BY <1>1, PingSentFacts DEF TypeOK
  <2> QED
    BY <1>1, <1>2, <2>1 DEF PingsWereAsked
<1> QED
  BY <1>3, <1>4 DEF IInv, MapsGood, EnabledKeepsWaiters, WaitingIsPinged

\* News of a: its entry does not wait any more, and its listeners are called.
LEMMA ReportStep ==
    ASSUME IInv, Idle, NEW a \in Addr, NEW prox \in {"RTT", "TIMEOUT"},
           MapsGood', Others(a), a \in DOMAIN neighborCache',
           neighborCache'[a].rttState # "WAITING",
           neighborCache'[a].waitingContexts = {}, CallsBack(a, prox),
           \/ pings' = pings
           \/ \E q \in DOMAIN pings : pings[q].node = a /\ pings' = Without(pings, {q}),
           UNCHANGED <<enableNeighborCache, now, answer>>
    PROVE  IInv'
<1>1. TypeOK /\ WaitingIsPinged /\ PingsWereAsked
  BY DEF IInv
<1>2. /\ DOMAIN pings' \subseteq DOMAIN pings /\ pings' \in [DOMAIN pings' -> Ping]
      /\ \A p \in DOMAIN pings : pings[p].node # a => p \in DOMAIN pings' /\ pings'[p] = pings[p]
  <2>1. CASE pings' = pings
    BY <1>1, <2>1 DEF TypeOK
  <2>2. CASE \E q \in DOMAIN pings : pings[q].node = a /\ pings' = Without(pings, {q})
    BY <2>2, PingEndedFacts
  <2> QED
    BY <2>1, <2>2
<1>3. calling' = {[query |-> q, prox |-> prox] : q \in {p \in Query : Waits(p, a)}}
  <2>1. Known(a) => neighborCache[a].waitingContexts \subseteq Query
    BY <1>1 DEF TypeOK, Known, Entry
  <2> QED
    BY <2>1 DEF CallsBack, Waits, WaitsIn, Known
<1>4. TypeOK'
  BY <1>1, <1>2, <1>3 DEF TypeOK, MapsGood
<1>5. enableNeighborCache => WaitersKept'
  <2> SUFFICES ASSUME enableNeighborCache PROVE WaitersKept'
    OBVIOUS
  <2>1. \A p, b : Waits(p, b)' <=> Waits(p, b) /\ b # a
    BY <1>1, OthersWait DEF Waits, WaitsIn
  <2>2. \A p : Waits(p, a) => p \in Query
    BY <1>1 DEF Waits, WaitsIn, TypeOK, Entry
  <2>3. \A p : BeingCalled(p)' <=> Waits(p, a)
    <3>1. ASSUME NEW p, Waits(p, a)
          PROVE  \E c \in calling' : c.query = p
      <4>1. [query |-> p, prox |-> prox] \in calling'
        BY <1>3, <2>2, <3>1
      <4> QED
        BY <4>1
    <3>2. ASSUME NEW c \in calling'
          PROVE  Waits(c.query, a)
      <4>1. PICK p \in {r \in Query : Waits(r, a)} : c = [query |-> p, prox |-> prox]
        BY <1>3
      <4> QED
        BY <4>1
    <3> QED
      BY <3>1, <3>2 DEF BeingCalled
  <2>4. \A c, d \in calling' : c.query = d.query => c = d
    BY <1>3
  <2> QED
    BY <2>1, <2>3, <2>4, ReportKeeps DEF IInv, EnabledKeepsWaiters
<1>6. WaitingIsPinged'
  <2>1. ASSUME enableNeighborCache, NEW b \in DOMAIN neighborCache'
        PROVE  /\ neighborCache'[b].waitingContexts # {} => neighborCache'[b].rttState = "WAITING"
               /\ neighborCache'[b].rttState = "WAITING" => \E p \in DOMAIN pings' : pings'[p].node = b
    <3>1. CASE b = a
      BY <3>1
    <3>2. CASE b # a
      BY <1>1, <1>2, <2>1, <3>2 DEF WaitingIsPinged, Others
    <3> QED
      BY <3>1, <3>2
  <2> QED
    BY <2>1 DEF WaitingIsPinged
<1>7. PingsWereAsked'
  BY <1>1, <1>2 DEF PingsWereAsked
<1> QED
  BY <1>4, <1>5, <1>6, <1>7 DEF IInv, MapsGood, EnabledKeepsWaiters

\* No entry starts or stops to be waited for, and no query to wait.
LEMMA QuietStep ==
    ASSUME IInv, MapsGood', DOMAIN neighborCache' = DOMAIN neighborCache,
           \A b \in DOMAIN neighborCache :
               /\ neighborCache'[b].waitingContexts = neighborCache[b].waitingContexts
               /\ neighborCache'[b].rttState = "WAITING" <=> neighborCache[b].rttState = "WAITING",
           now' \in Time, UNCHANGED <<enableNeighborCache, calling>>,
           DOMAIN pings' = DOMAIN pings, pings' \in [DOMAIN pings -> Ping],
           \A p \in DOMAIN pings : pings'[p].node = pings[p].node,
           answer' \in [Query -> {"NotAsked", "WAITING", "SELF", "RTT", "TIMEOUT"}],
           \A p \in Query : /\ answer'[p] = "WAITING" <=> answer[p] = "WAITING"
                            /\ answer'[p] = "NotAsked" => answer[p] = "NotAsked"
    PROVE  IInv'
<1>1. TypeOK /\ WaitingIsPinged /\ PingsWereAsked
  BY DEF IInv
<1>2. TypeOK'
  BY <1>1 DEF TypeOK, MapsGood
<1>3. enableNeighborCache => WaitersKept'
  <2>1. \A p, b : Waits(p, b)' <=> Waits(p, b)
    BY DEF Waits, WaitsIn
  <2> QED
    BY <2>1, SameKeeps DEF IInv, EnabledKeepsWaiters
<1>4. WaitingIsPinged'
  BY <1>1 DEF WaitingIsPinged
<1>5. PingsWereAsked'
  BY <1>1 DEF PingsWereAsked, TypeOK
<1> QED
  BY <1>2, <1>3, <1>4, <1>5 DEF IInv, MapsGood, EnabledKeepsWaiters

LEMMA UnchangedMaps ==
    ASSUME IInv, UNCHANGED <<neighborCache, neighborCacheExpireMap>>
    PROVE  MapsGood'
BY DEF IInv, TypeOK, MapsGood, ExpireMapAgrees, Known

\* getNodeRtt makes an expired entry unknown, and no other.
LEMMA LookedFacts ==
    ASSUME IInv, NEW a, neighborCache' = Looked(a), UNCHANGED neighborCacheExpireMap
    PROVE  /\ MapsGood'
           /\ DOMAIN neighborCache' = DOMAIN neighborCache
           /\ \A b \in DOMAIN neighborCache :
               /\ neighborCache'[b].waitingContexts = neighborCache[b].waitingContexts
               /\ neighborCache'[b].rttState = "WAITING" <=> neighborCache[b].rttState = "WAITING"
<1>1. CASE ~ (Known(a) /\ Expired(a))
  <2>1. neighborCache' = neighborCache
    BY <1>1 DEF Looked
  <2> QED
    BY <2>1, UnchangedMaps
<1>2. CASE Known(a) /\ Expired(a)
  <2> DEFINE e == [neighborCache[a] EXCEPT !.rttState = "UNKNOWN"]
  <2>1. neighborCache[a] \in Entry /\ neighborCache[a].rttState # "WAITING"
        /\ neighborCache \in [DOMAIN neighborCache -> Entry]
    BY <1>2, ItemFacts DEF Known, Expired, IInv, TypeOK
  <2>2. /\ e \in Entry /\ e.insertTime = neighborCache[a].insertTime
        /\ e.waitingContexts = neighborCache[a].waitingContexts /\ e.rttState # "WAITING"
    BY <2>1 DEF Entry
  <2>3. neighborCache' = [neighborCache EXCEPT ![a] = e]
    BY <1>2 DEF Looked
  <2> HIDE DEF e
  <2>4. MapsGood'
    BY <1>2, <2>2, <2>3, KeptFacts DEF Known
  <2> QED
    BY <1>2, <2>1, <2>2, <2>3, <2>4 DEF Known
<1> QED
  BY <1>1, <1>2

\* What a report does to the cache, for a node it knows or not.
LEMMA ReportFacts ==
    ASSUME IInv, NEW a \in Addr, NEW state \in {"VALID", "TIMEOUT"},
           \/ ~ Known(a) /\ Insert(a, NewEntry(state, {}))
           \/ /\ Known(a) /\ neighborCache' = Reported(a, state)
              /\ neighborCacheExpireMap' = Moved(a)
    PROVE  /\ MapsGood' /\ Others(a) /\ a \in DOMAIN neighborCache'
           /\ neighborCache'[a].rttState = state
           /\ neighborCache'[a].waitingContexts = {}
<1>1. now \in Time /\ neighborCache \in [DOMAIN neighborCache -> Entry]
  BY DEF IInv, TypeOK
<1>2. CASE ~ Known(a) /\ Insert(a, NewEntry(state, {}))
  <2> DEFINE e == NewEntry(state, {})
  <2>1. e \in Entry /\ e.insertTime = now /\ e.rttState = state /\ e.waitingContexts = {}
    BY <1>1 DEF NewEntry, Entry
  <2>2. ~ Known(a) /\ Insert(a, e)
    BY <1>2
  <2> HIDE DEF e
  <2> QED
    BY <2>1, <2>2, InsertFacts DEF Others
<1>3. CASE /\ Known(a) /\ neighborCache' = Reported(a, state)
           /\ neighborCacheExpireMap' = Moved(a)
  <2> DEFINE e == [neighborCache[a] EXCEPT !.insertTime = now, !.rttState = state,
                                           !.waitingContexts = {}]
  <2>1. neighborCache[a] \in Entry
    BY <1>3, ItemFacts DEF Known
  <2>2. e \in Entry /\ e.insertTime = now /\ e.rttState = state /\ e.waitingContexts = {}
    BY <1>1, <2>1 DEF Entry
  <2>3. neighborCache' = [neighborCache EXCEPT ![a] = e]
    BY <1>3 DEF Reported
  <2> HIDE DEF e
  <2>4. MapsGood'
    BY <1>3, <2>2, <2>3, MovedFacts DEF Known
  <2> QED
    BY <1>1, <1>3, <2>2, <2>3, <2>4 DEF Known, Others
<1> QED
  BY <1>2, <1>3
-------------------------------------------------------------------------------
(***************************************************************************)
(* The actions.                                                            *)
(***************************************************************************)
LEMMA InitInv == Init => IInv
<1> SUFFICES ASSUME Init PROVE IInv
  OBVIOUS
<1>1. /\ DOMAIN neighborCache = {} /\ DOMAIN pings = {} /\ neighborCacheExpireMap = {}
      /\ calling = {} /\ \A q \in Query : answer[q] = "NotAsked"
  BY DEF Init
<1>2. TypeOK
  BY <1>1, BoundAssumption DEF Init, TypeOK, Time
<1>3. IsFiniteSet(DOMAIN neighborCache)
  BY <1>1, FS_EmptySet
<1>4. ExpireMapAgrees /\ WaitingIsPinged /\ PingsWereAsked
  BY <1>1 DEF ExpireMapAgrees, WaitingIsPinged, PingsWereAsked
<1>5. WaitersKept
  BY <1>1 DEF WaitersKept, BeingCalled
<1> QED
  BY <1>2, <1>3, <1>4, <1>5 DEF IInv, EnabledKeepsWaiters

LEMMA AnsweredAtOnce ==
    ASSUME IInv, NEW q \in Query, answer[q] = "NotAsked",
           NEW prox \in {"SELF", "RTT", "TIMEOUT"}, Answered(q, prox)
    PROVE  /\ answer' \in [Query -> {"NotAsked", "WAITING", "SELF", "RTT", "TIMEOUT"}]
           /\ \A p \in Query : /\ answer'[p] = "WAITING" <=> answer[p] = "WAITING"
                               /\ answer'[p] = "NotAsked" => answer[p] = "NotAsked"
<1>1. answer \in [Query -> {"NotAsked", "WAITING", "SELF", "RTT", "TIMEOUT"}]
  BY DEF IInv, TypeOK
<1>2. answer'[q] = prox /\ \A p \in Query \ {q} : answer'[p] = answer[p]
  BY <1>1 DEF Answered
<1>3. answer' \in [Query -> {"NotAsked", "WAITING", "SELF", "RTT", "TIMEOUT"}]
  BY <1>1 DEF Answered
<1>4. prox # "WAITING" /\ prox # "NotAsked"
  OBVIOUS
<1> QED
  BY <1>2, <1>3, <1>4

LEMMA GetProxSelfInv ==
    ASSUME IInv, NEW q \in Query, GetProxSelf(q) PROVE IInv'
<1>1. /\ TypeOK /\ answer[q] = "NotAsked" /\ Answered(q, "SELF")
      /\ UNCHANGED <<enableNeighborCache, now, neighborCache, neighborCacheExpireMap,
                     pings, calling>>
  BY DEF IInv, GetProxSelf, MayAsk
<1>2. /\ answer' \in [Query -> {"NotAsked", "WAITING", "SELF", "RTT", "TIMEOUT"}]
      /\ \A p \in Query : /\ answer'[p] = "WAITING" <=> answer[p] = "WAITING"
                          /\ answer'[p] = "NotAsked" => answer[p] = "NotAsked"
  BY <1>1, AnsweredAtOnce
<1>3. now' \in Time /\ pings' \in [DOMAIN pings -> Ping] /\ MapsGood'
  BY <1>1, UnchangedMaps DEF TypeOK
<1> QED
  BY <1>1, <1>2, <1>3, QuietStep

LEMMA GetProxHitInv ==
    ASSUME IInv, NEW q \in Query, NEW a \in Node, NEW type \in PingingTypes,
           GetProxHit(q, a, type)
    PROVE  IInv'
<1> DEFINE prox == IF Seen(a) = "VALID" THEN "RTT" ELSE "TIMEOUT"
<1>1. /\ TypeOK /\ answer[q] = "NotAsked" /\ Answered(q, prox)
      /\ neighborCache' = Looked(a)
      /\ UNCHANGED <<enableNeighborCache, now, neighborCacheExpireMap, pings, calling>>
  BY DEF IInv, GetProxHit, MayAsk
<1>2. prox \in {"SELF", "RTT", "TIMEOUT"}
  OBVIOUS
<1> HIDE DEF prox
<1>3. /\ answer' \in [Query -> {"NotAsked", "WAITING", "SELF", "RTT", "TIMEOUT"}]
      /\ \A p \in Query : /\ answer'[p] = "WAITING" <=> answer[p] = "WAITING"
                          /\ answer'[p] = "NotAsked" => answer[p] = "NotAsked"
  BY <1>1, <1>2, AnsweredAtOnce
<1>4. now' \in Time /\ pings' \in [DOMAIN pings -> Ping]
  BY <1>1 DEF TypeOK
<1> QED
  BY <1>1, <1>3, <1>4, LookedFacts, QuietStep

LEMMA GetProxImmediateInv ==
    ASSUME IInv, NEW a \in Node, GetProxImmediate(a) PROVE IInv'
<1>1. TypeOK
  BY DEF IInv
<1> QED
  BY <1>1, LookedFacts, QuietStep DEF GetProxImmediate, TypeOK

LEMMA GetProxMissInv ==
    ASSUME IInv, NEW q \in Query, NEW a \in Node, GetProxMiss(q, a) PROVE IInv'
<1> DEFINE e == NewEntry("WAITING", {q})
<1>1. now \in Time
  BY DEF IInv, TypeOK
<1>2. e \in Entry /\ e.insertTime = now /\ e.rttState = "WAITING" /\ e.waitingContexts = {q}
  BY <1>1 DEF NewEntry, Entry
<1>3. ~ Known(a) /\ a \in Addr /\ Insert(a, e)
  BY DEF GetProxMiss, Addr
<1> HIDE DEF e
<1>4. /\ MapsGood' /\ Others(a) /\ a \in DOMAIN neighborCache'
      /\ neighborCache'[a] = e
  BY <1>2, <1>3, InsertFacts DEF Others
<1> QED
  BY <1>2, <1>3, <1>4, AskStep DEF GetProxMiss, MayAsk

LEMMA GetProxJoinInv ==
    ASSUME IInv, NEW q \in Query, NEW a \in Node, GetProxJoin(q, a) PROVE IInv'
<1> DEFINE e == [neighborCache[a] EXCEPT
                    !.waitingContexts = neighborCache[a].waitingContexts \cup {q}]
<1>1. Known(a) /\ neighborCache[a].rttState = "WAITING"
  BY DEF GetProxJoin, Seen
<1>2. neighborCache[a] \in Entry /\ neighborCache \in [DOMAIN neighborCache -> Entry]
  BY <1>1, ItemFacts DEF Known, IInv, TypeOK
<1>3. /\ e \in Entry /\ e.insertTime = neighborCache[a].insertTime
      /\ e.rttState = "WAITING"
      /\ e.waitingContexts = neighborCache[a].waitingContexts \cup {q}
  BY <1>1, <1>2 DEF Entry
<1>4. neighborCache' = [neighborCache EXCEPT ![a] = e]
  BY DEF GetProxJoin
<1> HIDE DEF e
<1>5. MapsGood'
  BY <1>1, <1>3, <1>4, KeptFacts DEF GetProxJoin, Known
<1>6. Others(a) /\ a \in DOMAIN neighborCache' /\ neighborCache'[a] = e
  BY <1>1, <1>2, <1>4 DEF Others, Known
<1> QED
  BY <1>1, <1>3, <1>5, <1>6, AskStep DEF GetProxJoin, MayAsk

LEMMA GetProxAgainInv ==
    ASSUME IInv, NEW q \in Query, NEW a \in Node, NEW type \in PingingTypes,
           GetProxAgain(q, a, type)
    PROVE  IInv'
<1> DEFINE e == [neighborCache[a] EXCEPT
                    !.insertTime = now, !.rttState = "WAITING",
                    !.waitingContexts = neighborCache[a].waitingContexts \cup {q}]
<1>1. Known(a) /\ now \in Time
  BY DEF GetProxAgain, IInv, TypeOK
<1>2. neighborCache[a] \in Entry /\ neighborCache \in [DOMAIN neighborCache -> Entry]
  BY <1>1, ItemFacts DEF Known, IInv, TypeOK
<1>3. /\ e \in Entry /\ e.insertTime = now /\ e.rttState = "WAITING"
      /\ e.waitingContexts = neighborCache[a].waitingContexts \cup {q}
  BY <1>1, <1>2 DEF Entry
<1>4. neighborCache' = [neighborCache EXCEPT ![a] = e]
  BY <1>1, <1>2 DEF GetProxAgain, Renewed, Known, Entry
<1> HIDE DEF e
<1>5. MapsGood'
  BY <1>1, <1>3, <1>4, MovedFacts DEF GetProxAgain, Known
<1>6. Others(a) /\ a \in DOMAIN neighborCache' /\ neighborCache'[a] = e
  BY <1>1, <1>2, <1>4 DEF Others, Known
<1> QED
  BY <1>1, <1>3, <1>5, <1>6, AskStep DEF GetProxAgain, MayAsk

LEMMA QueryProxNewInv ==
    ASSUME IInv, NEW q \in Query, NEW a \in Node, QueryProxNew(q, a) PROVE IInv'
<1> DEFINE e == NewEntry("UNKNOWN", {q})
<1>1. now \in Time
  BY DEF IInv, TypeOK
<1>2. e \in Entry /\ e.insertTime = now
  BY <1>1 DEF NewEntry, Entry
<1>3. ~ Known(a) /\ a \in Addr /\ Insert(a, e)
  BY DEF QueryProxNew, Addr
<1> HIDE DEF e
<1>4. MapsGood'
  BY <1>2, <1>3, InsertFacts
<1> QED
  BY <1>4, DisabledAskStep DEF QueryProxNew

LEMMA QueryProxKnownInv ==
    ASSUME IInv, NEW q \in Query, NEW a \in Node, QueryProxKnown(q, a) PROVE IInv'
<1> DEFINE e == [neighborCache[a] EXCEPT
                    !.waitingContexts = neighborCache[a].waitingContexts \cup {q}]
<1>1. Known(a)
  BY DEF QueryProxKnown
<1>2. neighborCache[a] \in Entry
  BY <1>1, ItemFacts DEF Known
<1>3. e \in Entry /\ e.insertTime = neighborCache[a].insertTime
  BY <1>2 DEF Entry
<1>4. neighborCache' = [neighborCache EXCEPT ![a] = e]
  BY DEF QueryProxKnown
<1> HIDE DEF e
<1>5. MapsGood'
  BY <1>1, <1>3, <1>4, KeptFacts DEF QueryProxKnown, Known
<1> QED
  BY <1>5, DisabledAskStep DEF QueryProxKnown

LEMMA UpdateNodeInv ==
    ASSUME IInv, Idle, NEW a \in Addr, UpdateNode(a, FALSE),
           \/ pings' = pings
           \/ \E q \in DOMAIN pings : pings[q].node = a /\ pings' = Without(pings, {q}),
           UNCHANGED <<enableNeighborCache, now, answer>>
    PROVE  IInv'
<1>1. /\ \/ ~ Known(a) /\ Insert(a, NewEntry("VALID", {}))
         \/ /\ Known(a) /\ neighborCache' = Reported(a, "VALID")
            /\ neighborCacheExpireMap' = Moved(a)
      /\ CallsBack(a, "RTT")
  BY DEF UpdateNode
<1>2. /\ MapsGood' /\ Others(a) /\ a \in DOMAIN neighborCache'
      /\ neighborCache'[a].rttState = "VALID"
      /\ neighborCache'[a].waitingContexts = {}
  BY <1>1, ReportFacts
<1> QED
  BY <1>1, <1>2, ReportStep

LEMMA SetNodeTimeoutInv ==
    ASSUME IInv, Idle, NEW a \in Addr, SetNodeTimeout(a),
           \/ pings' = pings
           \/ \E q \in DOMAIN pings : pings[q].node = a /\ pings' = Without(pings, {q}),
           UNCHANGED <<enableNeighborCache, now, answer>>
    PROVE  IInv'
<1>1. /\ \/ ~ Known(a) /\ Insert(a, NewEntry("TIMEOUT", {}))
         \/ /\ Known(a) /\ neighborCache' = Reported(a, "TIMEOUT")
            /\ neighborCacheExpireMap' = Moved(a)
      /\ CallsBack(a, "TIMEOUT")
  BY DEF SetNodeTimeout
<1>2. /\ MapsGood' /\ Others(a) /\ a \in DOMAIN neighborCache'
      /\ neighborCache'[a].rttState = "TIMEOUT"
      /\ neighborCache'[a].waitingContexts = {}
  BY <1>1, ReportFacts
<1> QED
  BY <1>1, <1>2, ReportStep

\* A step in which nothing changes, of the cache's state.
LEMMA NothingChanges == IInv /\ UNCHANGED vars => IInv'
<1> SUFFICES ASSUME IInv, UNCHANGED vars PROVE IInv'
  OBVIOUS
<1>1. TypeOK
  BY DEF IInv
<1>2. /\ DOMAIN neighborCache' = DOMAIN neighborCache
      /\ now' \in Time /\ pings' \in [DOMAIN pings -> Ping] /\ MapsGood'
      /\ answer' \in [Query -> {"NotAsked", "WAITING", "SELF", "RTT", "TIMEOUT"}]
  BY <1>1, UnchangedMaps DEF vars, TypeOK
<1> QED
  BY <1>2, QuietStep DEF vars

LEMMA PingResponseInv ==
    ASSUME IInv, NEW q \in Query, PingResponse(q) PROVE IInv'
<1>1. pings[q].node \in Addr /\ q \in DOMAIN pings
  BY DEF PingResponse, IInv, TypeOK, Ping, Addr
<1> QED
  BY <1>1, UpdateNodeInv DEF PingResponse

LEMMA PingTimeoutInv ==
    ASSUME IInv, NEW q \in Query, PingTimeout(q) PROVE IInv'
<1>1. pings[q].node \in Addr /\ q \in DOMAIN pings
  BY DEF PingTimeout, IInv, TypeOK, Ping, Addr
<1> QED
  BY <1>1, SetNodeTimeoutInv DEF PingTimeout

LEMMA RpcResponseInv ==
    ASSUME IInv, NEW a \in Addr, RpcResponse(a) PROVE IInv'
<1>1. CASE a = Self
  <2>1. UNCHANGED vars
    BY <1>1 DEF RpcResponse, UpdateNode, vars
  <2> QED
    BY <2>1, NothingChanges
<1>2. CASE a # Self
  BY <1>2, UpdateNodeInv DEF RpcResponse
<1> QED
  BY <1>1, <1>2

LEMMA RpcTimeoutInv ==
    ASSUME IInv, NEW a \in Node, RpcTimeout(a) PROVE IInv'
BY SetNodeTimeoutInv DEF RpcTimeout, Addr

LEMMA ProxCallbackInv ==
    ASSUME IInv, NEW c \in calling, ProxCallback(c) PROVE IInv'
<1>1. TypeOK /\ WaitingIsPinged /\ PingsWereAsked
      /\ answer \in [Query -> {"NotAsked", "WAITING", "SELF", "RTT", "TIMEOUT"}]
  BY DEF IInv, TypeOK
<1>2. MapsGood'
  BY UnchangedMaps DEF ProxCallback
<1>3. c.query \in Query /\ c.prox \in {"RTT", "TIMEOUT"}
  BY <1>1 DEF TypeOK
<1>4. /\ answer' \in [Query -> {"NotAsked", "WAITING", "SELF", "RTT", "TIMEOUT"}]
      /\ \A p \in Query : answer'[p] = answer[p] \/ answer'[p] # "NotAsked"
  BY <1>1, <1>3 DEF ProxCallback, Answered
<1>5. TypeOK'
  BY <1>1, <1>2, <1>4 DEF TypeOK, ProxCallback, MapsGood
<1>6. enableNeighborCache => WaitersKept'
  BY <1>1, CallbackKeeps DEF IInv, EnabledKeepsWaiters
<1>7. WaitingIsPinged' /\ PingsWereAsked'
  BY <1>1, <1>4 DEF WaitingIsPinged, PingsWereAsked, ProxCallback, TypeOK
<1> QED
  BY <1>2, <1>5, <1>6, <1>7 DEF IInv, MapsGood, EnabledKeepsWaiters, ProxCallback

LEMMA TickInv ==
    ASSUME IInv, Tick PROVE IInv'
<1>1. TypeOK
  BY DEF IInv
<1>2. now' \in Time
  BY <1>1, BoundAssumption DEF Tick, TypeOK, Time
<1>3. /\ DOMAIN pings' = DOMAIN pings /\ pings' \in [DOMAIN pings -> Ping]
      /\ \A p \in DOMAIN pings : pings'[p].node = pings[p].node
  BY <1>1 DEF Tick, TypeOK, Ping
<1>4. MapsGood' /\ DOMAIN neighborCache' = DOMAIN neighborCache
  BY UnchangedMaps DEF Tick
<1> QED
  BY <1>1, <1>2, <1>3, <1>4, QuietStep DEF Tick, TypeOK

LEMMA NextInv == IInv /\ [Next]_vars => IInv'
<1> SUFFICES ASSUME IInv, [Next]_vars PROVE IInv'
  OBVIOUS
<1>1. CASE UNCHANGED vars
  BY <1>1, NothingChanges
<1>2. ASSUME NEW q \in Query, GetProx(q)
      PROVE  IInv'
  BY <1>2, GetProxSelfInv, GetProxHitInv, GetProxAgainInv, GetProxMissInv,
     GetProxJoinInv, QueryProxNewInv, QueryProxKnownInv DEF GetProx
<1> QED
  BY <1>1, <1>2, PingResponseInv, PingTimeoutInv, RpcResponseInv, RpcTimeoutInv,
     GetProxImmediateInv, ProxCallbackInv, TickInv DEF Next
-------------------------------------------------------------------------------
(***************************************************************************)
(* The size of the cache.                                                  *)
(***************************************************************************)
\* Evictions remove one entry for each item.
LEMMA EvictedCount ==
    ASSUME NEW cache, NEW items, AgreeOn(cache, items), IsFiniteSet(DOMAIN cache),
           NEW E \in SUBSET items
    PROVE  /\ Cardinality(E) \in Nat /\ Cardinality(DOMAIN cache) \in Nat
           /\ Cardinality(DOMAIN cache \ {i.node : i \in E}) =
                  Cardinality(DOMAIN cache) - Cardinality(E)
<1> DEFINE T == {i.node : i \in E}
           f == [i \in E |-> i.node]
<1>1. T \subseteq DOMAIN cache
  BY DEF AgreeOn
<1>2. IsFiniteSet(T)
  BY <1>1, FS_Subset
<1>3. f \in [E -> T]
  OBVIOUS
<1>4. f \in Injection(E, T)
  BY <1>3 DEF Injection, IsInjective, AgreeOn
<1>5. f \in Surjection(E, T)
  BY <1>3 DEF Surjection
<1> HIDE DEF f, T
<1>6. IsFiniteSet(E) /\ Cardinality(E) = Cardinality(T)
  BY <1>2, <1>4, <1>5, FS_Injection
<1>7. Cardinality(DOMAIN cache \ T) = Cardinality(DOMAIN cache) - Cardinality(DOMAIN cache \cap T)
  BY FS_Difference
<1>8. DOMAIN cache \cap T = T
  BY <1>1
<1> QED
  BY <1>6, <1>7, <1>8, FS_CardinalityType DEF T

Bounded == Cardinality(DOMAIN neighborCache) > MaxSize =>
               \E i \in Oldest(neighborCacheExpireMap) : Blocked(neighborCache[i.node])

\* After an insertion the cache is no larger than maxSize, or its oldest entry
\* is blocked.
LEMMA InsertIsBounded ==
    ASSUME IInv, NEW a \in Addr, ~ Known(a), NEW e \in Entry, e.insertTime = now,
           Insert(a, e), now' = now
    PROVE  Bounded'
<1> DEFINE filled == Filled(a, e)
           items  == Items(a)
<1>1. PICK E \in Evictions(filled, items) :
        /\ neighborCache' = Without(filled, {i.node : i \in E})
        /\ neighborCacheExpireMap' = items \ E
  BY DEF Insert, Filled, Items
<1>2. AgreeOn(filled, items) /\ IsFiniteSet(DOMAIN filled) /\ E \in SUBSET items
  BY FilledFacts, EvictionFacts
<1> HIDE DEF filled, items
<1>3. /\ DOMAIN neighborCache' = DOMAIN filled \ {i.node : i \in E}
      /\ \A b \in DOMAIN neighborCache' : neighborCache'[b] = filled[b]
  BY <1>1 DEF Without, Restrict
<1>4. /\ Cardinality(E) \in Nat /\ Cardinality(DOMAIN filled) \in Nat
      /\ Cardinality(DOMAIN neighborCache') = Cardinality(DOMAIN filled) - Cardinality(E)
  BY <1>2, <1>3, EvictedCount
<1> DEFINE surplus == Cardinality(DOMAIN filled) - MaxSize \div 2
<1>5. CASE Cardinality(DOMAIN neighborCache') <= MaxSize
  <2>1. ~ (Cardinality(DOMAIN neighborCache') > MaxSize)
    BY <1>4, <1>5, BoundAssumption
  <2> QED
    BY <2>1 DEF Bounded
<1>6. CASE ~ (Cardinality(DOMAIN neighborCache') <= MaxSize)
  <2>1. ~ (Cardinality(DOMAIN filled) <= MaxSize)
    BY <1>4, <1>6, BoundAssumption
  <2>2. Cardinality(E) # surplus
    BY <1>4, <1>6, BoundAssumption
  <2>3. \E i \in items \ E : /\ Blocked(filled[i.node])
                             /\ \A j \in items \ E : i.time <= j.time
    BY <2>1, <2>2 DEF Evictions
  <2>4. PICK i \in items \ E : /\ Blocked(filled[i.node])
                               /\ \A j \in items \ E : i.time <= j.time
    BY <2>3
  <2>5. neighborCache'[i.node] = filled[i.node]
    BY <1>2, <1>3 DEF AgreeOn
  <2>6. i \in Oldest(neighborCacheExpireMap')
    BY <1>1, <2>4 DEF Oldest
  <2> QED
    BY <2>4, <2>5, <2>6 DEF Bounded, Blocked, Oldest
<1> QED
  BY <1>5, <1>6

\* Every step in which the cache grows is such an insertion.
LEMMA GrowthIsBounded ==
    ASSUME IInv, [Next]_vars, DOMAIN neighborCache' # DOMAIN neighborCache
    PROVE  Bounded'
<1>1. /\ now \in Time
      /\ \A q \in DOMAIN pings : pings[q].node \in Addr
      /\ Node \subseteq Addr
  BY DEF IInv, TypeOK, Ping, Addr
<1>2. \E a \in Addr, state \in {"VALID", "UNKNOWN", "TIMEOUT", "WAITING"}, W \in SUBSET Query :
         ~ Known(a) /\ Insert(a, NewEntry(state, W)) /\ now' = now
  <2>1. ASSUME NEW a, neighborCache' = Looked(a)
        PROVE  FALSE
    BY <2>1 DEF Looked
  <2>2. ASSUME NEW q \in Query, GetProx(q)
        PROVE  \E a \in Node : \/ GetProxMiss(q, a) \/ QueryProxNew(q, a)
    BY <2>1, <2>2 DEF GetProx, GetProxSelf, GetProxHit, GetProxAgain, Renewed, GetProxJoin,
                      QueryProxKnown
  <2>3. CASE \E q \in Query, a \in Node : GetProxMiss(q, a) \/ QueryProxNew(q, a)
    BY <1>1, <2>3 DEF GetProxMiss, QueryProxNew
  <2>4. ASSUME NEW a \in Addr, NEW b \in BOOLEAN,
               UpdateNode(a, b) \/ SetNodeTimeout(a), now' = now
        PROVE  \E c \in Addr, state \in {"VALID", "UNKNOWN", "TIMEOUT", "WAITING"}, W \in SUBSET Query :
                  ~ Known(c) /\ Insert(c, NewEntry(state, W)) /\ now' = now
    <3>1. ~ Known(a) /\ (Insert(a, NewEntry("VALID", {})) \/ Insert(a, NewEntry("TIMEOUT", {})))
      BY <2>4 DEF UpdateNode, SetNodeTimeout, Reported
    <3> QED
      BY <2>4, <3>1
  <2>5. CASE \E q \in Query : PingResponse(q) \/ PingTimeout(q)
    <3>1. PICK q \in Query : PingResponse(q) \/ PingTimeout(q)
      BY <2>5
    <3>2. /\ pings[q].node \in Addr /\ now' = now
          /\ UpdateNode(pings[q].node, FALSE) \/ SetNodeTimeout(pings[q].node)
      BY <1>1, <3>1 DEF PingResponse, PingTimeout
    <3> QED
      BY <2>4, <3>2
  <2>6. CASE \E a \in Addr : RpcResponse(a) \/ (a \in Node /\ RpcTimeout(a))
    <3>1. PICK a \in Addr : RpcResponse(a) \/ (a \in Node /\ RpcTimeout(a))
      BY <2>6
    <3>2. /\ now' = now
          /\ UpdateNode(a, a = Self) \/ SetNodeTimeout(a)
      BY <3>1 DEF RpcResponse, RpcTimeout
    <3> QED
      BY <2>4, <3>2
  <2>7. CASE (\E a \in Node : GetProxImmediate(a)) \/ (\E c \in calling : ProxCallback(c))
             \/ Tick \/ UNCHANGED vars
    BY <2>1, <2>7 DEF GetProxImmediate, ProxCallback, Tick, vars
  <2> QED
    BY <1>1, <2>2, <2>3, <2>5, <2>6, <2>7 DEF Next
<1>3. PICK a \in Addr, state \in {"VALID", "UNKNOWN", "TIMEOUT", "WAITING"}, W \in SUBSET Query :
         ~ Known(a) /\ Insert(a, NewEntry(state, W)) /\ now' = now
  BY <1>2
<1> DEFINE e == NewEntry(state, W)
<1>4. e \in Entry /\ e.insertTime = now
  BY <1>1 DEF NewEntry, Entry
<1>5. Insert(a, e)
  BY <1>3
<1> HIDE DEF e
<1> QED
  BY <1>3, <1>4, <1>5, InsertIsBounded
-------------------------------------------------------------------------------
(***************************************************************************)
(* The theorems.                                                           *)
(***************************************************************************)
\* IInv holds in every reachable state.
THEOREM Invariance == Spec => []IInv
<1> QED
  BY InitInv, NextInv, PTL DEF Spec

\* Type correctness, for any number of nodes and queries.
THEOREM TypeCorrect == Spec => []TypeOK
<1>1. IInv => TypeOK
  BY DEF IInv
<1> QED
  BY <1>1, Invariance, PTL

\* The search of updateEntry, which has no end but the node's item, finds it.
THEOREM SearchesEnd == Spec => []ExpireMapAgrees
<1>1. IInv => ExpireMapAgrees
  BY DEF IInv
<1> QED
  BY <1>1, Invariance, PTL

\* No listener of an enabled cache is forgotten or told twice.
THEOREM NobodyForgotten == Spec => []EnabledKeepsWaiters
<1>1. IInv => EnabledKeepsWaiters
  BY DEF IInv
<1> QED
  BY <1>1, Invariance, PTL

\* insertNodeContext never throws, and an entry that waits is being pinged.
THEOREM WaitingHasPing == Spec => []WaitingIsPinged
<1>1. IInv => WaitingIsPinged
  BY DEF IInv
<1> QED
  BY <1>1, Invariance, PTL

\* The cache grows beyond maxSize only while its oldest entry may not be evicted.
THEOREM GrowthBounded == Spec => GrowsWithinBounds
<1> DEFINE Growth == Cardinality(DOMAIN neighborCache') > Cardinality(DOMAIN neighborCache)
                       /\ Cardinality(DOMAIN neighborCache') > MaxSize
                     => \E i \in Oldest(neighborCacheExpireMap') : Blocked(neighborCache[i.node])'
<1>1. IInv /\ [Next]_vars => [Growth]_vars
  <2> SUFFICES ASSUME IInv, [Next]_vars,
                      Cardinality(DOMAIN neighborCache') > Cardinality(DOMAIN neighborCache),
                      Cardinality(DOMAIN neighborCache') > MaxSize
               PROVE  \E i \in Oldest(neighborCacheExpireMap') : Blocked(neighborCache[i.node])'
    OBVIOUS
  <2>1. Cardinality(DOMAIN neighborCache) \in Nat
    BY FS_CardinalityType DEF IInv
  <2>2. DOMAIN neighborCache' # DOMAIN neighborCache
    BY <2>1
  <2> QED
    BY <2>2, GrowthIsBounded DEF Bounded, Oldest
<1>2. Spec => [][Growth]_vars
  BY <1>1, Invariance, PTL DEF Spec
<1> QED
  BY <1>2 DEF GrowsWithinBounds
================================================================================
