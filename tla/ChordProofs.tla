------------------------------ MODULE ChordProofs ------------------------------
(***************************************************************************)
(* The assertions of Chord's ring maintenance hold, without pings a node   *)
(* with a predecessor has a successor, successors only get closer, and no  *)
(* key has two responsible nodes while the arcs between nodes are apart,   *)
(* for any number of nodes and failures, any length of the successor lists *)
(* and any number of calls on their way.                                   *)
(***************************************************************************)
EXTENDS Chord, FiniteSetTheorems, WellFoundedInduction, TLAPS

(***************************************************************************)
(* The successor list.                                                     *)
(***************************************************************************)
\* Every set of keys has a least one.
LEMMA Least ==
    ASSUME NEW S \in SUBSET Nat, S # {}
    PROVE  \E x \in S : \A y \in S : x <= y
<1> DEFINE R == OpToRel(<, Nat)
<1>1. IsWellFoundedOn(R, Nat)
  BY NatLessThanWellFounded
<1>2. \A x, y \in Nat : x < y => <<x, y>> \in R
  BY DEF OpToRel
<1> HIDE DEF R
<1>3. PICK x \in S : \A y \in S : ~ (<<y, x>> \in R)
  BY <1>1, WFMin
<1>4. \A y \in S : ~ (y < x)
  BY <1>2, <1>3
<1>5. x \in Nat /\ \A y \in S : y \in Nat
  BY <1>3
<1>6. \A y \in S : x <= y
  BY <1>4, <1>5
<1> QED
  BY <1>3, <1>6

\* Some node of a set comes first on the way round the ring from n.
LEMMA Nearest ==
    ASSUME NEW n \in Node, NEW S \in SUBSET Node, S # {}
    PROVE  \E x \in S : \A y \in S \ {x} : Precedes(n, x, y)
<1> DEFINE T == {y \in S : n < y}
<1>1. S \subseteq Nat /\ n \in Nat
  BY NodeAssumption
<1>2. CASE T # {}
  <2>1. PICK x \in T : \A y \in T : x <= y
    BY <1>1, <1>2, Least
  <2>2. \A y \in S \ {x} : Precedes(n, x, y)
    BY <1>1, <2>1 DEF Precedes, IsBetween
  <2> QED
    BY <2>1, <2>2
<1>3. CASE T = {}
  <2>1. PICK x \in S : \A y \in S : x <= y
    BY <1>1, Least
  <2>2. \A y \in S : ~ (n < y)
    BY <1>3
  <2>3. \A y \in S \ {x} : Precedes(n, x, y)
    BY <1>1, <2>1, <2>2 DEF Precedes, IsBetween
  <2> QED
    BY <2>1, <2>3
<1> QED
  BY <1>2, <1>3

\* getSuccessor returns the nearest node of a list, and thisNode only if the list
\* holds no other.
LEMMA SuccessorIsNearest ==
    ASSUME NEW n \in Node, NEW l, l.nodes \in SUBSET Node, l.nodes # {}
    PROVE  /\ GetSuccessor(l, n) \in l.nodes
           /\ l.nodes # {n} => GetSuccessor(l, n) # n
<1> DEFINE x == GetSuccessor(l, n)
<1>1. x \in l.nodes /\ \A y \in l.nodes \ {x} : Precedes(n, x, y)
  BY Nearest DEF GetSuccessor
<1>2. \A y \in Node : ~ Precedes(n, n, y)
  BY NodeAssumption DEF Precedes, IsBetween
<1> QED
  BY <1>1, <1>2

\* Cutting a set to its first nodes keeps the nearest: what is left is not empty,
\* and not thisNode alone if there was another.
LEMMA FirstKeepsNearest ==
    ASSUME NEW n \in Node, NEW S \in SUBSET Node, S # {}, NEW k \in Nat \ {0}
    PROVE  /\ First(n, S, k) \in SUBSET S
           /\ First(n, S, k) # {}
           /\ S # {n} => First(n, S, k) # {n}
<1>1. PICK x \in S : \A y \in S \ {x} : Precedes(n, x, y)
  BY Nearest
<1>2. \A y \in Node : ~ Precedes(n, y, y) /\ ~ Precedes(n, n, y)
  BY NodeAssumption DEF Precedes, IsBetween
<1>3. \A y, z \in Node : Precedes(n, y, z) => ~ Precedes(n, z, y)
  BY NodeAssumption DEF Precedes, IsBetween
<1>4. {y \in S : Precedes(n, y, x)} = {}
  BY <1>1, <1>2, <1>3
<1>5. Cardinality({y \in S : Precedes(n, y, x)}) < k
  BY <1>4, FS_EmptySet
<1>6. x \in First(n, S, k)
  BY <1>5 DEF First
<1>7. S # {n} => x # n
  BY <1>1, <1>2
<1> QED
  BY <1>6, <1>7 DEF First

\* The order of a list is a strict total order.
LEMMA Order ==
    ASSUME NEW n \in Node, NEW x \in Node, NEW y \in Node
    PROVE  /\ ~ Precedes(n, x, x)
           /\ x # y => Precedes(n, x, y) \/ Precedes(n, y, x)
           /\ \A z \in Node : Precedes(n, z, x) /\ Precedes(n, x, y) => Precedes(n, z, y)
BY NodeAssumption DEF Precedes, IsBetween

\* The first k nodes are at most k: each has another number of nodes before it.
LEMMA FirstIsBounded ==
    ASSUME NEW n \in Node, NEW S \in SUBSET Node, NEW k \in Nat \ {0}
    PROVE  Cardinality(First(n, S, k)) <= k
<1> DEFINE F == First(n, S, k)
           Before(x) == {y \in S : Precedes(n, y, x)}
           f == [x \in F |-> Cardinality(Before(x))]
<1>1. IsFiniteSet(S)
  BY NodeAssumption, FS_Subset
<1>2. \A x \in F : x \in S /\ Cardinality(Before(x)) < k
  BY DEF First
<1>3. \A x \in S : IsFiniteSet(Before(x)) /\ Cardinality(Before(x)) \in Nat
  BY <1>1, FS_Subset, FS_CardinalityType
<1>4. IsFiniteSet(F) /\ Cardinality(F) \in Nat
  BY <1>1, <1>2, FS_Subset, FS_CardinalityType
<1>5. \A x, y \in S : Precedes(n, x, y) => Cardinality(Before(x)) # Cardinality(Before(y))
  <2> SUFFICES ASSUME NEW x \in S, NEW y \in S, Precedes(n, x, y)
               PROVE  Cardinality(Before(x)) # Cardinality(Before(y))
    OBVIOUS
  <2>1. Before(x) \subseteq Before(y)
    BY Order
  <2>2. x \in Before(y) /\ x \notin Before(x)
    BY Order
  <2>3. Before(x) # Before(y)
    BY <2>2
  <2> HIDE DEF Before
  <2> QED
    BY <1>3, <2>1, <2>3, FS_Subset
<1>6. SUFFICES ASSUME k < Cardinality(F)
               PROVE  FALSE
  BY <1>4
<1>7. f \in [F -> 0 .. k - 1]
  BY <1>2, <1>3
<1>8. IsFiniteSet(0 .. k - 1) /\ Cardinality(0 .. k - 1) = k
  BY FS_Interval
<1> HIDE DEF F
<1>9. PICK x \in F, y \in F : x # y /\ f[x] = f[y]
  <2> HIDE DEF f
  <2> QED
    BY <1>4, <1>6, <1>7, <1>8, FS_PigeonHole
<1>10. x \in S /\ y \in S /\ Cardinality(Before(x)) = Cardinality(Before(y))
  BY <1>2, <1>9
<1> QED
  BY <1>5, <1>9, <1>10, Order

\* addSuccessor leaves a list as it should be, and does not remove all other nodes.
LEMMA AddIsGood ==
    ASSUME NEW n \in Node, NEW l \in List, GoodList(l), NEW S \in SUBSET Node
    PROVE  /\ Add(l, n, S) \in List
           /\ GoodList(Add(l, n, S))
           /\ ~ IsEmpty(l, n) \/ S \ {n} # {} => ~ IsEmpty(Add(l, n, S), n)
<1> DEFINE T == l.nodes \cup S
           kept == First(n, T, SuccessorListSize)
<1>1. T \in SUBSET Node /\ T # {} /\ (~ IsEmpty(l, n) \/ S \ {n} # {} => T # {n})
  BY DEF List, GoodList, IsEmpty
<1> HIDE DEF T
<1>2. kept \in SUBSET T /\ kept # {} /\ (T # {n} => kept # {n})
  BY <1>1, SizeAssumption, FirstKeepsNearest
<1>3. Cardinality(kept) <= SuccessorListSize
  BY <1>1, SizeAssumption, FirstIsBounded
<1>4. Add(l, n, S) = [nodes |-> kept, fresh |-> (l.fresh \cup S) \cap kept]
  BY DEF Add, T
<1> HIDE DEF kept
<1> QED
  BY <1>1, <1>2, <1>3, <1>4 DEF List, GoodList, IsEmpty

\* updateList ends with the successor in the list, or a node nearer than it.
LEMMA UpdateIsGood ==
    ASSUME NEW n \in Node, NEW l \in List, GoodList(l),
           NEW m \in Node \ {n}, NEW S \in SUBSET Node
    PROVE  /\ UpdateList(l, n, m, S) \in List
           /\ GoodList(UpdateList(l, n, m, S))
           /\ ~ IsEmpty(UpdateList(l, n, m, S), n)
<1> DEFINE T == l.fresh \cup {m} \cup Beyond(n, m, S)
           kept == First(n, T, SuccessorListSize)
<1>1. T \in SUBSET Node /\ T # {} /\ T # {n}
  BY DEF List, Beyond
<1> HIDE DEF T
<1>2. kept \in SUBSET T /\ kept # {} /\ kept # {n}
  BY <1>1, SizeAssumption, FirstKeepsNearest
<1>3. Cardinality(kept) <= SuccessorListSize
  BY <1>1, SizeAssumption, FirstIsBounded
<1>4. UpdateList(l, n, m, S) = [nodes |-> kept, fresh |-> {}]
  BY DEF UpdateList, T
<1> HIDE DEF kept
<1> QED
  BY <1>1, <1>2, <1>3, <1>4 DEF List, GoodList, IsEmpty

\* initializeList and handleFailedNode.
LEMMA InitialIsGood ==
    ASSUME NEW n \in Node
    PROVE  Initial(n) \in List /\ GoodList(Initial(n))
BY SizeAssumption, FS_Singleton DEF Initial, List, GoodList

LEMMA FailedIsGood ==
    ASSUME NEW n \in Node, NEW l \in List, GoodList(l), NEW m \in Node
    PROVE  /\ HandleFailedNode(l, n, m) \in List
           /\ GoodList(HandleFailedNode(l, n, m))
<1>1. CASE l.nodes = {m}
  BY <1>1, InitialIsGood DEF HandleFailedNode
<1>2. CASE l.nodes # {m}
  <2>1. IsFiniteSet(l.nodes)
    BY NodeAssumption, FS_Subset DEF List
  <2>2. Cardinality(l.nodes \ {m}) <= Cardinality(l.nodes)
    BY <2>1, FS_Subset
  <2>3. Cardinality(l.nodes) \in Nat /\ Cardinality(l.nodes \ {m}) \in Nat
    BY <2>1, FS_Subset, FS_CardinalityType
  <2>4. Cardinality(l.nodes \ {m}) <= SuccessorListSize
    BY <2>2, <2>3, SizeAssumption DEF GoodList
  <2> QED
    BY <1>2, <2>4 DEF HandleFailedNode, List, GoodList
<1> QED
  BY <1>1, <1>2
-------------------------------------------------------------------------------
(***************************************************************************)
(* The invariant.  A step changes one node n, whose record becomes p, and  *)
(* adds calls to those on their way.                                       *)
(***************************************************************************)
\* What IInv says of a node's record.
GoodPeer(n, p) ==
    /\ p \in Peer
    /\ GoodList(p.list)
    /\ GoodPredecessor(n, p)
    /\ ~ checkPredecessor /\ p.state = "READY" /\ Empty(p, n) => p.predecessor = None

LEMMA PeerFacts ==
    ASSUME IInv, NEW n \in Node
    PROVE  GoodPeer(n, node[n])
BY DEF IInv, TypeOK, PeersGood, ReadyHasSuccessor, HasSuccessor, Ready, GoodPeer

LEMMA CallFacts ==
    ASSUME IInv, NEW c \in calls
    PROVE  /\ c \in Call /\ GoodCall(c)
           /\ c.from \in Node /\ c.nodes \in SUBSET Node /\ c.preNode \in Node \cup {None}
           /\ (c.type = "Join" /\ c.phase = "sent") \/ c.to \in Node
           /\ Busy(c) => ~ Quiet(node[c.from], c.from)
BY DEF IInv, TypeOK, CallsGood, GoodCall, Call, QuietNodesWait

\* All of IInv but the joins.
LEMMA StepInv ==
    ASSUME IInv, UNCHANGED checkPredecessor,
           NEW n \in Node, NEW p, GoodPeer(n, p), Set(n, p),
           NEW N \in SUBSET Call, calls' \subseteq calls \cup N,
           \A c \in N : GoodCall(c),
           \A c \in N : Busy(c) =>
               IF c.from = n THEN ~ Quiet(p, n) ELSE ~ Quiet(node[c.from], c.from),
           \/ ~ Quiet(p, n)
           \/ Quiet(node[n], n)
           \/ \A c \in calls' : c.from = n => ~ Busy(c)
    PROVE  TypeOK' /\ PeersGood' /\ ReadyHasSuccessor' /\ CallsGood' /\ QuietNodesWait'
<1>1. node \in [Node -> Peer] /\ calls \subseteq Call /\ checkPredecessor \in BOOLEAN
  BY DEF IInv, TypeOK
<1>2. node'[n] = p /\ \A m \in Node \ {n} : node'[m] = node[m]
  BY <1>1 DEF Set
<1>3. \A m \in Node : GoodPeer(m, node'[m])
  BY <1>2, PeerFacts
<1>4. node' \in [Node -> Peer]
  BY <1>1 DEF Set, GoodPeer
<1>5. calls' \subseteq Call
  BY <1>1
<1>6. TypeOK'
  BY <1>1, <1>3, <1>4, <1>5 DEF TypeOK, GoodPeer
<1>7. PeersGood' /\ ReadyHasSuccessor'
  BY <1>3 DEF PeersGood, ReadyHasSuccessor, HasSuccessor, Ready, GoodPeer
<1>8. CallsGood'
  BY CallFacts DEF CallsGood, GoodCall
<1>9. QuietNodesWait'
  <2> SUFFICES ASSUME NEW c \in calls', Busy(c)
               PROVE  ~ Quiet(node'[c.from], c.from)
    BY DEF QuietNodesWait, Quiet, Empty
  <2>1. c.from \in Node
    BY <1>5 DEF Call
  <2>2. CASE c \in calls
    BY <1>2, <2>1, <2>2, CallFacts
  <2>3. CASE c \in N
    BY <1>2, <2>1, <2>3
  <2> QED
    BY <2>2, <2>3
<1> QED
  BY <1>6, <1>7, <1>8, <1>9

\* The joins, in a step that sends no JoinCall.
LEMMA JoinsKept ==
    ASSUME IInv, NEW n \in Node, NEW p, Set(n, p),
           \A c \in calls' : c.type = "Join" => c \in calls,
           \/ p.state \in {"JOIN", "DEAD"} \/ p.state = node[n].state
           \/ \A c \in calls' : c.type = "Join" => c.from # n
    PROVE  JoinsOneByOne'
<1>1. node'[n] = p /\ \A m \in Node \ {n} : node'[m] = node[m]
  BY DEF IInv, TypeOK, Set
<1>2. \A c \in calls' : c.type = "Join" => c.from \in Node
  BY CallFacts
<1> QED
  BY <1>1, <1>2 DEF IInv, JoinsOneByOne

\* A step that sends at most a call c, which is no JoinCall.
LEMMA CallInv ==
    ASSUME IInv, UNCHANGED checkPredecessor,
           NEW n \in Node, NEW p, GoodPeer(n, p), Set(n, p),
           NEW c \in Call, calls' \subseteq calls \cup {c},
           GoodCall(c), c.type # "Join",
           Busy(c) => IF c.from = n THEN ~ Quiet(p, n) ELSE ~ Quiet(node[c.from], c.from),
           \/ ~ Quiet(p, n)
           \/ Quiet(node[n], n)
           \/ \A d \in calls' : d.from = n => ~ Busy(d),
           \/ p.state \in {"JOIN", "DEAD"} \/ p.state = node[n].state
           \/ \A d \in calls' : d.type = "Join" => d.from # n
    PROVE  IInv'
<1>1. PICK N \in SUBSET Call : N = {c}
  OBVIOUS
<1>2. TypeOK' /\ PeersGood' /\ ReadyHasSuccessor' /\ CallsGood' /\ QuietNodesWait'
  BY <1>1, StepInv
<1>3. JoinsOneByOne'
  BY JoinsKept
<1> QED
  BY <1>2, <1>3 DEF IInv

\* A step that sends nothing.
LEMMA SilentInv ==
    ASSUME IInv, UNCHANGED checkPredecessor,
           NEW n \in Node, NEW p, GoodPeer(n, p), Set(n, p), calls' \subseteq calls,
           \/ ~ Quiet(p, n)
           \/ Quiet(node[n], n)
           \/ \A d \in calls' : d.from = n => ~ Busy(d),
           \/ p.state \in {"JOIN", "DEAD"} \/ p.state = node[n].state
           \/ \A d \in calls' : d.type = "Join" => d.from # n
    PROVE  IInv'
<1>1. PICK N \in SUBSET Call : N = {}
  OBVIOUS
<1>2. TypeOK' /\ PeersGood' /\ ReadyHasSuccessor' /\ CallsGood' /\ QuietNodesWait'
  BY <1>1, StepInv
<1>3. JoinsOneByOne'
  BY JoinsKept
<1> QED
  BY <1>2, <1>3 DEF IInv

\* A step that changes no node.
LEMMA NodesKeptInv ==
    ASSUME IInv, UNCHANGED <<checkPredecessor, node>>, calls' \subseteq calls
    PROVE  IInv'
BY DEF IInv, TypeOK, PeersGood, GoodPredecessor, ReadyHasSuccessor, HasSuccessor, Ready,
       CallsGood, GoodCall, JoinsOneByOne, QuietNodesWait, Quiet, Empty
-------------------------------------------------------------------------------
(***************************************************************************)
(* The steps of nodes that joins, failures and timers make.                *)
(***************************************************************************)
LEMMA InitInv == Init => IInv
BY InitialIsGood, StabilizeAssumption, ConfigAssumption, NoneAssumption
   DEF Init, IInv, TypeOK, Peer, PeersGood, GoodPredecessor, ReadyHasSuccessor,
       HasSuccessor, Ready, CallsGood, JoinsOneByOne, QuietNodesWait

\* changeState(JOIN).
LEMMA EnterIsGood ==
    ASSUME NEW n \in Node, NEW p \in Peer, GoodList(p.list), p.predecessor = None
    PROVE  /\ GoodPeer(n, Enter(n, p))
           /\ Enter(n, p).state \in {"JOIN", "READY"}
           /\ Enter(n, p).list = p.list
<1> DEFINE joining == [p EXCEPT !.state = "JOIN"]
           ready == BecomeReady(joining)
<1>1. joining \in Peer /\ joining.state = "JOIN" /\ joining.list = p.list
      /\ joining.predecessor = None
  BY DEF Peer
<1>2. ready \in Peer /\ ready.state = "READY" /\ ready.list = p.list
      /\ ready.predecessor = None
  BY DEF Peer, BecomeReady
<1>3. Enter(n, p) \in {joining, ready}
  BY DEF Enter
<1> HIDE DEF joining, ready
<1> QED
  BY <1>1, <1>2, <1>3, NoneAssumption DEF GoodPeer, GoodPredecessor

LEMMA JoinOverlayIsGood ==
    ASSUME NEW n \in Node, NEW p \in Peer
    PROVE  /\ GoodPeer(n, JoinOverlay(n, p))
           /\ JoinOverlay(n, p).state \in {"JOIN", "READY"}
<1>1. [p EXCEPT !.predecessor = None, !.list = Initial(n)] \in Peer
  BY InitialIsGood DEF Peer
<1> QED
  BY <1>1, InitialIsGood, EnterIsGood DEF JoinOverlay, Peer

LEMMA CreateInv ==
    ASSUME IInv, NEW n \in Node, Create(n)
    PROVE  IInv'
<1> DEFINE p == JoinOverlay(n, node[n])
<1>1. GoodPeer(n, p)
  BY PeerFacts, JoinOverlayIsGood DEF GoodPeer
<1>2. Quiet(node[n], n)
  BY DEF Create, Quiet
<1>3. \A c \in calls' : c.type = "Join" => c.from # n
  BY DEF Create, IInv, JoinsOneByOne
<1>4. Set(n, p) /\ calls' \subseteq calls /\ UNCHANGED checkPredecessor
  BY DEF Create
<1> HIDE DEF p
<1> QED
  BY <1>1, <1>2, <1>3, <1>4, SilentInv

LEMMA FailInv ==
    ASSUME IInv, NEW n \in Node, Fail(n)
    PROVE  IInv'
<1> DEFINE p == [node[n] EXCEPT !.state = "DEAD", !.predecessor = None,
                                !.list = Initial(n), !.stabilizing = FALSE]
<1>1. node[n] \in Peer
  BY PeerFacts DEF GoodPeer
<1>2. p \in Peer /\ p.state = "DEAD" /\ p.predecessor = None /\ p.list = Initial(n)
  BY <1>1, InitialIsGood DEF Peer
<1>3. Set(n, p) /\ calls' \subseteq calls /\ UNCHANGED checkPredecessor
  BY DEF Fail
<1> HIDE DEF p
<1>4. GoodPeer(n, p) /\ ~ Quiet(p, n)
  BY <1>2, InitialIsGood, NoneAssumption DEF GoodPeer, GoodPredecessor, Quiet
<1> QED
  BY <1>2, <1>3, <1>4, SilentInv

LEMMA JoinTimerInv ==
    ASSUME IInv, NEW n \in Node, HandleJoinTimerExpired(n)
    PROVE  IInv'
<1> DEFINE c == NewCall("Join", n, None)
<1>1. node[n].state = "JOIN" /\ \A d \in calls : ~ (d.type = "Join" /\ d.from = n)
  BY DEF HandleJoinTimerExpired
<1>2. GoodPeer(n, node[n]) /\ node[n].predecessor = None /\ Quiet(node[n], n)
  BY <1>1, PeerFacts DEF GoodPeer, GoodPredecessor, Quiet
<1>3. CASE Set(n, Enter(n, node[n])) /\ UNCHANGED calls
  <2> DEFINE p == Enter(n, node[n])
  <2>1. GoodPeer(n, p)
    BY <1>2, EnterIsGood DEF GoodPeer
  <2>2. Set(n, p) /\ calls' = calls /\ UNCHANGED checkPredecessor
    BY <1>3 DEF HandleJoinTimerExpired
  <2> HIDE DEF p
  <2> QED
    BY <1>1, <1>2, <2>1, <2>2, SilentInv
<1>4. CASE UNCHANGED node /\ Send(c)
  <2>1. /\ c \in Call /\ c.type = "Join" /\ c.from = n
        /\ GoodCall(c) /\ ~ Busy(c)
    BY NoneAssumption DEF NewCall, Call, GoodCall, Busy
  <2>2. calls' = calls \cup {c} /\ Set(n, node[n]) /\ UNCHANGED checkPredecessor
    BY <1>4 DEF Send, HandleJoinTimerExpired, IInv, TypeOK, Set
  <2> HIDE DEF c
  <2>3. PICK N \in SUBSET Call : N = {c}
    BY <2>1
  <2>4. TypeOK' /\ PeersGood' /\ ReadyHasSuccessor' /\ CallsGood' /\ QuietNodesWait'
    BY <1>2, <2>1, <2>2, <2>3, StepInv
  <2>5. JoinsOneByOne'
    BY <1>1, <1>4, <2>1, <2>2 DEF IInv, JoinsOneByOne
  <2> QED
    BY <2>4, <2>5 DEF IInv
<1> QED
  BY <1>3, <1>4 DEF HandleJoinTimerExpired

LEMMA StabilizeTimerInv ==
    ASSUME IInv, NEW n \in Node, HandleStabilizeTimerExpired(n)
    PROVE  IInv'
<1> DEFINE p == node[n]
           forgetful == [p EXCEPT !.predecessor = None, !.missing = 0]
           given == IF GivesUp(p) THEN forgetful ELSE p
           counted == IF checkPredecessor THEN given
                      ELSE [given EXCEPT !.missing =
                               IF @ < StabilizeRetry THEN @ + 1 ELSE @]
           c == NewCall("Stabilize", n, Successor(n))
<1>1. GoodPeer(n, p)
  BY PeerFacts
<1>2. forgetful \in Peer /\ forgetful.predecessor = None
      /\ forgetful.state = p.state /\ forgetful.list = p.list
  <2>1. p \in Peer /\ 0 \in 0 .. StabilizeRetry
    BY <1>1, StabilizeAssumption DEF GoodPeer
  <2> HIDE DEF p
  <2> QED
    BY <2>1 DEF Peer
<1>3. given \in Peer /\ given.predecessor \in {None, p.predecessor}
      /\ given.state = p.state /\ given.list = p.list
  <2> HIDE DEF forgetful
  <2> QED
    BY <1>1, <1>2 DEF GoodPeer
<1>4. counted \in Peer /\ counted.predecessor = given.predecessor
      /\ counted.state = p.state /\ counted.list = p.list
  <2> HIDE DEF given
  <2> QED
    BY <1>3, StabilizeAssumption DEF Peer
<1> HIDE DEF forgetful
<1>5. GoodPeer(n, given) /\ GoodPeer(n, counted)
  <2> HIDE DEF given, counted
  <2> QED
    BY <1>1, <1>3, <1>4, NoneAssumption DEF GoodPeer, GoodPredecessor, Empty
<1>6. Quiet(given, n) => Quiet(p, n)
  BY <1>3 DEF Quiet, Empty
<1>7. CASE p.state # "READY"
  <2> DEFINE q == [p EXCEPT !.stabilizing = FALSE]
  <2>1. q \in Peer /\ q.predecessor = p.predecessor
        /\ q.state = p.state /\ q.list = p.list
    BY <1>1 DEF GoodPeer, Peer
  <2>2. Set(n, q) /\ calls' \subseteq calls /\ UNCHANGED checkPredecessor
    BY <1>7 DEF HandleStabilizeTimerExpired
  <2> HIDE DEF q
  <2>3. GoodPeer(n, q) /\ (Quiet(q, n) => Quiet(p, n))
    BY <1>1, <2>1 DEF GoodPeer, GoodPredecessor, Quiet, Empty
  <2> QED
    BY <2>1, <2>2, <2>3, SilentInv
<1>8. CASE p.state = "READY" /\ ~ Stabilizes(p, n)
  <2>1. Set(n, given) /\ calls' \subseteq calls /\ UNCHANGED checkPredecessor
    BY <1>8 DEF HandleStabilizeTimerExpired, forgetful
  <2> HIDE DEF given
  <2> QED
    BY <1>3, <1>5, <1>6, <2>1, SilentInv
<1>9. CASE p.state = "READY" /\ Stabilizes(p, n)
  <2>1. Set(n, counted) /\ Send(c) /\ UNCHANGED checkPredecessor
    BY <1>9 DEF HandleStabilizeTimerExpired, forgetful
  <2>2. Successor(n) \in Node \ {n}
    BY <1>1, <1>9, SuccessorIsNearest
       DEF Successor, Stabilizes, Empty, IsEmpty, GoodPeer, GoodList, Peer, List
  <2>3. /\ c \in Call /\ c.type = "Stabilize" /\ c.from = n
        /\ GoodCall(c)
    BY <2>2 DEF NewCall, Call, GoodCall
  <2>4. ~ Quiet(counted, n)
    BY <1>4, <1>9 DEF Quiet, Stabilizes, Empty
  <2>5. calls' = calls \cup {c}
    BY <2>1 DEF Send
  <2> HIDE DEF c, counted
  <2> QED
    BY <1>4, <1>5, <2>1, <2>3, <2>4, <2>5, CallInv
<1> QED
  BY <1>7, <1>8, <1>9

LEMMA PingTimerInv ==
    ASSUME IInv, NEW n \in Node, CheckPredecessorTimer(n)
    PROVE  IInv'
<1> DEFINE c == NewCall("Ping", n, node[n].predecessor)
<1>1. node[n].predecessor \in Node \ {n} /\ GoodPeer(n, node[n])
  BY PeerFacts DEF CheckPredecessorTimer, GoodPeer, GoodPredecessor, Peer
<1>2. c \in Call /\ c.type = "Ping" /\ GoodCall(c) /\ ~ Busy(c)
  BY <1>1 DEF CheckPredecessorTimer, NewCall, Call, GoodCall, Busy
<1>3. calls' = calls \cup {c} /\ UNCHANGED checkPredecessor /\ Set(n, node[n])
  BY DEF CheckPredecessorTimer, Send, Set, IInv, TypeOK
<1> HIDE DEF c
<1>4. \/ ~ Quiet(node[n], n) \/ Quiet(node[n], n)
  OBVIOUS
<1> QED
  BY <1>1, <1>2, <1>3, CallInv
-------------------------------------------------------------------------------
(***************************************************************************)
(* The steps that messages and timeouts make.                              *)
(***************************************************************************)
\* The records that differ from p in the list, the predecessor or what the node
\* has heard.  Such a change to a node that is READY leaves it good.
LEMMA ChangeIsGood ==
    ASSUME NEW n \in Node, NEW p, GoodPeer(n, p), NEW q \in Peer,
           q.state = p.state, GoodList(q.list),
           Empty(q, n) => Empty(p, n) /\ q.predecessor = p.predecessor,
           q.predecessor # n,
           q.predecessor = p.predecessor \/ p.state = "READY"
    PROVE  GoodPeer(n, q) /\ (Quiet(q, n) => Quiet(p, n))
BY DEF GoodPeer, GoodPredecessor, Quiet

\* Whoever this node is responsible for is not its predecessor.
LEMMA ResponsibleFor ==
    ASSUME IInv, NEW n \in Node, NEW m \in Node \ {n}, IsSiblingFor(n, m)
    PROVE  node[n].state = "READY" /\ node[n].predecessor # m
<1>1. node[n].predecessor \in Node \cup {None} /\ node[n].predecessor # n
  BY PeerFacts DEF GoodPeer, GoodPredecessor, Peer
<1> QED
  BY <1>1, NodeAssumption, NoneAssumption DEF IsSiblingFor, IsBetweenR

LEMMA RpcJoinInv ==
    ASSUME IInv, NEW c \in calls, NEW n \in Node, RpcJoin(c, n)
    PROVE  IInv'
<1> DEFINE p == node[n]
           alone == p.predecessor = None /\ Empty(p, n)
           pre == IF alone THEN n ELSE p.predecessor
           list == IF Empty(p, n) THEN Add(p.list, n, {c.from}) ELSE p.list
           q == [p EXCEPT !.predecessor = c.from, !.list = list]
           hint == Hint(n, p.predecessor, c.from)
           hints == IF p.predecessor = None THEN {} ELSE {hint}
           a == Answered(c, n, Sent(p.list, n), pre)
<1>1. c \in Call /\ c.type = "Join" /\ c.phase = "sent" /\ c.from \in Node
      /\ node[c.from].state \in {"JOIN", "DEAD"}
      /\ \A d \in calls : d.type = "Join" /\ d.from = c.from => d = c
  BY CallFacts DEF RpcJoin, IInv, JoinsOneByOne
<1>2. c.from # n
  BY <1>1 DEF RpcJoin, IsSiblingFor
<1>3. p.state = "READY" /\ p.predecessor # c.from
  BY <1>1, <1>2, ResponsibleFor DEF RpcJoin
<1>4. GoodPeer(n, p) /\ p \in Peer /\ p.list \in List /\ GoodList(p.list)
      /\ p.predecessor \in Node \cup {None} /\ p.predecessor # n
  BY PeerFacts DEF GoodPeer, GoodPredecessor, Peer
<1>5. list \in List /\ GoodList(list) /\ ~ IsEmpty(list, n)
  BY <1>1, <1>2, <1>4, AddIsGood DEF Empty
<1>6. q \in Peer /\ q.state = "READY" /\ q.predecessor = c.from /\ q.list = list
  <2> HIDE DEF list
  <2> QED
    BY <1>1, <1>3, <1>4, <1>5 DEF Peer
<1>7. Set(n, q) /\ UNCHANGED checkPredecessor
      /\ calls' \subseteq (calls \ {c}) \cup hints \cup {a}
  BY DEF RpcJoin, Answer
<1>8. p.predecessor # None =>
        hint \in Call /\ GoodCall(hint) /\ hint.type = "Hint" /\ ~ Busy(hint)
  BY <1>1, <1>4 DEF Hint, NewCall, Call, GoodCall, Busy
<1>9. pre \in Node \cup {None} /\ pre # c.from
  BY <1>2, <1>3, <1>4
<1>10. Sent(p.list, n) \in SUBSET Node
  BY <1>4 DEF Sent, First, List
<1> HIDE DEF list, hint, pre
<1>11. a \in Call /\ a.type = "Join" /\ a.from = c.from /\ GoodCall(a) /\ ~ Busy(a)
  BY <1>1, <1>2, <1>9, <1>10 DEF Answered, Call, GoodCall, Busy
<1> HIDE DEF q, a
<1>12. GoodPeer(n, q) /\ ~ Quiet(q, n)
  BY <1>2, <1>5, <1>6 DEF GoodPeer, GoodPredecessor, Quiet, Empty
<1>13. PICK N \in SUBSET Call : N = hints \cup {a}
  BY <1>8, <1>11
<1>14. TypeOK' /\ PeersGood' /\ ReadyHasSuccessor' /\ CallsGood' /\ QuietNodesWait'
  <2>1. \A d \in N : GoodCall(d) /\ ~ Busy(d)
    BY <1>8, <1>11, <1>13
  <2>2. calls' \subseteq calls \cup N
    BY <1>7, <1>13
  <2> QED
    BY <1>7, <1>12, <2>1, <2>2, StepInv
<1>15. JoinsOneByOne'
  <2>1. node'[n] = q /\ \A m \in Node \ {n} : node'[m] = node[m]
    BY <1>7 DEF Set, IInv, TypeOK
  <2>2. \A d \in calls' : d.type = "Join" => d \in calls \ {c} \/ d = a
    BY <1>7, <1>8
  <2>3. \A d \in calls : d.type = "Join" => d.from \in Node \ {n}
    BY <1>3, CallFacts DEF IInv, JoinsOneByOne
  <2>4. \A d \in calls \ {c} : d.type = "Join" => d.from # c.from
    BY <1>1
  <2> QED
    BY <1>1, <1>2, <1>11, <2>1, <2>2, <2>3, <2>4 DEF IInv, JoinsOneByOne
<1> QED
  BY <1>14, <1>15 DEF IInv

LEMMA JoinResponseInv ==
    ASSUME IInv, NEW c \in calls, HandleRpcJoinResponse(c)
    PROVE  IInv'
<1> DEFINE n == c.from
           p == node[n]
           list == Add(p.list, n, c.nodes \cup {c.to})
           pre == IF c.preNode = None THEN p.predecessor ELSE c.preNode
           r == [p EXCEPT !.list = list, !.predecessor = pre]
           q == BecomeReady(r)
<1>1. c.type = "Join" /\ c.phase = "answered" /\ c.to \in Node \ {n} /\ n \in Node
      /\ c.nodes \in SUBSET Node /\ c.preNode \in Node \cup {None} /\ c.preNode # n
  BY CallFacts DEF HandleRpcJoinResponse, GoodCall
<1>2. GoodPeer(n, p) /\ p \in Peer /\ p.list \in List /\ GoodList(p.list)
      /\ p.predecessor \in Node \cup {None} /\ p.predecessor # n
  BY <1>1, PeerFacts DEF GoodPeer, GoodPredecessor, Peer
<1>3. list \in List /\ GoodList(list) /\ ~ IsEmpty(list, n)
  BY <1>1, <1>2, AddIsGood
<1>4. pre \in Node \cup {None} /\ pre # n
  BY <1>1, <1>2
<1>5. Set(n, q) /\ UNCHANGED checkPredecessor /\ calls' = calls \ {c}
  BY DEF HandleRpcJoinResponse
<1> HIDE DEF list, pre, n, p
<1>6. r \in Peer /\ r.predecessor = pre /\ r.list = list
  BY <1>2, <1>3, <1>4 DEF Peer
<1> HIDE DEF r
<1>7. q \in Peer /\ q.state = "READY" /\ q.predecessor = pre /\ q.list = list
  BY <1>6 DEF BecomeReady, Peer
<1> HIDE DEF q
<1>8. GoodPeer(n, q) /\ ~ Quiet(q, n)
  BY <1>3, <1>4, <1>7 DEF GoodPeer, GoodPredecessor, Quiet, Empty
<1>9. \A d \in calls' : d.type = "Join" => d.from # n
  BY <1>1, <1>5 DEF IInv, JoinsOneByOne, n
<1> QED
  BY <1>1, <1>5, <1>8, <1>9, SilentInv

LEMMA HintInv ==
    ASSUME IInv, NEW c \in calls, HandleNewSuccessorHint(c)
    PROVE  IInv'
<1> DEFINE n == c.to
           p == node[n]
           list == Add(p.list, n, {c.preNode})
           taken == [p EXCEPT !.list = list]
           q == IF Alive(n) /\ Closer(p, n, c.preNode) THEN taken ELSE p
<1>1. n \in Node /\ c.preNode \in Node
  BY CallFacts DEF HandleNewSuccessorHint, GoodCall
<1>2. GoodPeer(n, p) /\ p \in Peer /\ p.list \in List /\ GoodList(p.list)
      /\ p.predecessor # n
  BY <1>1, PeerFacts DEF GoodPeer, GoodPredecessor, Peer
<1>3. list \in List /\ GoodList(list) /\ (~ IsEmpty(p.list, n) => ~ IsEmpty(list, n))
  BY <1>1, <1>2, AddIsGood
<1>4. Set(n, q) /\ UNCHANGED checkPredecessor /\ calls' = calls \ {c}
  BY DEF HandleNewSuccessorHint
<1>5. taken \in Peer /\ taken.list = list
      /\ taken.predecessor = p.predecessor /\ taken.state = p.state
  <2> HIDE DEF list, p
  <2> QED
    BY <1>2, <1>3 DEF Peer
<1>6. GoodPeer(n, taken) /\ (Quiet(taken, n) => Quiet(p, n))
  <2> HIDE DEF taken, list, p, n
  <2> QED
    BY <1>1, <1>2, <1>3, <1>5, ChangeIsGood DEF Empty
<1>7. GoodPeer(n, q) /\ (Quiet(q, n) => Quiet(p, n)) /\ q.state = p.state
  <2> HIDE DEF taken, p
  <2> QED
    BY <1>2, <1>5, <1>6
<1> HIDE DEF q
<1> QED
  BY <1>1, <1>4, <1>7, SilentInv

LEMMA DroppedInv ==
    ASSUME IInv, NEW c \in calls, Dropped(c)
    PROVE  IInv'
<1> DEFINE d == [c EXCEPT !.phase = "dropped"]
<1>1. c \in Call /\ c.from \in Node /\ GoodCall(c) /\ c.type \in {"Stabilize", "Notify"}
  BY CallFacts DEF Dropped
<1>2. d \in Call /\ d.type # "Join" /\ GoodCall(d) /\ ~ Busy(d)
  BY <1>1 DEF Call, GoodCall, Busy
<1>3. calls' \subseteq calls \cup {d} /\ UNCHANGED checkPredecessor
      /\ Set(c.from, node[c.from])
  BY DEF Dropped, Set, IInv, TypeOK
<1> HIDE DEF d
<1>4. GoodPeer(c.from, node[c.from])
  BY <1>1, PeerFacts
<1> QED
  BY <1>1, <1>2, <1>3, <1>4, CallInv

LEMMA HeardIsGood ==
    ASSUME NEW p \in Peer, NEW m
    PROVE  /\ Heard(p, m) \in Peer
           /\ Heard(p, m).state = p.state /\ Heard(p, m).list = p.list
           /\ Heard(p, m).predecessor = p.predecessor
BY StabilizeAssumption DEF Heard, Peer

LEMMA RpcStabilizeInv ==
    ASSUME IInv, NEW c \in calls, RpcStabilize(c)
    PROVE  IInv'
<1> DEFINE n == c.to
           p == node[n]
           q == Heard(p, c.from)
           a == Answered(c, n, {}, p.predecessor)
<1>1. /\ c \in Call /\ c.from \in Node /\ n \in Node /\ c.from # n
      /\ c.type = "Stabilize" /\ Busy(c)
      /\ ~ Quiet(node[c.from], c.from)
  BY CallFacts DEF RpcStabilize, GoodCall, Busy
<1>2. GoodPeer(n, p) /\ p \in Peer /\ p.predecessor \in Node \cup {None}
      /\ p.predecessor # n /\ GoodList(p.list)
  BY <1>1, PeerFacts DEF GoodPeer, GoodPredecessor, Peer
<1>3. Set(n, q) /\ UNCHANGED checkPredecessor /\ calls' \subseteq calls \cup {a}
  BY DEF RpcStabilize, Answer
<1>4. a \in Call /\ a.type = "Stabilize" /\ a.from = c.from /\ GoodCall(a)
  <2> HIDE DEF p
  <2> QED
    BY <1>1, <1>2 DEF Answered, Call, GoodCall
<1> HIDE DEF n, p
<1>5. q \in Peer /\ q.state = p.state /\ q.list = p.list /\ q.predecessor = p.predecessor
  BY <1>2, HeardIsGood
<1> HIDE DEF q, a
<1>6. GoodPeer(n, q) /\ (Quiet(q, n) => Quiet(p, n))
  BY <1>1, <1>2, <1>5, ChangeIsGood DEF Empty
<1> QED
  BY <1>1, <1>3, <1>4, <1>5, <1>6, CallInv DEF n, p

\* The successor's answer is followed by a NotifyCall to a node that is not this one:
\* an answer never meets an empty list.
LEMMA StabilizeResponseInv ==
    ASSUME IInv, NEW c \in calls, HandleRpcStabilizeResponse(c)
    PROVE  IInv'
<1> DEFINE n == c.from
           p == node[n]
           list == Add(p.list, n, Told(p, n, c))
           q == [p EXCEPT !.list = list]
           m == GetSuccessor(list, n)
           d == NewCall("Notify", n, m)
<1>1. n \in Node /\ c.to \in Node /\ c.preNode \in Node \cup {None}
      /\ ~ Quiet(p, n)
  BY CallFacts DEF HandleRpcStabilizeResponse, Busy
<1>2. GoodPeer(n, p) /\ p \in Peer /\ p.list \in List /\ GoodList(p.list)
      /\ p.predecessor # n
  BY <1>1, PeerFacts DEF GoodPeer, GoodPredecessor, Peer
<1>3. CASE ~ Ready(n)
  <2>1. UNCHANGED <<checkPredecessor, node>> /\ calls' \subseteq calls
    BY <1>3 DEF HandleRpcStabilizeResponse
  <2> QED
    BY <2>1, NodesKeptInv
<1>4. CASE Ready(n)
  <2>1. ~ IsEmpty(p.list, n)
    BY <1>1, <1>4 DEF Quiet, Ready, Empty
  <2>2. Told(p, n, c) \in SUBSET Node
    BY <1>1, <2>1 DEF Told, Empty
  <2>3. list \in List /\ GoodList(list) /\ ~ IsEmpty(list, n)
    BY <1>1, <1>2, <2>1, <2>2, AddIsGood
  <2>4. Set(n, q) /\ UNCHANGED checkPredecessor /\ calls' \subseteq calls \cup {d}
    BY <1>4 DEF HandleRpcStabilizeResponse
  <2> HIDE DEF list
  <2>5. m \in Node \ {n}
    BY <1>1, <2>3, SuccessorIsNearest DEF List, GoodList, IsEmpty
  <2> HIDE DEF m
  <2>6. d \in Call /\ d.type = "Notify" /\ d.from = n /\ GoodCall(d)
    BY <1>1, <2>5, NoneAssumption DEF NewCall, Call, GoodCall
  <2>7. q \in Peer /\ q.list = list
        /\ q.state = p.state /\ q.predecessor = p.predecessor
    <3> HIDE DEF p
    <3> QED
      BY <1>2, <2>3 DEF Peer
  <2> HIDE DEF q, d, n
  <2>8. GoodPeer(n, q) /\ ~ Quiet(q, n)
    <3> HIDE DEF p
    <3> QED
      BY <1>1, <1>2, <2>1, <2>3, <2>7, ChangeIsGood DEF Empty
  <2> QED
    BY <1>1, <2>4, <2>6, <2>7, <2>8, CallInv
<1> QED
  BY <1>3, <1>4

LEMMA RpcNotifyInv ==
    ASSUME IInv, NEW c \in calls, RpcNotify(c)
    PROVE  IInv'
<1> DEFINE n == c.to
           o == node[n]
           p == Heard(o, c.from)
           list == IF Empty(p, n) THEN Add(p.list, n, {c.from}) ELSE p.list
           accepted == [p EXCEPT !.predecessor = c.from, !.list = list]
           q == IF Accepts(p, n, c.from) THEN accepted ELSE p
           a == Answered(c, n, Sent(q.list, n), None)
<1>1. /\ c \in Call /\ c.from \in Node /\ n \in Node /\ c.from # n
      /\ c.type = "Notify" /\ Busy(c)
      /\ ~ Quiet(node[c.from], c.from)
  BY CallFacts DEF RpcNotify, GoodCall, Busy
<1>2. GoodPeer(n, o) /\ o \in Peer /\ o.list \in List /\ GoodList(o.list)
      /\ o.predecessor # n /\ o.state = "READY"
  BY <1>1, PeerFacts DEF GoodPeer, GoodPredecessor, Peer, RpcNotify, Ready
<1>3. Set(n, q) /\ UNCHANGED checkPredecessor /\ calls' \subseteq calls \cup {a}
  BY DEF RpcNotify, Answer
<1> HIDE DEF n, o
<1>4. p \in Peer /\ p.state = "READY" /\ p.list = o.list /\ p.predecessor = o.predecessor
  BY <1>2, HeardIsGood
<1> HIDE DEF p
<1>5. GoodPeer(n, p) /\ (Quiet(p, n) => Quiet(o, n))
  BY <1>1, <1>2, <1>4, ChangeIsGood DEF Empty
<1>6. list \in List /\ GoodList(list) /\ ~ IsEmpty(list, n)
  BY <1>1, <1>2, <1>4, AddIsGood DEF Empty
<1> HIDE DEF list
<1>7. accepted \in Peer /\ accepted.state = "READY"
      /\ accepted.predecessor = c.from /\ accepted.list = list
  BY <1>1, <1>4, <1>6 DEF Peer
<1> HIDE DEF accepted
<1>8. GoodPeer(n, accepted) /\ ~ Quiet(accepted, n)
  BY <1>1, <1>6, <1>7 DEF GoodPeer, GoodPredecessor, Quiet, Empty
<1>9. GoodPeer(n, q) /\ (Quiet(q, n) => Quiet(o, n)) /\ q.state = "READY"
      /\ q.list \in List
  BY <1>2, <1>4, <1>5, <1>6, <1>7, <1>8
<1> HIDE DEF q
<1>10. Sent(q.list, n) \in SUBSET Node
  BY <1>9 DEF Sent, First, List
<1>11. a \in Call /\ a.type = "Notify" /\ a.from = c.from /\ GoodCall(a)
  BY <1>1, <1>10 DEF Answered, Call, GoodCall
<1> HIDE DEF a
<1> QED
  BY <1>1, <1>2, <1>3, <1>9, <1>11, CallInv DEF n, o

LEMMA NotifyResponseInv ==
    ASSUME IInv, NEW c \in calls, HandleRpcNotifyResponse(c)
    PROVE  IInv'
<1> DEFINE n == c.from
           p == node[n]
           list == UpdateList(p.list, n, c.to, c.nodes)
           q == [p EXCEPT !.list = list]
<1>1. n \in Node /\ c.to \in Node \ {n} /\ c.nodes \in SUBSET Node
  BY CallFacts DEF HandleRpcNotifyResponse, GoodCall
<1>2. GoodPeer(n, p) /\ p \in Peer /\ p.list \in List /\ GoodList(p.list)
      /\ p.predecessor # n
  BY <1>1, PeerFacts DEF GoodPeer, GoodPredecessor, Peer
<1>3. CASE ~ (Ready(n) /\ Successor(n) = c.to)
  <2>1. UNCHANGED <<checkPredecessor, node>> /\ calls' \subseteq calls
    BY <1>3 DEF HandleRpcNotifyResponse
  <2> QED
    BY <2>1, NodesKeptInv
<1>4. CASE Ready(n) /\ Successor(n) = c.to
  <2>1. Set(n, q) /\ UNCHANGED checkPredecessor /\ calls' \subseteq calls
    BY <1>4 DEF HandleRpcNotifyResponse
  <2>2. list \in List /\ GoodList(list) /\ ~ IsEmpty(list, n)
    BY <1>1, <1>2, UpdateIsGood
  <2> HIDE DEF list
  <2>3. q \in Peer /\ q.list = list
        /\ q.state = p.state /\ q.predecessor = p.predecessor
    <3> HIDE DEF p
    <3> QED
      BY <1>2, <2>2 DEF Peer
  <2> HIDE DEF q, n
  <2>4. GoodPeer(n, q) /\ (Quiet(q, n) => Quiet(p, n))
    <3> HIDE DEF p
    <3> QED
      BY <1>1, <1>2, <2>2, <2>3, ChangeIsGood DEF Empty
  <2> QED
    BY <1>1, <2>1, <2>3, <2>4, SilentInv
<1> QED
  BY <1>3, <1>4

\* handleFailedNode, but for a READY node that may have no successor any more.
LEMMA HandleFailedIsGood ==
    ASSUME NEW n \in Node, NEW p, GoodPeer(n, p), NEW m \in Node
    PROVE  LET q == HandleFailed(n, p, m)
           IN  /\ q \in Peer /\ GoodList(q.list) /\ GoodPredecessor(n, q)
               /\ q.state = p.state
<1> DEFINE list == HandleFailedNode(p.list, n, m)
           pre == IF p.predecessor \in {m, GetSuccessor(p.list, n)} THEN None
                  ELSE p.predecessor
           last == p.state = "READY" /\ IsEmpty(list, n)
           timer == (p.stabilizing \/ m = GetSuccessor(p.list, n)) /\ ~ last
           q == [p EXCEPT !.predecessor = pre, !.list = list, !.stabilizing = timer]
<1>1. HandleFailed(n, p, m) = q
  BY DEF HandleFailed
<1>2. p \in Peer /\ p.list \in List /\ GoodList(p.list) /\ GoodPredecessor(n, p)
  BY DEF GoodPeer, Peer
<1>3. list \in List /\ GoodList(list)
  BY <1>2, FailedIsGood
<1>4. pre \in {None, p.predecessor} /\ timer \in BOOLEAN
  OBVIOUS
<1> HIDE DEF list, pre, timer
<1>5. q \in Peer /\ q.list = list /\ q.predecessor = pre /\ q.state = p.state
  BY <1>2, <1>3, <1>4 DEF Peer
<1> HIDE DEF q
<1> QED
  BY <1>1, <1>2, <1>3, <1>4, <1>5, NoneAssumption DEF GoodPredecessor

\* A timeout comes when its caller waits for nothing else from a successor.
LEMMA OverdueIsQuiet ==
    ASSUME NEW c \in calls, Overdue(c)
    PROVE  \A d \in calls : d.from = c.from => ~ Busy(d)
BY DEF Overdue, Busy

LEMMA RpcTimeoutInv ==
    ASSUME IInv, NEW c \in calls, HandleRpcTimeout(c)
    PROVE  IInv'
<1> DEFINE n == c.from
           p == node[n]
           q == HandleFailed(n, p, c.to)
           r == HandleTimeout(n, p, c.to)
<1>1. n \in Node /\ c.to \in Node
  BY CallFacts DEF HandleRpcTimeout
<1>2. GoodPeer(n, p)
  BY <1>1, PeerFacts
<1>3. Set(n, r) /\ UNCHANGED checkPredecessor /\ calls' \subseteq calls
      /\ \A d \in calls : d.from = n => ~ Busy(d)
  BY OverdueIsQuiet DEF HandleRpcTimeout
<1> HIDE DEF p
<1>4. q \in Peer /\ GoodList(q.list) /\ GoodPredecessor(n, q) /\ q.state = p.state
  BY <1>1, <1>2, HandleFailedIsGood
<1>5. r = IF q.state = "READY" /\ Empty(q, n) THEN JoinOverlay(n, q) ELSE q
  BY DEF HandleTimeout
<1> HIDE DEF q, r
<1>6. CASE q.state = "READY" /\ Empty(q, n)
  <2>1. GoodPeer(n, r)
    BY <1>1, <1>4, <1>5, <1>6, JoinOverlayIsGood
  <2>2. \A d \in calls' : d.type = "Join" => d.from # n
    BY <1>3, <1>4, <1>6 DEF IInv, JoinsOneByOne, p
  <2> QED
    BY <1>1, <1>3, <2>1, <2>2, SilentInv
<1>7. CASE ~ (q.state = "READY" /\ Empty(q, n))
  <2>1. GoodPeer(n, r) /\ r.state = p.state
    BY <1>4, <1>5, <1>7 DEF GoodPeer
  <2> QED
    BY <1>1, <1>3, <2>1, SilentInv DEF p
<1> QED
  BY <1>6, <1>7

\* pingTimeout, which happens only where nodes ping: a node that is left with a
\* predecessor and no successor is no exception to ReadyHasSuccessor.
LEMMA PingTimeoutInv ==
    ASSUME IInv, NEW c \in calls, PingTimeout(c)
    PROVE  IInv'
<1> DEFINE n == c.from
           p == node[n]
           q == HandleFailed(n, p, c.to)
<1>1. n \in Node /\ c.to \in Node /\ checkPredecessor
  BY CallFacts DEF PingTimeout, GoodCall
<1>2. GoodPeer(n, p)
  BY <1>1, PeerFacts
<1>3. Set(n, q) /\ UNCHANGED checkPredecessor /\ calls' \subseteq calls
      /\ \A d \in calls : d.from = n => ~ Busy(d)
  BY OverdueIsQuiet DEF PingTimeout
<1> HIDE DEF p
<1>4. q \in Peer /\ GoodList(q.list) /\ GoodPredecessor(n, q) /\ q.state = p.state
  BY <1>1, <1>2, HandleFailedIsGood
<1> HIDE DEF q
<1>5. GoodPeer(n, q)
  BY <1>1, <1>4 DEF GoodPeer
<1> QED
  BY <1>1, <1>3, <1>4, <1>5, SilentInv DEF p

LEMMA NextInv ==
    ASSUME IInv, [Next]_vars
    PROVE  IInv'
<1>1. CASE UNCHANGED vars
  BY <1>1, NodesKeptInv DEF vars
<1>2. ASSUME NEW n \in Node, Create(n) \/ Fail(n) \/ Timer(n)
      PROVE  IInv'
  BY <1>2, CreateInv, FailInv, JoinTimerInv, StabilizeTimerInv, PingTimerInv DEF Timer
<1>3. ASSUME NEW c \in calls, Handle(c)
      PROVE  IInv'
  <2>1. JoinTimeout(c) \/ PingResponse(c) => IInv'
    BY NodesKeptInv DEF JoinTimeout, PingResponse
  <2> QED
    BY <1>3, <2>1, RpcJoinInv, JoinResponseInv, HintInv, DroppedInv, RpcStabilizeInv,
       StabilizeResponseInv, RpcNotifyInv, NotifyResponseInv, RpcTimeoutInv,
       PingTimeoutInv DEF Handle
<1> QED
  BY <1>1, <1>2, <1>3 DEF Next
-------------------------------------------------------------------------------
(***************************************************************************)
(* Responsibility.  Besides IInv the arcs rest on what is known of a node  *)
(* that answers a JoinCall, and on nobody knowing a node that does not     *)
(* exist yet.                                                              *)
(***************************************************************************)
Created(m) == node[m].state # "OFF"

ArcInv ==
    /\ \A n \in Node : node[n].predecessor # None => Created(node[n].predecessor)
    /\ \A c \in calls :
        /\ c.preNode # None => Created(c.preNode)
        /\ c.type = "Ping" => Created(c.to)
        /\ JoinAnswered(c) => node[c.to].state \in {"READY", "DEAD"}

\* What is shown of every step.
StaysApart == ArcsApart /\ NoneFailed' => ArcsApart' \/ \E n \in Node : TakesAnother(n)

\* At most n changes.
Only(n) == \A m \in Node \ {n} : node'[m] = node[m]

LEMMA SetIsOnly ==
    ASSUME IInv, NEW n \in Node, NEW p, Set(n, p)
    PROVE  Only(n) /\ node'[n] = p
BY DEF IInv, TypeOK, Set, Only

\* The arc from a node between the two is part of the arc.
LEMMA ShorterArc ==
    ASSUME NEW n \in Node, NEW m \in Node, NEW k \in Node, NEW z \in Node,
           IsBetween(m, k, n), IsBetween(z, m, n)
    PROVE  IsBetween(z, k, n)
BY NodeAssumption DEF IsBetween

\* While the arcs are apart, they hold the keys of one node each.
LEMMA ApartIsOnce == IInv /\ ArcsApart => OneResponsible
<1> SUFFICES ASSUME IInv, ArcsApart, NEW key \in Node, NEW n \in Node, NEW m \in Node,
                    IsSiblingFor(n, key), IsSiblingFor(m, key), n # m
             PROVE  FALSE
  BY DEF OneResponsible
<1>1. Ready(n) /\ Ready(m) /\ Member(n) /\ Member(m)
  BY DEF IsSiblingFor, Ready, Member
<1>2. ~ Alone(n) /\ ~ Alone(m)
  BY <1>1 DEF ArcsApart
<1>3. /\ node[n].predecessor \in (Node \cup {None}) \ {n}
      /\ node[m].predecessor \in (Node \cup {None}) \ {m}
  BY PeerFacts DEF GoodPeer, GoodPredecessor, Peer
<1>4. node[n].predecessor # None => ~ IsBetween(m, node[n].predecessor, n)
  BY <1>1, <1>3 DEF ArcsApart, Follows
<1>5. node[m].predecessor # None => ~ IsBetween(n, node[m].predecessor, m)
  BY <1>1, <1>3 DEF ArcsApart, Follows
<1>6. node[n].predecessor = None => key = n
  BY <1>1, <1>2 DEF IsSiblingFor, Alone
<1>7. node[m].predecessor = None => key = m
  BY <1>1, <1>2 DEF IsSiblingFor, Alone
<1>8. node[n].predecessor # None => IsBetweenR(key, node[n].predecessor, n)
  BY DEF IsSiblingFor
<1>9. node[m].predecessor # None => IsBetweenR(key, node[m].predecessor, m)
  BY DEF IsSiblingFor
<1>10. Node \subseteq Nat
  BY NodeAssumption
<1>11. \A p \in Node : IsBetweenR(m, p, n) => p = m \/ IsBetween(m, p, n)
  BY <1>10 DEF IsBetween, IsBetweenR
<1>12. \A p \in Node : IsBetweenR(n, p, m) => p = n \/ IsBetween(n, p, m)
  BY <1>10 DEF IsBetween, IsBetweenR
<1>13. CASE node[n].predecessor # None /\ node[m].predecessor # None
  <2> DEFINE p == node[n].predecessor
             q == node[m].predecessor
  <2>1. p \in Nat /\ q \in Nat /\ n \in Nat /\ m \in Nat /\ key \in Nat /\ p # n /\ q # m
    BY <1>3, <1>10, <1>13
  <2>2. ~ IsBetween(m, p, n) /\ ~ IsBetween(n, q, m)
        /\ IsBetweenR(key, p, n) /\ IsBetweenR(key, q, m)
    BY <1>4, <1>5, <1>8, <1>9, <1>13
  <2> HIDE DEF p, q
  <2> QED
    BY <2>1, <2>2 DEF IsBetween, IsBetweenR
<1>14. ~ IsBetweenR(m, m, n) /\ ~ IsBetweenR(n, n, m)
  BY <1>10 DEF IsBetweenR
<1>15. CASE node[n].predecessor = None
  BY <1>3, <1>5, <1>6, <1>7, <1>9, <1>12, <1>14, <1>15
<1>16. CASE node[m].predecessor = None
  BY <1>3, <1>4, <1>6, <1>7, <1>8, <1>11, <1>14, <1>16
<1> QED
  BY <1>13, <1>15, <1>16

\* The part of ArcInv, for a step that changes at most n and sends at most N.
LEMMA ArcStep ==
    ASSUME IInv, IInv', ArcInv, NEW n \in Node, Only(n),
           Created(n) => node'[n].state # "OFF",
           \/ node'[n].predecessor \in {None, node[n].predecessor}
           \/ Created(node'[n].predecessor),
           \/ node[n].state \notin {"READY", "DEAD"}
           \/ node'[n].state \in {"READY", "DEAD"}
           \/ \A c \in calls' : JoinAnswered(c) => c.to # n,
           NEW N \in SUBSET Call, calls' \subseteq calls \cup N,
           \A c \in N : /\ c.preNode # None => Created(c.preNode)
                        /\ c.type = "Ping" => Created(c.to)
                        /\ JoinAnswered(c) => node[c.to].state = "READY"
    PROVE  ArcInv'
<1>1. \A m \in Node : Created(m) => node'[m].state # "OFF"
  BY DEF Only, Created
<1>2. \A m \in Node : node'[m].predecessor \in Node \cup {None}
  BY DEF IInv, TypeOK, Peer
<1>3. \A m \in Node : node'[m].predecessor # None => node'[node'[m].predecessor].state # "OFF"
  <2> TAKE m \in Node
  <2>1. node'[m].predecessor # None => Created(node'[m].predecessor)
    BY DEF Only, ArcInv
  <2> QED
    BY <1>1, <1>2, <2>1
<1>4. ASSUME NEW c \in calls'
      PROVE  /\ c.preNode # None => node'[c.preNode].state # "OFF"
             /\ c.type = "Ping" => node'[c.to].state # "OFF"
             /\ JoinAnswered(c) => node'[c.to].state \in {"READY", "DEAD"}
  <2>1. c \in Call /\ c.preNode \in Node \cup {None} /\ GoodCall(c)'
    BY <1>4 DEF IInv, TypeOK, Call, CallsGood
  <2>2. c.type = "Ping" \/ JoinAnswered(c) => c.to \in Node
    BY <2>1 DEF GoodCall, JoinAnswered
  <2>3. /\ c.preNode # None => Created(c.preNode)
        /\ c.type = "Ping" => Created(c.to)
        /\ JoinAnswered(c) => node[c.to].state \in {"READY", "DEAD"}
    BY DEF ArcInv
  <2>4. \/ node[n].state \notin {"READY", "DEAD"}
        \/ node'[n].state \in {"READY", "DEAD"}
        \/ JoinAnswered(c) => c.to # n
    OBVIOUS
  <2> QED
    BY <1>1, <2>1, <2>2, <2>3, <2>4 DEF Only
<1> QED
  BY <1>3, <1>4 DEF ArcInv, Created, JoinAnswered

\* A step after which there is no member, follower or lone node that there was not before.
LEMMA FewerArcs ==
    ASSUME ArcsApart,
           \A k \in Node : Member(k)' => Member(k),
           \A n, m \in Node : Follows(n, m)' => Follows(n, m),
           \A n \in Node : Alone(n)' => Alone(n)
    PROVE  ArcsApart'
BY DEF ArcsApart

\* A node that keeps its state, and its predecessor or loses it, without being alone
\* then, takes nothing from the others.
LEMMA KeepsApart ==
    ASSUME IInv, IInv', ArcInv, NEW n \in Node, Only(n),
           node'[n].state = node[n].state,
           node'[n].predecessor \in {None, node[n].predecessor},
           Alone(n)' => Alone(n),
           NEW N \in SUBSET Call, calls' \subseteq calls \cup N,
           \A c \in N : /\ c.preNode # None => Created(c.preNode)
                        /\ c.type = "Ping" => Created(c.to)
                        /\ ~ JoinAnswered(c)
    PROVE  ArcInv' /\ StaysApart
<1>1. ArcInv'
  BY ArcStep DEF Created
<1>2. \A c \in calls' : JoinAnswered(c) => c \in calls
  OBVIOUS
<1>3. \A k \in Node : Ready(k)' => Ready(k)
  BY DEF Ready, Only
<1>4. \A k \in Node : Member(k)' => Member(k)
  BY <1>2, <1>3 DEF Member, JoinAnswered
<1>5. \A m, k \in Node : Follows(m, k)' => Follows(m, k)
  <2> TAKE m \in Node, k \in Node
  <2>1. node'[m].predecessor = k => node[m].predecessor = k
    BY NoneAssumption DEF Only
  <2> QED
    BY <1>2, <1>3, <2>1 DEF Follows, JoinAnswered, Ready
<1>6. \A k \in Node : Alone(k)' => Alone(k)
  BY DEF Alone, Ready, Empty, Only
<1> QED
  BY <1>1, <1>4, <1>5, <1>6, FewerArcs DEF StaysApart

\* The same for a step that sends nothing, and one that sends c.
LEMMA KeepsApartSilent ==
    ASSUME IInv, IInv', ArcInv, NEW n \in Node, Only(n),
           node'[n].state = node[n].state,
           node'[n].predecessor \in {None, node[n].predecessor},
           Alone(n)' => Alone(n), calls' \subseteq calls
    PROVE  ArcInv' /\ StaysApart
<1>1. PICK N \in SUBSET Call : N = {}
  OBVIOUS
<1> QED
  BY <1>1, KeepsApart

LEMMA KeepsApartSending ==
    ASSUME IInv, IInv', ArcInv, NEW n \in Node, Only(n),
           node'[n].state = node[n].state,
           node'[n].predecessor \in {None, node[n].predecessor},
           Alone(n)' => Alone(n),
           NEW c \in Call, calls' \subseteq calls \cup {c},
           c.preNode # None => Created(c.preNode),
           c.type = "Ping" => Created(c.to),
           ~ JoinAnswered(c)
    PROVE  ArcInv' /\ StaysApart
<1>1. PICK N \in SUBSET Call : N = {c}
  OBVIOUS
<1> QED
  BY <1>1, KeepsApart

\* No node changes.
LEMMA NobodyMoves ==
    ASSUME IInv, IInv', ArcInv, UNCHANGED node, calls' \subseteq calls
    PROVE  ArcInv' /\ StaysApart
<1>1. ArcInv'
  BY DEF ArcInv, Created, JoinAnswered
<1>2. (\A k \in Node : Member(k)' => Member(k)) /\ (\A n \in Node : Alone(n)' => Alone(n))
  BY DEF Member, JoinAnswered, Alone, Ready, Empty
<1>3. \A n, m \in Node : Follows(n, m)' => Follows(n, m)
  BY DEF Follows, JoinAnswered, Ready
<1> QED
  BY <1>1, <1>2, <1>3, FewerArcs DEF StaysApart

\* changeState(JOIN), of a node whom no answer to a JoinCall concerns.
LEMMA EnterApart ==
    ASSUME IInv, IInv', ArcInv, NEW n \in Node, Only(n),
           NEW p \in Peer, p.predecessor = None, node'[n] = Enter(n, p),
           calls' \subseteq calls,
           \A c \in calls' : JoinAnswered(c) => c.from # n /\ c.to # n
    PROVE  ArcInv' /\ StaysApart
<1> DEFINE others == \E m \in Node \ {n} : Ready(m)
<1>1. /\ node'[n].predecessor = None
      /\ node'[n].state = IF others THEN "JOIN" ELSE "READY"
  BY DEF Enter, BecomeReady, Peer
<1> HIDE DEF others
<1>2. ArcInv'
  <2>1. PICK N \in SUBSET Call : N = {}
    OBVIOUS
  <2> QED
    BY <1>1, <2>1, ArcStep
<1>3. CASE others
  <2>1. \A k \in Node : Ready(k)' => Ready(k) /\ k # n
    BY <1>1, <1>3 DEF Ready, Only
  <2>2. \A k \in Node : Member(k)' => Member(k)
    BY <2>1 DEF Member, JoinAnswered
  <2>3. \A m, k \in Node : Follows(m, k)' => Follows(m, k)
    BY <2>1 DEF Follows, JoinAnswered, Only, Ready
  <2>4. \A k \in Node : Alone(k)' => Alone(k)
    BY <2>1 DEF Alone, Only, Ready, Empty
  <2> QED
    BY <1>2, <2>2, <2>3, <2>4, FewerArcs DEF StaysApart
<1>4. CASE ~ others
  <2> SUFFICES ASSUME NoneFailed'
               PROVE  ArcsApart'
    BY <1>2 DEF StaysApart
  <2>1. \A k \in Node : Ready(k)' => k = n
    BY <1>4 DEF Ready, Only, others
  <2>2. ~ \E c \in calls' : JoinAnswered(c)
    <3> SUFFICES ASSUME NEW c \in calls', JoinAnswered(c)
                 PROVE  FALSE
      OBVIOUS
    <3>1. c.to \in Node \ {n} /\ node[c.to].state \in {"READY", "DEAD"}
      BY CallFacts DEF JoinAnswered, ArcInv
    <3>2. node'[c.to] = node[c.to]
      BY <3>1 DEF Only
    <3> QED
      BY <1>4, <3>1, <3>2 DEF NoneFailed, Ready, others
  <2>3. \A k \in Node : Member(k)' => k = n
    BY <2>1, <2>2 DEF Member, JoinAnswered
  <2>4. \A m, k \in Node : ~ Follows(m, k)'
    BY <1>1, <2>1, <2>2, NoneAssumption DEF Follows, JoinAnswered, Ready
  <2>5. \A k \in Node : Alone(k)' => k = n
    BY <2>1 DEF Alone, Ready
  <2> QED
    BY <2>3, <2>4, <2>5 DEF ArcsApart
<1> QED
  BY <1>3, <1>4

LEMMA CreateApart ==
    ASSUME IInv, IInv', ArcInv, NEW n \in Node, Create(n)
    PROVE  ArcInv' /\ StaysApart
<1> DEFINE p == [node[n] EXCEPT !.predecessor = None, !.list = Initial(n)]
<1>1. node[n].state = "OFF" /\ node[n] \in Peer /\ calls' = calls
      /\ Set(n, JoinOverlay(n, node[n]))
  BY PeerFacts DEF Create, GoodPeer
<1>2. p \in Peer /\ p.predecessor = None
  BY <1>1, InitialIsGood DEF Peer
<1>3. Only(n) /\ node'[n] = Enter(n, p)
  BY <1>1, SetIsOnly DEF JoinOverlay
<1>4. \A c \in calls' : JoinAnswered(c) => c.from # n /\ c.to # n
  BY <1>1 DEF JoinAnswered, ArcInv, IInv, JoinsOneByOne
<1> HIDE DEF p
<1> QED
  BY <1>1, <1>2, <1>3, <1>4, EnterApart

LEMMA FailApart ==
    ASSUME IInv, IInv', ArcInv, NEW n \in Node, Fail(n)
    PROVE  ArcInv' /\ StaysApart
<1> DEFINE p == [node[n] EXCEPT !.state = "DEAD", !.predecessor = None,
                                !.list = Initial(n), !.stabilizing = FALSE]
<1>1. p.state = "DEAD" /\ p.predecessor = None
  BY PeerFacts DEF GoodPeer, Peer
<1>2. Set(n, p) /\ calls' \subseteq calls
  BY DEF Fail
<1> HIDE DEF p
<1>3. Only(n) /\ node'[n] = p
  BY <1>2, SetIsOnly
<1>4. PICK N \in SUBSET Call : N = {}
  OBVIOUS
<1>5. ArcInv'
  BY <1>1, <1>2, <1>4, <1>3, ArcStep
<1> QED
  BY <1>1, <1>5, <1>3 DEF StaysApart, NoneFailed

LEMMA JoinTimerApart ==
    ASSUME IInv, IInv', ArcInv, NEW n \in Node, HandleJoinTimerExpired(n)
    PROVE  ArcInv' /\ StaysApart
<1> DEFINE c == NewCall("Join", n, None)
<1>1. node[n].state = "JOIN" /\ \A d \in calls : ~ (d.type = "Join" /\ d.from = n)
  BY DEF HandleJoinTimerExpired
<1>2. node[n] \in Peer /\ node[n].predecessor = None
  BY <1>1, PeerFacts DEF GoodPeer, GoodPredecessor
<1>3. CASE Set(n, Enter(n, node[n])) /\ UNCHANGED calls
  <2>1. \A d \in calls' : JoinAnswered(d) => d.from # n /\ d.to # n
    BY <1>1, <1>3 DEF JoinAnswered, ArcInv
  <2> QED
    BY <1>2, <1>3, <2>1, SetIsOnly, EnterApart
<1>4. CASE UNCHANGED node /\ Send(c)
  <2>1. c \in Call /\ c.preNode = None /\ c.type # "Ping" /\ ~ JoinAnswered(c)
    BY NoneAssumption DEF NewCall, Call, JoinAnswered
  <2>2. calls' = calls \cup {c}
    BY <1>4 DEF Send
  <2>3. Only(n) /\ (Alone(n)' => Alone(n))
    BY <1>4 DEF Only, Alone, Ready, Empty
  <2> HIDE DEF c
  <2> QED
    BY <1>4, <2>1, <2>2, <2>3, KeepsApartSending
<1> QED
  BY <1>3, <1>4 DEF HandleJoinTimerExpired

LEMMA StabilizeTimerApart ==
    ASSUME IInv, IInv', ArcInv, NEW n \in Node, HandleStabilizeTimerExpired(n)
    PROVE  ArcInv' /\ StaysApart
<1> DEFINE p == node[n]
           forgetful == [p EXCEPT !.predecessor = None, !.missing = 0]
           given == IF GivesUp(p) THEN forgetful ELSE p
           c == NewCall("Stabilize", n, Successor(n))
<1>1. GoodPeer(n, p) /\ p \in Peer
  BY PeerFacts DEF GoodPeer
<1>2. given \in Peer /\ given.state = p.state /\ given.list = p.list
      /\ given.predecessor = IF GivesUp(p) THEN None ELSE p.predecessor
  <2> HIDE DEF p
  <2>1. 0 \in 0 .. StabilizeRetry
    BY StabilizeAssumption
  <2> QED
    BY <1>1, <2>1 DEF Peer
<1>3. GivesUp(p) => ~ checkPredecessor
  BY DEF GivesUp
<1>4. PICK q : /\ Set(n, q) /\ q.state = p.state /\ q.list = p.list
               /\ q.predecessor \in {p.predecessor, given.predecessor}
  <2>1. CASE p.state # "READY"
    <3>1. Set(n, [p EXCEPT !.stabilizing = FALSE])
      BY <2>1 DEF HandleStabilizeTimerExpired
    <3> QED
      BY <1>1, <3>1 DEF Peer
  <2>2. CASE p.state = "READY" /\ ~ Stabilizes(p, n)
    BY <1>2, <2>2 DEF HandleStabilizeTimerExpired
  <2>3. CASE p.state = "READY" /\ Stabilizes(p, n)
    <3> DEFINE counted == [given EXCEPT !.missing = IF @ < StabilizeRetry THEN @ + 1 ELSE @]
    <3>1. Set(n, given) \/ Set(n, counted)
      BY <2>3 DEF HandleStabilizeTimerExpired
    <3> HIDE DEF given
    <3>2. counted.state = given.state /\ counted.list = given.list
          /\ counted.predecessor = given.predecessor
      BY <1>2 DEF Peer
    <3> QED
      BY <1>2, <3>1, <3>2
  <2> QED
    BY <2>1, <2>2, <2>3
<1>5. Only(n) /\ node'[n] = q
  BY <1>4, SetIsOnly
<1> HIDE DEF given
<1>6. Alone(n)' => Alone(n)
  BY <1>1, <1>2, <1>3, <1>4, <1>5 DEF Alone, Ready, Empty, GoodPeer
<1>7. node'[n].state = node[n].state
      /\ node'[n].predecessor \in {None, node[n].predecessor}
  BY <1>2, <1>4, <1>5
<1>8. CASE calls' \subseteq calls
  BY <1>5, <1>6, <1>7, <1>8, KeepsApartSilent
<1>9. CASE ~ (calls' \subseteq calls)
  <2>1. calls' = calls \cup {c}
    BY <1>9 DEF HandleStabilizeTimerExpired, Send
  <2>2. c \in Call
    BY <1>9, <2>1 DEF IInv, TypeOK
  <2>3. c.preNode = None /\ c.type = "Stabilize" /\ ~ JoinAnswered(c)
    BY DEF NewCall, JoinAnswered
  <2> HIDE DEF c
  <2> QED
    BY <1>5, <1>6, <1>7, <2>1, <2>2, <2>3, KeepsApartSending
<1> QED
  BY <1>8, <1>9

LEMMA PingTimerApart ==
    ASSUME IInv, IInv', ArcInv, NEW n \in Node, CheckPredecessorTimer(n)
    PROVE  ArcInv' /\ StaysApart
<1> DEFINE c == NewCall("Ping", n, node[n].predecessor)
<1>1. calls' = calls \cup {c} /\ Only(n) /\ (Alone(n)' => Alone(n))
      /\ UNCHANGED node /\ node[n].predecessor # None
  BY DEF CheckPredecessorTimer, Send, Only, Alone, Ready, Empty
<1>2. c \in Call
  BY <1>1 DEF IInv, TypeOK
<1>3. c.preNode = None /\ c.type = "Ping" /\ c.to = node[n].predecessor /\ ~ JoinAnswered(c)
  BY DEF NewCall, JoinAnswered
<1>4. Created(c.to)
  BY <1>1, <1>3 DEF ArcInv
<1> HIDE DEF c
<1> QED
  BY <1>1, <1>2, <1>3, <1>4, KeepsApartSending

\* A node that is responsible for a joining one divides its arc with it.
LEMMA RpcJoinApart ==
    ASSUME IInv, IInv', ArcInv, NEW c \in calls, NEW n \in Node, RpcJoin(c, n)
    PROVE  ArcInv' /\ StaysApart
<1> DEFINE p == node[n]
           k == c.from
           alone == p.predecessor = None /\ Empty(p, n)
           pre == IF alone THEN n ELSE p.predecessor
           list == IF Empty(p, n) THEN Add(p.list, n, {c.from}) ELSE p.list
           q == [p EXCEPT !.predecessor = c.from, !.list = list]
           hint == Hint(n, p.predecessor, c.from)
           hints == IF p.predecessor = None THEN {} ELSE {hint}
           a == Answered(c, n, Sent(p.list, n), pre)
           answers == Answer(c, n, Sent(p.list, n), pre)
<1>1. c \in Call /\ c.type = "Join" /\ c.phase = "sent" /\ k \in Node
      /\ node[k].state \in {"JOIN", "DEAD"}
      /\ \A d \in calls : d.type = "Join" /\ d.from = k => d = c
  BY CallFacts DEF RpcJoin, IInv, JoinsOneByOne
<1>2. k # n /\ p.state = "READY"
  BY <1>1 DEF RpcJoin, IsSiblingFor
<1>3. GoodPeer(n, p) /\ p \in Peer /\ p.predecessor \in Node \cup {None} /\ p.predecessor # n
  BY PeerFacts DEF GoodPeer, GoodPredecessor, Peer
<1>4. \/ p.predecessor = None /\ Alone(n) /\ pre = n
      \/ p.predecessor \in Node /\ pre = p.predecessor /\ IsBetween(k, p.predecessor, n)
  <2>1. CASE p.predecessor = None
    BY <1>2, <2>1 DEF RpcJoin, IsSiblingFor, Alone, Ready
  <2>2. CASE p.predecessor # None
    <3>1. IsBetweenR(k, p.predecessor, n)
      BY <2>2 DEF RpcJoin, IsSiblingFor
    <3>2. \A x \in Node \ {n} : IsBetweenR(k, x, n) => IsBetween(k, x, n)
      BY <1>1, <1>2, NodeAssumption DEF IsBetween, IsBetweenR
    <3>3. p.predecessor \in Node \ {n} /\ pre = p.predecessor
      BY <1>3, <2>2
    <3> QED
      BY <3>1, <3>2, <3>3
  <2> QED
    BY <2>1, <2>2
<1>5. q.state = "READY" /\ q.predecessor = k /\ q.list = list
  <2> HIDE DEF list, p
  <2> QED
    BY <1>2, <1>3 DEF Peer, p
<1>6. Set(n, q) /\ calls' = (calls \ {c}) \cup hints \cup answers
  BY DEF RpcJoin
<1>7. answers \subseteq {a}
  BY DEF Answer
<1>8. a.type = "Join" /\ a.phase = "answered" /\ a.from = k /\ a.to = n /\ a.preNode = pre
      /\ JoinAnswered(a)
  BY <1>1 DEF Answered, Call, JoinAnswered
<1>9. hint.type = "Hint" /\ hint.preNode = k /\ ~ JoinAnswered(hint)
  BY DEF Hint, NewCall, JoinAnswered
<1> HIDE DEF q, pre, list, hint, a, answers, p
<1>10. Only(n) /\ node'[n] = q
  BY <1>6, SetIsOnly
<1>11. \A d \in calls' : JoinAnswered(d) => d \in calls \/ d = a
  BY <1>6, <1>7, <1>9
<1>12. Created(k) /\ Created(n) /\ Created(pre)
  BY <1>1, <1>2, <1>4, NoneAssumption DEF Created, ArcInv, p
<1>13. ArcInv'
  <2> DEFINE N == calls' \ calls
  <2>1. N \in SUBSET Call /\ calls' \subseteq calls \cup N
    BY DEF IInv, TypeOK
  <2>2. \A d \in N : d = hint \/ d = a
    BY <1>6, <1>7
  <2>3. \A d \in N : /\ d.preNode # None => Created(d.preNode)
                     /\ d.type = "Ping" => Created(d.to)
                     /\ JoinAnswered(d) => node[d.to].state = "READY"
    BY <1>2, <1>8, <1>9, <1>12, <2>2 DEF p
  <2> HIDE DEF N
  <2> QED
    BY <1>2, <1>5, <1>10, <1>12, <2>1, <2>3, ArcStep DEF p
<1>14. SUFFICES ASSUME ArcsApart
                PROVE  ArcsApart'
  BY <1>13 DEF StaysApart
<1>15. Member(n) /\ \A x \in Node : Member(x)' => Member(x) \/ x = k
  <2>1. \A x \in Node : Ready(x)' => Ready(x)
    BY <1>2, <1>10 DEF Ready, Only, p
  <2> QED
    BY <1>2, <1>8, <1>11, <2>1 DEF Member, JoinAnswered, Ready, p
<1>16. \A x, y \in Node : Follows(x, y)' =>
          \/ x = n /\ y = k
          \/ x = k /\ y = pre
          \/ x # n /\ x # k /\ Follows(x, y)
  <2> SUFFICES ASSUME NEW x \in Node, NEW y \in Node, Follows(x, y)'
               PROVE  \/ x = n /\ y = k
                      \/ x = k /\ y = pre
                      \/ x # n /\ x # k /\ Follows(x, y)
    OBVIOUS
  <2>1. CASE Ready(x)' /\ node'[x].predecessor = y
    <3>1. x # k
      BY <1>1, <1>2, <1>10, <2>1 DEF Ready, Only
    <3> QED
      BY <1>5, <1>10, <2>1, <3>1 DEF Follows, Ready, Only
  <2>2. CASE \E d \in calls' : JoinAnswered(d) /\ d.from = x /\ d.preNode = y
    <3>1. PICK d \in calls' : JoinAnswered(d) /\ d.from = x /\ d.preNode = y
      BY <2>2
    <3>2. CASE d = a
      BY <1>8, <3>1, <3>2
    <3>3. CASE d \in calls
      <4>1. x # k
        BY <1>1, <3>1, <3>3 DEF JoinAnswered
      <4>2. x # n
        BY <1>2, <3>1, <3>3 DEF JoinAnswered, IInv, JoinsOneByOne, p
      <4> QED
        BY <3>1, <3>3, <4>1, <4>2 DEF Follows
    <3> QED
      BY <1>11, <3>1, <3>2, <3>3
  <2> QED
    BY <2>1, <2>2 DEF Follows, JoinAnswered
<1>17. \A x \in Node : ~ Alone(x)'
  <2> SUFFICES ASSUME NEW x \in Node, Alone(x)'
               PROVE  FALSE
    OBVIOUS
  <2>1. x # n
    BY <1>1, <1>5, <1>10, NoneAssumption DEF Alone
  <2>2. Alone(x)
    BY <1>10, <2>1 DEF Alone, Ready, Empty, Only
  <2> QED
    BY <1>14, <1>15, <2>1, <2>2 DEF ArcsApart
<1>18. \A x, y, z \in Node : Follows(x, y)' /\ Member(z)' => ~ IsBetween(z, y, x)
  <2>1. \A x \in Nat : ~ IsBetween(x, x, n) /\ ~ IsBetween(x, n, x)
    BY NodeAssumption DEF IsBetween
  <2>2. Node \subseteq Nat
    BY NodeAssumption
  <2> SUFFICES ASSUME NEW x \in Node, NEW y \in Node, NEW z \in Node,
                      Follows(x, y)', Member(z)', IsBetween(z, y, x)
               PROVE  FALSE
    OBVIOUS
  <2>3. CASE Alone(n)
    <3>1. \A w \in Node : Member(w) => w = n
      BY <1>14, <2>3 DEF ArcsApart
    <3>2. z \in {n, k}
      BY <1>15, <3>1
    <3>3. \A w, v \in Node : Follows(w, v) => w = n
      BY <3>1 DEF Follows, Member
    <3>4. pre = n
      BY <1>4, <2>3, NoneAssumption DEF Alone, p
    <3>5. (x = n /\ y = k) \/ (x = k /\ y = n)
      BY <1>16, <3>3, <3>4
    <3> QED
      BY <1>1, <1>2, <2>2, <3>2, <3>5 DEF IsBetween
  <2>4. CASE ~ Alone(n)
    <3>1. pre \in Node /\ IsBetween(k, pre, n) /\ Follows(n, pre)
      BY <1>2, <1>4, <2>4 DEF Follows, Ready, p
    <3>2. \A w \in Node : Member(w) => ~ IsBetween(w, pre, n)
      BY <1>14, <3>1 DEF ArcsApart
    <3>3. CASE x = n /\ y = k
      <4>1. z # k
        BY <2>2, <3>3 DEF IsBetween
      <4>2. ~ IsBetween(z, pre, n)
        BY <1>15, <3>2, <4>1
      <4> QED
        BY <1>1, <2>2, <3>1, <3>3, <4>2 DEF IsBetween
    <3>4. CASE x = k /\ y = pre
      <4>1. z # k
        BY <2>2, <3>4 DEF IsBetween
      <4>2. ~ IsBetween(z, pre, n)
        BY <1>15, <3>2, <4>1
      <4> QED
        BY <1>1, <2>2, <3>1, <3>4, <4>2 DEF IsBetween
    <3>5. CASE x # n /\ x # k /\ Follows(x, y)
      <4>1. Member(x)
        BY <3>5 DEF Follows, Member
      <4>2. ~ IsBetween(x, pre, n) /\ ~ IsBetween(n, y, x)
        BY <1>14, <1>15, <3>2, <3>5, <4>1 DEF ArcsApart
      <4>3. Member(z) => ~ IsBetween(z, y, x)
        BY <1>14, <3>5 DEF ArcsApart
      <4>4. z = k
        BY <1>15, <4>3
      <4> QED
        BY <1>1, <2>2, <3>1, <3>5, <4>2, <4>4 DEF IsBetween
    <3> QED
      BY <1>16, <3>3, <3>4, <3>5
  <2> QED
    BY <2>3, <2>4
<1> QED
  BY <1>17, <1>18 DEF ArcsApart

\* The joining node takes the arc that its answer reserved.
LEMMA JoinResponseApart ==
    ASSUME IInv, IInv', ArcInv, NEW c \in calls, HandleRpcJoinResponse(c)
    PROVE  ArcInv' /\ StaysApart
<1> DEFINE n == c.from
           p == node[n]
           list == Add(p.list, n, c.nodes \cup {c.to})
           pre == IF c.preNode = None THEN p.predecessor ELSE c.preNode
           r == [p EXCEPT !.list = list, !.predecessor = pre]
           q == BecomeReady(r)
<1>1. JoinAnswered(c) /\ c.to \in Node \ {n} /\ n \in Node
      /\ c.nodes \in SUBSET Node /\ c.preNode \in Node \cup {None}
  BY CallFacts DEF HandleRpcJoinResponse, GoodCall, JoinAnswered
<1>2. p \in Peer /\ p.list \in List /\ GoodList(p.list)
      /\ p.state \in {"JOIN", "DEAD"} /\ p.predecessor = None
      /\ \A d \in calls : d.type = "Join" /\ d.from = n => d = c
  BY <1>1, PeerFacts
     DEF GoodPeer, GoodPredecessor, Peer, JoinAnswered, IInv, JoinsOneByOne
<1>3. ~ IsEmpty(list, n)
  BY <1>1, <1>2, AddIsGood
<1>4. pre = c.preNode
  BY <1>2
<1>5. Set(n, q) /\ calls' = calls \ {c}
  BY DEF HandleRpcJoinResponse
<1> HIDE DEF list, pre, p
<1>6. q.state = "READY" /\ q.predecessor = pre /\ q.list = list
  BY <1>2 DEF BecomeReady, Peer
<1> HIDE DEF q
<1>7. Only(n) /\ node'[n] = q
  BY <1>1, <1>5, SetIsOnly
<1>8. \A x \in Node : Member(x)' => Member(x)
  <2>1. Member(n)
    BY <1>1 DEF Member
  <2> QED
    BY <1>5, <1>7, <2>1 DEF Member, JoinAnswered, Ready, Only
<1>9. \A x, y \in Node : Follows(x, y)' => Follows(x, y)
  <2> TAKE x \in Node, y \in Node
  <2>1. CASE x = n
    <3>1. Follows(x, y)' => y = c.preNode
      BY <1>2, <1>4, <1>5, <1>6, <1>7, <2>1 DEF Follows, JoinAnswered
    <3> QED
      BY <1>1, <2>1, <3>1 DEF Follows
  <2>2. CASE x # n
    BY <1>5, <1>7, <2>2 DEF Follows, JoinAnswered, Ready, Only
  <2> QED
    BY <2>1, <2>2
<1>10. \A x \in Node : Alone(x)' => Alone(x)
  BY <1>3, <1>6, <1>7 DEF Alone, Ready, Empty, Only
<1>11. PICK N \in SUBSET Call : N = {}
  OBVIOUS
<1>12. pre # None => Created(pre)
  BY <1>4 DEF ArcInv
<1>13. ArcInv'
  BY <1>1, <1>5, <1>6, <1>7, <1>11, <1>12, ArcStep
<1> QED
  BY <1>8, <1>9, <1>10, <1>13, FewerArcs DEF StaysApart

LEMMA HintApart ==
    ASSUME IInv, IInv', ArcInv, NEW c \in calls, HandleNewSuccessorHint(c)
    PROVE  ArcInv' /\ StaysApart
<1> DEFINE n == c.to
           p == node[n]
           list == Add(p.list, n, {c.preNode})
           taken == [p EXCEPT !.list = list]
           q == IF Alive(n) /\ Closer(p, n, c.preNode) THEN taken ELSE p
<1>1. n \in Node /\ c.preNode \in Node
  BY CallFacts DEF HandleNewSuccessorHint, GoodCall
<1>2. p \in Peer /\ p.list \in List /\ GoodList(p.list)
  BY <1>1, PeerFacts DEF GoodPeer, Peer
<1>3. ~ IsEmpty(p.list, n) => ~ IsEmpty(list, n)
  BY <1>1, <1>2, AddIsGood
<1>4. Set(n, q) /\ calls' \subseteq calls
  BY DEF HandleNewSuccessorHint
<1>5. Only(n) /\ node'[n] = q
  BY <1>1, <1>4, SetIsOnly
<1> HIDE DEF list, p
<1>6. taken.list = list /\ taken.predecessor = p.predecessor /\ taken.state = p.state
  BY <1>2 DEF Peer
<1> HIDE DEF taken
<1>7. q.state = p.state /\ q.predecessor = p.predecessor
      /\ (IsEmpty(q.list, n) => IsEmpty(p.list, n))
  BY <1>3, <1>6
<1> HIDE DEF q
<1>8. Alone(n)' => Alone(n)
  BY <1>5, <1>7 DEF Alone, Ready, Empty, p
<1> QED
  BY <1>1, <1>4, <1>5, <1>7, <1>8, KeepsApartSilent DEF p

LEMMA DroppedApart ==
    ASSUME IInv, IInv', ArcInv, NEW c \in calls, Dropped(c)
    PROVE  ArcInv' /\ StaysApart
<1> DEFINE d == [c EXCEPT !.phase = "dropped"]
<1>1. c \in Call /\ c.from \in Node /\ c.type \in {"Stabilize", "Notify"}
  BY CallFacts DEF Dropped
<1>2. d \in Call /\ d.preNode = c.preNode /\ d.type # "Ping" /\ ~ JoinAnswered(d)
  BY <1>1 DEF Call, JoinAnswered
<1>3. calls' \subseteq calls \cup {d} /\ UNCHANGED node
  BY DEF Dropped
<1> HIDE DEF d
<1>4. d.preNode # None => Created(d.preNode)
  BY <1>2 DEF ArcInv
<1>5. Only(c.from) /\ (Alone(c.from)' => Alone(c.from))
  BY <1>3 DEF Only, Alone, Ready, Empty
<1> QED
  BY <1>1, <1>2, <1>3, <1>4, <1>5, KeepsApartSending

LEMMA RpcStabilizeApart ==
    ASSUME IInv, IInv', ArcInv, NEW c \in calls, RpcStabilize(c)
    PROVE  ArcInv' /\ StaysApart
<1> DEFINE n == c.to
           p == node[n]
           q == Heard(p, c.from)
           a == Answered(c, n, {}, p.predecessor)
<1>1. c \in Call /\ n \in Node /\ c.type = "Stabilize"
  BY CallFacts DEF RpcStabilize
<1>2. p \in Peer
  BY <1>1, PeerFacts DEF GoodPeer
<1>3. Set(n, q) /\ calls' \subseteq calls \cup {a}
  BY DEF RpcStabilize, Answer
<1>4. a.type = "Stabilize" /\ a.preNode = p.predecessor /\ ~ JoinAnswered(a)
  BY <1>1 DEF Answered, Call, JoinAnswered
<1> HIDE DEF p
<1>5. q.state = p.state /\ q.list = p.list /\ q.predecessor = p.predecessor
  BY <1>2, HeardIsGood
<1> HIDE DEF q, a
<1>6. Only(n) /\ node'[n] = q
  BY <1>1, <1>3, SetIsOnly
<1>7. Alone(n)' => Alone(n)
  BY <1>5, <1>6 DEF Alone, Ready, Empty, p
<1>8. a.preNode # None => Created(a.preNode)
  BY <1>1, <1>4 DEF ArcInv, p
<1>9. CASE a \in calls'
  <2>1. a \in Call
    BY <1>9 DEF IInv, TypeOK
  <2> QED
    BY <1>1, <1>3, <1>4, <1>5, <1>6, <1>7, <1>8, <2>1, KeepsApartSending DEF p
<1>10. CASE a \notin calls'
  BY <1>1, <1>3, <1>5, <1>6, <1>7, <1>10, KeepsApartSilent DEF p
<1> QED
  BY <1>9, <1>10

LEMMA StabilizeResponseApart ==
    ASSUME IInv, IInv', ArcInv, NEW c \in calls, HandleRpcStabilizeResponse(c)
    PROVE  ArcInv' /\ StaysApart
<1> DEFINE n == c.from
           p == node[n]
           list == Add(p.list, n, Told(p, n, c))
           q == [p EXCEPT !.list = list]
           d == NewCall("Notify", n, GetSuccessor(list, n))
<1>1. n \in Node /\ c.to \in Node /\ c.preNode \in Node \cup {None}
  BY CallFacts DEF HandleRpcStabilizeResponse
<1>2. p \in Peer /\ p.list \in List /\ GoodList(p.list)
  BY <1>1, PeerFacts DEF GoodPeer, Peer
<1>3. CASE ~ Ready(n)
  BY <1>3, NobodyMoves DEF HandleRpcStabilizeResponse
<1>4. CASE Ready(n)
  <2>1. ~ Empty(p, n) => Told(p, n, c) \in SUBSET Node
    BY <1>1 DEF Told
  <2>2. Empty(p, n) => Told(p, n, c) \in SUBSET Node
    BY <1>1 DEF Told
  <2>3. ~ IsEmpty(p.list, n) => ~ IsEmpty(list, n)
    BY <1>1, <1>2, <2>1, <2>2, AddIsGood
  <2>4. Set(n, q) /\ calls' = (calls \ {c}) \cup {d}
    BY <1>4 DEF HandleRpcStabilizeResponse
  <2> HIDE DEF list, p
  <2>5. q.list = list /\ q.state = p.state /\ q.predecessor = p.predecessor
    BY <1>2 DEF Peer
  <2> HIDE DEF q
  <2>6. Only(n) /\ node'[n] = q
    BY <1>1, <2>4, SetIsOnly
  <2>7. Alone(n)' => Alone(n)
    BY <2>3, <2>5, <2>6 DEF Alone, Ready, Empty, p
  <2>8. d.preNode = None /\ d.type = "Notify" /\ ~ JoinAnswered(d)
    BY DEF NewCall, JoinAnswered
  <2>9. d \in Call
    BY <2>4 DEF IInv, TypeOK
  <2> HIDE DEF d
  <2> QED
    BY <1>1, <2>4, <2>5, <2>6, <2>7, <2>8, <2>9, KeepsApartSending DEF p
<1> QED
  BY <1>3, <1>4

\* A node that notifies is no other than the one a lone node would be a ring with: it has
\* a successor and is ready.  So a lone node is not notified while the arcs are apart, and
\* a predecessor makes way for a closer one only.
LEMMA RpcNotifyApart ==
    ASSUME IInv, IInv', ArcInv, NEW c \in calls, RpcNotify(c)
    PROVE  ArcInv' /\ StaysApart
<1> DEFINE n == c.to
           m == c.from
           o == node[n]
           p == Heard(o, m)
           list == IF Empty(p, n) THEN Add(p.list, n, {c.from}) ELSE p.list
           accepted == [p EXCEPT !.predecessor = c.from, !.list = list]
           q == IF Accepts(p, n, c.from) THEN accepted ELSE p
           a == Answered(c, n, Sent(q.list, n), None)
<1>1. /\ c \in Call /\ m \in Node /\ n \in Node /\ m # n
      /\ c.type = "Notify" /\ ~ Quiet(node[m], m)
  BY CallFacts DEF RpcNotify, GoodCall, Busy
<1>2. o \in Peer /\ o.state = "READY" /\ o.predecessor \in Node \cup {None}
      /\ o.predecessor # n
  BY <1>1, PeerFacts DEF GoodPeer, GoodPredecessor, Peer, RpcNotify, Ready
<1>3. Set(n, q) /\ calls' \subseteq calls \cup {a}
  BY DEF RpcNotify, Answer
<1>4. a.type = "Notify" /\ a.preNode = None /\ ~ JoinAnswered(a)
  BY <1>1 DEF Answered, Call, JoinAnswered
<1> HIDE DEF o, list, a
<1>5. p \in Peer /\ p.state = o.state /\ p.list = o.list /\ p.predecessor = o.predecessor
  BY <1>2, HeardIsGood
<1> HIDE DEF p
<1>6. accepted.state = "READY" /\ accepted.predecessor = m
  BY <1>2, <1>5 DEF Peer
<1> HIDE DEF accepted
<1>7. IF Accepts(p, n, m) THEN q.state = "READY" /\ q.predecessor = m
      ELSE q.state = "READY" /\ q.predecessor = o.predecessor /\ q.list = o.list
  BY <1>2, <1>5, <1>6
<1> HIDE DEF q
<1>8. Only(n) /\ node'[n] = q
  BY <1>1, <1>3, SetIsOnly
<1>9. Created(m)
  BY <1>1 DEF Created, Quiet
<1>10. PICK N \in SUBSET Call : calls' \subseteq calls \cup N /\ N \subseteq {a}
  <2>1. calls' \ calls \in SUBSET Call
    BY DEF IInv, TypeOK
  <2> QED
    BY <1>3, <2>1
<1>11. CASE ~ Accepts(p, n, m)
  <2>1. Alone(n)' => Alone(n)
    BY <1>2, <1>7, <1>8, <1>11 DEF Alone, Ready, Empty, o
  <2> QED
    BY <1>1, <1>2, <1>4, <1>7, <1>8, <1>10, <1>11, <2>1, KeepsApart DEF o
<1>12. CASE Accepts(p, n, m)
  <2>1. ArcInv'
    BY <1>1, <1>4, <1>7, <1>8, <1>9, <1>10, <1>12, ArcStep
  <2>2. CASE o.predecessor = None /\ ~ Empty(o, n)
    <3>1. TakesAnother(n)
      BY <1>1, <1>2, <1>7, <1>8, <1>12, <2>2, NoneAssumption
         DEF TakesAnother, LostPredecessor, Ready, o
    <3> QED
      BY <1>1, <2>1, <3>1 DEF StaysApart
  <2>3. CASE o.predecessor = None /\ Empty(o, n)
    <3> SUFFICES ASSUME ArcsApart, NoneFailed'
                 PROVE  FALSE
      BY <2>1 DEF StaysApart
    <3>1. Alone(n)
      BY <1>2, <2>3 DEF Alone, Ready, o
    <3>2. node[m].state = "READY"
      <4>1. node[m] \in Peer /\ node'[m] = node[m]
        BY <1>1, <1>8, PeerFacts DEF GoodPeer, Only
      <4> QED
        BY <1>1, <4>1 DEF Quiet, NoneFailed, Peer
    <3> QED
      BY <1>1, <3>1, <3>2 DEF ArcsApart, Member, Ready
  <2>4. CASE o.predecessor # None
    <3> SUFFICES ASSUME ArcsApart
                 PROVE  ArcsApart'
      BY <2>1 DEF StaysApart
    <3>1. IsBetween(m, o.predecessor, n)
      BY <1>5, <1>12, <2>4 DEF Accepts
    <3>2. \A d \in calls' : JoinAnswered(d) => d \in calls
      BY <1>3, <1>4
    <3>3. \A x \in Node : Ready(x)' => Ready(x)
      BY <1>2, <1>8 DEF Ready, Only, o
    <3>4. \A x \in Node : Member(x)' => Member(x)
      BY <3>2, <3>3 DEF Member, JoinAnswered
    <3>5. \A x, y \in Node : Follows(x, y)' => Follows(x, y) \/ (x = n /\ y = m)
      BY <1>7, <1>8, <1>12, <3>2, <3>3 DEF Follows, JoinAnswered, Ready, Only
    <3>6. \A x \in Node : Alone(x)' => Alone(x)
      <4>1. ~ Alone(n)'
        BY <1>1, <1>7, <1>8, <1>12, NoneAssumption DEF Alone
      <4> QED
        BY <1>8, <4>1 DEF Alone, Ready, Empty, Only
    <3>7. \A z \in Node : Member(z) => ~ IsBetween(z, m, n)
      <4>1. Follows(n, o.predecessor) /\ o.predecessor \in Node
        BY <1>2, <2>4 DEF Follows, Ready, o
      <4>2. \A z \in Node : Member(z) => ~ IsBetween(z, o.predecessor, n)
        BY <1>1, <4>1 DEF ArcsApart
      <4> QED
        BY <1>1, <3>1, <4>1, <4>2, ShorterArc
    <3> QED
      BY <3>4, <3>5, <3>6, <3>7 DEF ArcsApart
  <2> QED
    BY <2>2, <2>3, <2>4
<1> QED
  BY <1>11, <1>12

LEMMA NotifyResponseApart ==
    ASSUME IInv, IInv', ArcInv, NEW c \in calls, HandleRpcNotifyResponse(c)
    PROVE  ArcInv' /\ StaysApart
<1> DEFINE n == c.from
           p == node[n]
           list == UpdateList(p.list, n, c.to, c.nodes)
           q == [p EXCEPT !.list = list]
<1>1. n \in Node /\ c.to \in Node \ {n} /\ c.nodes \in SUBSET Node
  BY CallFacts DEF HandleRpcNotifyResponse, GoodCall
<1>2. p \in Peer /\ p.list \in List /\ GoodList(p.list)
  BY <1>1, PeerFacts DEF GoodPeer, Peer
<1>3. CASE ~ (Ready(n) /\ Successor(n) = c.to)
  BY <1>3, NobodyMoves DEF HandleRpcNotifyResponse
<1>4. CASE Ready(n) /\ Successor(n) = c.to
  <2>1. Set(n, q) /\ calls' \subseteq calls
    BY <1>4 DEF HandleRpcNotifyResponse
  <2>2. ~ IsEmpty(list, n)
    BY <1>1, <1>2, UpdateIsGood
  <2> HIDE DEF list, p
  <2>3. q.list = list /\ q.state = p.state /\ q.predecessor = p.predecessor
    BY <1>2 DEF Peer
  <2> HIDE DEF q
  <2>4. Only(n) /\ node'[n] = q
    BY <1>1, <2>1, SetIsOnly
  <2>5. ~ Alone(n)'
    BY <2>2, <2>3, <2>4 DEF Alone, Empty
  <2> QED
    BY <1>1, <2>1, <2>3, <2>4, <2>5, KeepsApartSilent DEF p
<1> QED
  BY <1>3, <1>4

\* handleFailedNode takes nothing but a predecessor from a node that still has a successor.
LEMMA HandleFailedKeeps ==
    ASSUME NEW n \in Node, NEW p, GoodPeer(n, p), NEW m \in Node
    PROVE  HandleFailed(n, p, m).predecessor \in {None, p.predecessor}
BY DEF HandleFailed, GoodPeer, Peer

LEMMA RpcTimeoutApart ==
    ASSUME IInv, IInv', ArcInv, NEW c \in calls, HandleRpcTimeout(c)
    PROVE  ArcInv' /\ StaysApart
<1> DEFINE n == c.from
           p == node[n]
           q == HandleFailed(n, p, c.to)
           r == HandleTimeout(n, p, c.to)
<1>1. n \in Node /\ c.to \in Node
  BY CallFacts DEF HandleRpcTimeout
<1>2. GoodPeer(n, p)
  BY <1>1, PeerFacts
<1>3. Set(n, r) /\ calls' \subseteq calls
      /\ \A d \in calls' : JoinAnswered(d) => d.from # n /\ d.to # n
  BY DEF HandleRpcTimeout, Overdue, JoinAnswered
<1> HIDE DEF p
<1>4. q \in Peer /\ q.state = p.state /\ q.predecessor \in {None, p.predecessor}
  BY <1>1, <1>2, HandleFailedIsGood, HandleFailedKeeps
<1>5. r = IF q.state = "READY" /\ Empty(q, n) THEN JoinOverlay(n, q) ELSE q
  BY DEF HandleTimeout
<1> HIDE DEF q, r
<1>6. Only(n) /\ node'[n] = r
  BY <1>1, <1>3, SetIsOnly
<1>7. CASE q.state = "READY" /\ Empty(q, n)
  <2> DEFINE s == [q EXCEPT !.predecessor = None, !.list = Initial(n)]
  <2>1. s \in Peer /\ s.predecessor = None
    BY <1>1, <1>4, InitialIsGood DEF Peer
  <2>2. r = Enter(n, s)
    BY <1>5, <1>7 DEF JoinOverlay
  <2> HIDE DEF s
  <2> QED
    BY <1>1, <1>3, <1>6, <2>1, <2>2, EnterApart
<1>8. CASE ~ (q.state = "READY" /\ Empty(q, n))
  <2>1. ~ Alone(n)'
    BY <1>5, <1>6, <1>8 DEF Alone, Ready, Empty
  <2> QED
    BY <1>1, <1>3, <1>4, <1>5, <1>6, <1>8, <2>1, KeepsApartSilent DEF p
<1> QED
  BY <1>7, <1>8

\* A ping times out only after a failure: nobody pings a node that does not exist yet.
LEMMA PingTimeoutApart ==
    ASSUME IInv, IInv', ArcInv, NEW c \in calls, PingTimeout(c)
    PROVE  ArcInv' /\ StaysApart
<1> DEFINE n == c.from
           p == node[n]
           q == HandleFailed(n, p, c.to)
<1>1. n \in Node /\ c.to \in Node /\ c.to # n /\ c.type = "Ping"
  BY CallFacts DEF PingTimeout, GoodCall
<1>2. GoodPeer(n, p)
  BY <1>1, PeerFacts
<1>3. Set(n, q) /\ calls' \subseteq calls /\ ~ Alive(c.to)
  BY DEF PingTimeout
<1> HIDE DEF p
<1>4. q.state = p.state /\ q.predecessor \in {None, p.predecessor}
  BY <1>1, <1>2, HandleFailedIsGood, HandleFailedKeeps
<1> HIDE DEF q
<1>5. Only(n) /\ node'[n] = q
  BY <1>1, <1>3, SetIsOnly
<1>6. ArcInv'
  <2>1. PICK N \in SUBSET Call : N = {}
    OBVIOUS
  <2> QED
    BY <1>1, <1>3, <1>4, <1>5, <2>1, ArcStep DEF p, Created
<1>7. node[c.to].state = "DEAD"
  <2>1. node[c.to] \in Peer /\ Created(c.to)
    BY <1>1, PeerFacts DEF GoodPeer, ArcInv
  <2> QED
    BY <1>3, <2>1 DEF Alive, Created, Peer
<1>8. ~ NoneFailed'
  BY <1>1, <1>5, <1>7 DEF NoneFailed, Only
<1> QED
  BY <1>6, <1>8 DEF StaysApart

LEMMA InitApart == Init => ArcInv /\ ArcsApart
BY DEF Init, ArcInv, ArcsApart, Member, Ready, JoinAnswered

LEMMA NextApart ==
    ASSUME IInv, ArcInv, [Next]_vars
    PROVE  ArcInv' /\ StaysApart
<1>1. IInv'
  BY NextInv
<1>2. CASE UNCHANGED vars
  BY <1>1, <1>2, NobodyMoves DEF vars
<1>3. ASSUME NEW n \in Node, Create(n) \/ Fail(n) \/ Timer(n)
      PROVE  ArcInv' /\ StaysApart
  BY <1>1, <1>3, CreateApart, FailApart, JoinTimerApart, StabilizeTimerApart, PingTimerApart
     DEF Timer
<1>4. ASSUME NEW c \in calls, Handle(c)
      PROVE  ArcInv' /\ StaysApart
  <2>1. JoinTimeout(c) \/ PingResponse(c) => ArcInv' /\ StaysApart
    BY <1>1, NobodyMoves DEF JoinTimeout, PingResponse
  <2> QED
    BY <1>1, <1>4, <2>1, RpcJoinApart, JoinResponseApart, HintApart, DroppedApart,
       RpcStabilizeApart, StabilizeResponseApart, RpcNotifyApart, NotifyResponseApart,
       RpcTimeoutApart, PingTimeoutApart DEF Handle
<1> QED
  BY <1>2, <1>3, <1>4 DEF Next
-------------------------------------------------------------------------------
(***************************************************************************)
(* The successor.                                                          *)
(***************************************************************************)
\* The node of a list that precedes all others is its successor, and the only one.
LEMMA SuccessorIsFirst ==
    ASSUME NEW n \in Node, NEW l, l.nodes \in SUBSET Node, l.nodes # {}
    PROVE  /\ GetSuccessor(l, n) \in l.nodes
           /\ \A y \in l.nodes \ {GetSuccessor(l, n)} : Precedes(n, GetSuccessor(l, n), y)
           /\ \A x \in l.nodes :
                (\A y \in l.nodes \ {x} : Precedes(n, x, y)) => GetSuccessor(l, n) = x
<1> DEFINE s == GetSuccessor(l, n)
<1>1. s \in l.nodes /\ \A y \in l.nodes \ {s} : Precedes(n, s, y)
  BY Nearest DEF GetSuccessor
<1> HIDE DEF s
<1>2. ASSUME NEW x \in l.nodes, \A y \in l.nodes \ {x} : Precedes(n, x, y), s # x
      PROVE  FALSE
  <2>1. Precedes(n, x, s) /\ Precedes(n, s, x)
    BY <1>1, <1>2
  <2> QED
    BY <1>1, <2>1, Order
<1> QED
  BY <1>1, <1>2 DEF s

LEMMA FirstKeepsSuccessor ==
    ASSUME NEW n \in Node, NEW S \in SUBSET Node, NEW k \in Nat \ {0}, NEW x \in S,
           \A y \in S \ {x} : Precedes(n, x, y),
           NEW l, l.nodes = First(n, S, k)
    PROVE  GetSuccessor(l, n) = x
<1>1. {y \in S : Precedes(n, y, x)} = {}
  BY Order
<1>2. Cardinality({y \in S : Precedes(n, y, x)}) < k
  BY <1>1, FS_EmptySet
<1>3. x \in l.nodes /\ l.nodes \in SUBSET S
  BY <1>2 DEF First
<1> QED
  BY <1>3, SuccessorIsFirst

\* A node that is added becomes the successor only if it is nearer.
LEMMA AddSuccessor ==
    ASSUME NEW n \in Node, NEW l \in List, GoodList(l), NEW S \in SUBSET Node
    PROVE  \/ GetSuccessor(Add(l, n, S), n) = GetSuccessor(l, n)
           \/ IsBetween(GetSuccessor(Add(l, n, S), n), n, GetSuccessor(l, n))
<1> DEFINE T == l.nodes \cup S
<1>1. l.nodes \in SUBSET Node /\ l.nodes # {}
  BY DEF List, GoodList
<1>2. PICK x \in T : \A y \in T \ {x} : Precedes(n, x, y)
  BY <1>1, Nearest
<1>3. Add(l, n, S).nodes = First(n, T, SuccessorListSize)
  BY DEF Add
<1>4. GetSuccessor(Add(l, n, S), n) = x
  BY <1>1, <1>2, <1>3, SizeAssumption, FirstKeepsSuccessor
<1>5. GetSuccessor(l, n) \in T
  BY <1>1, SuccessorIsFirst
<1> QED
  BY <1>2, <1>4, <1>5 DEF Precedes

\* The list that a successor sends does not replace it.
LEMMA UpdateSuccessor ==
    ASSUME NEW n \in Node, NEW l \in List, GoodList(l),
           GetSuccessor(l, n) # n, NEW S \in SUBSET Node
    PROVE  GetSuccessor(UpdateList(l, n, GetSuccessor(l, n), S), n) = GetSuccessor(l, n)
<1> DEFINE m == GetSuccessor(l, n)
           T == l.fresh \cup {m} \cup Beyond(n, m, S)
<1>1. l.nodes \in SUBSET Node /\ l.nodes # {} /\ l.fresh \subseteq l.nodes
  BY DEF List, GoodList
<1>2. m \in Node /\ \A y \in l.fresh \ {m} : Precedes(n, m, y)
  BY <1>1, SuccessorIsFirst
<1>3. UpdateList(l, n, m, S).nodes = First(n, T, SuccessorListSize)
  BY DEF UpdateList
<1> HIDE DEF m
<1>4. m # n /\ m \in Nat /\ n \in Nat
  BY <1>2, NodeAssumption DEF m
<1>5. \A y \in Nat : ~ IsBetweenLR(y, n, m) => Precedes(n, m, y)
  BY <1>4 DEF Precedes, IsBetween, IsBetweenLR
<1>6. \A y \in Beyond(n, m, S) : y \in Node /\ Precedes(n, m, y)
  BY <1>5, NodeAssumption DEF Beyond
<1>7. T \in SUBSET Node /\ m \in T /\ \A y \in T \ {m} : Precedes(n, m, y)
  BY <1>1, <1>2, <1>6
<1> QED
  BY <1>3, <1>7, SizeAssumption, FirstKeepsSuccessor DEF m

\* The failure of another node does not either.
LEMMA FailedSuccessor ==
    ASSUME NEW n \in Node, NEW l \in List, GoodList(l), NEW m \in Node
    PROVE  LET r == HandleFailedNode(l, n, m)
           IN  \/ m = GetSuccessor(l, n)
               \/ GetSuccessor(r, n) = GetSuccessor(l, n)
<1> DEFINE r == HandleFailedNode(l, n, m)
           s == GetSuccessor(l, n)
<1>1. l.nodes \in SUBSET Node /\ s \in l.nodes
      /\ \A y \in l.nodes \ {s} : Precedes(n, s, y)
  BY SuccessorIsFirst DEF List, GoodList
<1> HIDE DEF s
<1>2. SUFFICES ASSUME m # s PROVE GetSuccessor(r, n) = s
  BY DEF s
<1>3. r.nodes = l.nodes \ {m}
  BY <1>1, <1>2 DEF HandleFailedNode
<1> HIDE DEF r
<1> QED
  BY <1>1, <1>2, <1>3, SuccessorIsFirst
-------------------------------------------------------------------------------
(***************************************************************************)
(* SuccessorGetsCloser, step by step.                                      *)
(***************************************************************************)
GetsCloser(n) ==
    Ready(n) /\ Ready(n)' =>
        \/ Successor(n)' = Successor(n)
        \/ IsBetween(Successor(n)', n, Successor(n)) /\ ~ ListArrives(n)
        \/ SuccessorFails(n)

\* Only the node that changes has to be looked at.
LEMMA OneGetsCloser ==
    ASSUME IInv, NEW n \in Node, NEW q, Set(n, q),
           node[n].state = "READY" /\ q.state = "READY" =>
               LET s == GetSuccessor(node[n].list, n)
                   t == GetSuccessor(q.list, n)
               IN  t = s \/ (IsBetween(t, n, s) /\ ~ ListArrives(n)) \/ SuccessorFails(n)
    PROVE  \A m \in Node : GetsCloser(m)
<1>1. node'[n] = q /\ \A m \in Node \ {n} : node'[m] = node[m]
  BY DEF IInv, TypeOK, Set
<1> SUFFICES ASSUME NEW m \in Node, Ready(m), Ready(m)'
             PROVE  \/ Successor(m)' = Successor(m)
                    \/ IsBetween(Successor(m)', m, Successor(m)) /\ ~ ListArrives(m)
                    \/ SuccessorFails(m)
  BY DEF GetsCloser
<1>2. CASE m # n
  BY <1>1, <1>2 DEF Successor
<1>3. CASE m = n
  <2>1. Successor(n) = GetSuccessor(node[n].list, n)
        /\ Successor(n)' = GetSuccessor(q.list, n)
    BY <1>1 DEF Successor
  <2>2. node[n].state = "READY" /\ q.state = "READY"
    BY <1>1, <1>3 DEF Ready
  <2> QED
    BY <1>3, <2>1, <2>2
<1> QED
  BY <1>2, <1>3

LEMMA NobodyChanges ==
    ASSUME UNCHANGED node
    PROVE  \A m \in Node : GetsCloser(m)
BY DEF GetsCloser, Successor

LEMMA PeerList ==
    ASSUME IInv, NEW n \in Node
    PROVE  /\ node[n] \in Peer
           /\ node[n].list \in List /\ GoodList(node[n].list)
           /\ GetSuccessor(node[n].list, n) \in Node
<1>1. node[n] \in Peer /\ node[n].list \in List /\ GoodList(node[n].list)
  BY PeerFacts DEF GoodPeer, Peer
<1> QED
  BY <1>1, SuccessorIsFirst DEF List, GoodList

\* A message other than a list brings a node that is added, or changes no list.
LEMMA AddedGetsCloser ==
    ASSUME IInv, NEW n \in Node, NEW q, Set(n, q), NEW S \in SUBSET Node,
           q.list \in {node[n].list, Add(node[n].list, n, S)},
           NEW c \in calls, calls \ {c} \subseteq calls',
           ~ (c.type = "Notify" /\ c.phase = "answered")
    PROVE  \A m \in Node : GetsCloser(m)
<1>1. ~ ListArrives(n)
  BY DEF ListArrives
<1> DEFINE s == GetSuccessor(node[n].list, n)
           t == GetSuccessor(q.list, n)
<1>2. t = s \/ IsBetween(t, n, s)
  BY PeerList, AddSuccessor
<1> QED
  BY <1>1, <1>2, OneGetsCloser

LEMMA NodeGetsCloser ==
    ASSUME IInv, NEW n \in Node, Create(n) \/ Fail(n) \/ Timer(n)
    PROVE  \A m \in Node : GetsCloser(m)
<1>1. CASE Create(n)
  BY <1>1, OneGetsCloser DEF Create
<1>2. CASE Fail(n)
  <2> DEFINE q == [node[n] EXCEPT !.state = "DEAD", !.predecessor = None,
                                  !.list = Initial(n), !.stabilizing = FALSE]
  <2>1. Set(n, q) /\ q.state = "DEAD"
    BY <1>2, PeerList DEF Fail, Peer
  <2> HIDE DEF q
  <2> QED
    BY <2>1, OneGetsCloser
<1>3. CASE HandleJoinTimerExpired(n)
  BY <1>3, OneGetsCloser, NobodyChanges DEF HandleJoinTimerExpired
<1>4. CASE HandleStabilizeTimerExpired(n)
  <2> DEFINE p == node[n]
             given == IF GivesUp(p) THEN [p EXCEPT !.predecessor = None, !.missing = 0]
                      ELSE p
             counted == IF checkPredecessor THEN given
                        ELSE [given EXCEPT !.missing =
                                 IF @ < StabilizeRetry THEN @ + 1 ELSE @]
             idle == [p EXCEPT !.stabilizing = FALSE]
  <2>1. Set(n, idle) \/ Set(n, given) \/ Set(n, counted)
    BY <1>4 DEF HandleStabilizeTimerExpired
  <2>2. given.list = p.list /\ counted.list = p.list /\ idle.list = p.list
    BY PeerList DEF Peer
  <2> HIDE DEF given, counted, idle
  <2> QED
    BY <2>1, <2>2, OneGetsCloser
<1>5. CASE CheckPredecessorTimer(n)
  BY <1>5, NobodyChanges DEF CheckPredecessorTimer
<1> QED
  BY <1>1, <1>2, <1>3, <1>4, <1>5 DEF Timer

LEMMA MessageGetsCloser ==
    ASSUME IInv, NEW c \in calls,
           \/ \E n \in Node : RpcJoin(c, n)
           \/ HandleNewSuccessorHint(c) \/ HandleRpcStabilizeResponse(c)
           \/ RpcStabilize(c) \/ RpcNotify(c)
    PROVE  \A m \in Node : GetsCloser(m)
<1>1. ASSUME NEW n \in Node, RpcJoin(c, n)
      PROVE  \A m \in Node : GetsCloser(m)
  <2> DEFINE p == node[n]
             q == [p EXCEPT !.predecessor = c.from,
                     !.list = IF Empty(p, n) THEN Add(@, n, {c.from}) ELSE @]
  <2>1. Set(n, q) /\ calls \ {c} \subseteq calls' /\ c.type = "Join"
    BY <1>1 DEF RpcJoin
  <2>2. {c.from} \in SUBSET Node /\ q.list \in {p.list, Add(p.list, n, {c.from})}
    BY CallFacts, PeerList DEF Peer
  <2> HIDE DEF q
  <2> QED
    BY <2>1, <2>2, AddedGetsCloser
<1>2. CASE HandleNewSuccessorHint(c)
  <2> DEFINE n == c.to
             p == node[n]
             q == IF Alive(n) /\ Closer(p, n, c.preNode)
                  THEN [p EXCEPT !.list = Add(@, n, {c.preNode})] ELSE p
  <2>1. Set(n, q) /\ calls \ {c} \subseteq calls' /\ c.type = "Hint"
    BY <1>2 DEF HandleNewSuccessorHint
  <2>2. n \in Node /\ {c.preNode} \in SUBSET Node
    BY <2>1, CallFacts DEF GoodCall
  <2>3. q.list \in {p.list, Add(p.list, n, {c.preNode})}
    BY <2>2, PeerList DEF Peer
  <2> HIDE DEF q
  <2> QED
    BY <2>1, <2>2, <2>3, AddedGetsCloser
<1>3. CASE HandleRpcStabilizeResponse(c)
  <2> DEFINE n == c.from
             p == node[n]
             S == Told(p, n, c)
             q == [p EXCEPT !.list = Add(p.list, n, S)]
  <2>1. CASE ~ Ready(n)
    BY <1>3, <2>1, NobodyChanges DEF HandleRpcStabilizeResponse
  <2>2. CASE Ready(n)
    <3>1. Set(n, q) /\ calls \ {c} \subseteq calls' /\ c.type = "Stabilize"
      BY <1>3, <2>2 DEF HandleRpcStabilizeResponse
    <3>2. n \in Node /\ c.to \in Node /\ c.preNode \in Node \cup {None}
      BY <3>1, CallFacts
    <3>3. S \in SUBSET Node
      BY <3>2 DEF Told
    <3>4. q.list = Add(p.list, n, S)
      BY <3>2, PeerList DEF Peer
    <3> HIDE DEF q, S
    <3> QED
      BY <3>1, <3>2, <3>3, <3>4, AddedGetsCloser
  <2> QED
    BY <2>1, <2>2
<1>4. CASE RpcStabilize(c)
  <2> DEFINE n == c.to
             q == Heard(node[n], c.from)
  <2>1. Set(n, q) /\ calls \ {c} \subseteq calls' /\ c.type = "Stabilize"
    BY <1>4 DEF RpcStabilize
  <2>2. n \in Node /\ q.list = node[n].list
    BY <2>1, CallFacts, PeerList, HeardIsGood
  <2> HIDE DEF q
  <2> QED
    BY <2>1, <2>2, AddedGetsCloser
<1>5. CASE RpcNotify(c)
  <2> DEFINE n == c.to
             p == Heard(node[n], c.from)
             taken == [p EXCEPT !.predecessor = c.from,
                         !.list = IF Empty(p, n) THEN Add(@, n, {c.from}) ELSE @]
             q == IF Accepts(p, n, c.from) THEN taken ELSE p
  <2>1. Set(n, q) /\ calls \ {c} \subseteq calls' /\ c.type = "Notify" /\ c.phase = "sent"
    BY <1>5 DEF RpcNotify
  <2>2. n \in Node /\ {c.from} \in SUBSET Node
    BY <2>1, CallFacts
  <2>3. p \in Peer /\ p.list = node[n].list
    BY <2>2, PeerList, HeardIsGood
  <2> HIDE DEF p, n
  <2>4. taken.list \in {p.list, Add(p.list, n, {c.from})}
    BY <2>3 DEF Peer
  <2> HIDE DEF taken
  <2>5. q.list \in {p.list, Add(p.list, n, {c.from})}
    BY <2>4
  <2> HIDE DEF q
  <2> QED
    BY <2>1, <2>2, <2>3, <2>5, AddedGetsCloser
<1> QED
  BY <1>1, <1>2, <1>3, <1>4, <1>5

\* The answer to a JoinCall finds a node that is not READY yet.
LEMMA AnswerGetsCloser ==
    ASSUME IInv, NEW c \in calls, HandleRpcJoinResponse(c) \/ HandleRpcNotifyResponse(c)
    PROVE  \A m \in Node : GetsCloser(m)
<1> DEFINE n == c.from
           p == node[n]
<1>1. n \in Node /\ c.nodes \in SUBSET Node
  BY CallFacts
<1>2. CASE HandleRpcJoinResponse(c)
  <2>1. p.state # "READY"
    BY <1>2 DEF HandleRpcJoinResponse, IInv, JoinsOneByOne
  <2> QED
    BY <1>1, <1>2, <2>1, OneGetsCloser DEF HandleRpcJoinResponse
<1>3. CASE HandleRpcNotifyResponse(c)
  <2> DEFINE q == [p EXCEPT !.list = UpdateList(@, n, c.to, c.nodes)]
  <2>1. CASE ~ (Ready(n) /\ Successor(n) = c.to)
    BY <1>3, <2>1, NobodyChanges DEF HandleRpcNotifyResponse
  <2>2. CASE Ready(n) /\ Successor(n) = c.to
    <3>1. Set(n, q) /\ c.to = GetSuccessor(p.list, n) /\ c.to # n
      BY <1>3, <2>2, CallFacts DEF HandleRpcNotifyResponse, Successor, GoodCall
    <3>2. q.list = UpdateList(p.list, n, c.to, c.nodes)
      BY <1>1, PeerList DEF Peer
    <3> HIDE DEF q
    <3>3. GetSuccessor(q.list, n) = GetSuccessor(p.list, n)
      BY <1>1, <3>1, <3>2, PeerList, UpdateSuccessor
    <3> QED
      BY <1>1, <3>1, <3>3, OneGetsCloser
  <2> QED
    BY <2>1, <2>2
<1> QED
  BY <1>2, <1>3

LEMMA TimeoutGetsCloser ==
    ASSUME IInv, NEW c \in calls, HandleRpcTimeout(c) \/ PingTimeout(c)
    PROVE  \A m \in Node : GetsCloser(m)
<1> DEFINE n == c.from
           p == node[n]
           list == HandleFailedNode(p.list, n, c.to)
           q == HandleFailed(n, p, c.to)
           r == HandleTimeout(n, p, c.to)
<1>1. n \in Node /\ c.to \in Node
  BY CallFacts DEF HandleRpcTimeout, PingTimeout, GoodCall
<1>2. p \in Peer /\ p.list \in List /\ GoodList(p.list)
  BY <1>1, PeerList
<1>3. list \in List /\ GoodList(list)
  BY <1>1, <1>2, FailedIsGood
<1>4. q.list = list /\ q \in Peer
  <2>1. GoodPeer(n, p)
    BY <1>1, PeerFacts
  <2> QED
    BY <1>1, <1>2, <2>1, HandleFailedIsGood DEF HandleFailed, Peer
<1>5. CASE c.to = GetSuccessor(p.list, n)
  <2>1. SuccessorFails(n)
    BY <1>5 DEF HandleRpcTimeout, PingTimeout, SuccessorFails, Successor
  <2> QED
    BY <1>1, <2>1, OneGetsCloser DEF HandleRpcTimeout, PingTimeout
<1>6. CASE c.to # GetSuccessor(p.list, n)
  <2>1. GetSuccessor(list, n) = GetSuccessor(p.list, n)
    BY <1>1, <1>2, <1>6, FailedSuccessor
  <2>2. CASE PingTimeout(c)
    BY <1>1, <1>4, <2>1, <2>2, OneGetsCloser DEF PingTimeout
  <2>3. CASE HandleRpcTimeout(c)
    <3>1. IsEmpty(list, n) => GetSuccessor(p.list, n) = n
      BY <1>1, <1>3, <2>1, SuccessorIsFirst DEF IsEmpty, List
    <3>2. r = IF q.state = "READY" /\ Empty(q, n) THEN JoinOverlay(n, q) ELSE q
      BY DEF HandleTimeout
    <3> HIDE DEF q, r, list
    <3>3. JoinOverlay(n, q).list = Initial(n)
      <4>1. [q EXCEPT !.predecessor = None, !.list = Initial(n)] \in Peer
        BY <1>1, <1>4, InitialIsGood DEF Peer
      <4> QED
        BY <1>1, <1>4, <4>1, InitialIsGood, EnterIsGood DEF JoinOverlay, Peer
    <3>4. GetSuccessor(Initial(n), n) = n
      BY <1>1, SuccessorIsFirst, SMTT(30) DEF Initial
    <3>5. GetSuccessor(r.list, n) = GetSuccessor(p.list, n)
      BY <1>4, <2>1, <3>1, <3>2, <3>3, <3>4 DEF Empty
    <3> QED
      BY <1>1, <2>3, <3>5, OneGetsCloser DEF HandleRpcTimeout, r
  <2> QED
    BY <2>2, <2>3
<1> QED
  BY <1>5, <1>6

LEMMA StepGetsCloser ==
    ASSUME IInv, [Next]_vars
    PROVE  \A m \in Node : GetsCloser(m)
<1>1. CASE UNCHANGED vars
  BY <1>1, NobodyChanges DEF vars
<1>2. ASSUME NEW c \in calls, Handle(c)
      PROVE  \A m \in Node : GetsCloser(m)
  <2>1. CASE JoinTimeout(c) \/ Dropped(c) \/ PingResponse(c)
    BY <2>1, NobodyChanges DEF JoinTimeout, Dropped, PingResponse
  <2> QED
    BY <1>2, <2>1, MessageGetsCloser, AnswerGetsCloser, TimeoutGetsCloser DEF Handle
<1> QED
  BY <1>1, <1>2, NodeGetsCloser DEF Next
-------------------------------------------------------------------------------
(***************************************************************************)
(* The theorems.                                                           *)
(***************************************************************************)
\* IInv holds in every reachable state.
THEOREM Invariance == Spec => []IInv
<1>1. Init => IInv
  BY InitInv
<1>2. IInv /\ [Next]_vars => IInv'
  BY NextInv
<1> QED
  BY <1>1, <1>2, PTL DEF Spec

\* Type correctness: a successor list always holds a node, and never more than
\* successorListSize once a handler has ended.
THEOREM TypeCorrect == Spec => []TypeOK
<1>1. IInv => TypeOK
  BY DEF IInv
<1> QED
  BY <1>1, Invariance, PTL

\* No node ever calls itself, so failed != thisNode in handleFailedNode and the
\* !isEmpty() at the end of updateList hold; a node that joins has no predecessor.
THEOREM Assertions == Spec => []AssertionsHold
<1>1. IInv => AssertionsHold
  BY DEF IInv, CallsGood, GoodCall, PeersGood, GoodPredecessor, AssertionsHold
<1> QED
  BY <1>1, Invariance, PTL

\* With checkPredecessorDelay 0 a READY node that has a predecessor has a successor,
\* so findNode never throws, whatever joins, fails and stabilizes at once.
THEOREM NeverIsolated == Spec => []ReadyHasSuccessor
<1>1. IInv => ReadyHasSuccessor
  BY DEF IInv
<1> QED
  BY <1>1, Invariance, PTL

\* A READY node's successor is replaced only by a nearer one that a hint, a
\* stabilization or a joining node names, or because it did not answer.
THEOREM SuccessorOnlyGetsCloser == Spec => SuccessorGetsCloser
<1>1. IInv /\ [Next]_vars => [\A n \in Node : GetsCloser(n)]_vars
  BY StepGetsCloser
<1>2. Spec => [][\A n \in Node : GetsCloser(n)]_vars
  BY <1>1, Invariance, PTL DEF Spec
<1> QED
  BY <1>2 DEF SuccessorGetsCloser, GetsCloser

\* While the arcs are apart no key has two responsible nodes, and before the first failure
\* only a node that has lost its predecessor, and believes whoever notifies it, ends that.
THEOREM ArcsStayApart == Spec => ResponsibleOnce
<1>1. Init => ArcInv
  BY InitApart
<1>2. IInv /\ ArcInv /\ [Next]_vars => ArcInv'
  BY NextApart
<1>3. IInv /\ ArcInv /\ [Next]_vars =>
        (ArcsApart =>
           /\ OneResponsible
           /\ NoneFailed' => ArcsApart' \/ \E n \in Node : TakesAnother(n))
  BY NextApart, ApartIsOnce DEF StaysApart
<1> QED
  BY <1>1, <1>2, <1>3, Invariance, PTL DEF Spec, ResponsibleOnce

\* A ring in which no node has failed, or lost its predecessor but with its last successor,
\* has one responsible node for each key, whatever joins overlap.
Whole == NoneFailed /\ \A n \in Node : ~ LostPredecessor(n)

THEOREM WholeRingIsConsistent == Spec /\ []Whole => []OneResponsible
<1>1. Init => ArcInv /\ ArcsApart
  BY InitApart
<1>2. IInv /\ ArcInv /\ ArcsApart /\ Whole /\ Whole' /\ [Next]_vars => ArcInv' /\ ArcsApart'
  BY NextApart DEF StaysApart, Whole, TakesAnother
<1>3. IInv /\ ArcsApart => OneResponsible
  BY ApartIsOnce
<1> QED
  BY <1>1, <1>2, <1>3, Invariance, PTL DEF Spec
===============================================================================
