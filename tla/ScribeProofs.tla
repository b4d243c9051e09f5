------------------------------ MODULE ScribeProofs ------------------------------
(***************************************************************************)
(* The tree of a Scribe group has no cycle and the timers of its nodes     *)
(* agree with their children, whatever nodes there are, however messages   *)
(* are delayed, reordered or lost, and whenever timers expire.  Unless     *)
(* messages are lost, the group is connected when nothing is left to wait  *)
(* for; and data that is published on a whole tree reaches each of its     *)
(* nodes once.                                                             *)
(***************************************************************************)
EXTENDS Scribe, WellFoundedInduction, TLAPS

Group == [there : BOOLEAN, parent : Node \cup {None}, children : SUBSET Node,
          subscribed : BOOLEAN, source : BOOLEAN, rendezvous : Node \cup {None},
          parentTimer : BOOLEAN, heartbeat : BOOLEAN]
MessageType == {"join", "joinResponse", "leave", "publish", "publishResponse", "data"}
Message == [type : MessageType, src : Node, dst : Node, routed : BOOLEAN, wrongRoot : BOOLEAN, id : Int]

Types ==
    /\ config \in Config /\ alive \subseteq Node
    /\ known \in [Node -> SUBSET Node]
    /\ group \in [Node -> Group]
    /\ childTimeoutList \in [Node -> SUBSET Node]
    /\ msgs \subseteq Message

\* What the timers of a node have to do with its group.
TimersAgree(g, list) ==
    /\ ~g.there => g = NoGroup
    /\ list = g.children
    /\ IsForwarder(g) => g.heartbeat

\* A join only gets closer to the key, so its answer comes from a node that is not farther
\* from it.
TowardsKey(m) == /\ m.type = "join" => m.dst <= m.src
                 /\ m.type = "joinResponse" => m.src <= m.dst

IInv ==
    /\ Types
    /\ \A n \in Node : TimersAgree(group[n], childTimeoutList[n])
    /\ \A n \in Node : group[n].parent <= n
    /\ \A m \in msgs : TowardsKey(m)

LEMMA NoGroupIsGroup == NoGroup \in Group /\ ~NoGroup.there /\ NoGroup.children = {} /\ NoGroup.parent = None
BY DEF NoGroup, Group, None

\* Every set of natural numbers has a least one.
LEMMA Least ==
    ASSUME NEW S \in SUBSET Nat, S # {}
    PROVE  \E x \in S : \A y \in S : x <= y
<1> DEFINE R == OpToRel(<, Nat)
<1>1. IsWellFoundedOn(R, Nat)
  BY NatLessThanWellFounded
<1>2. \A x, y \in Nat : x < y => <<x, y>> \in R
  BY DEF OpToRel
<1> HIDE DEF R
<1>3. PICK x \in S : \A y \in S : ~ (<<y, x>> \in R)
  BY <1>1, WFMin
<1>4. \A y \in S : ~ (y < x)
  BY <1>2, <1>3
<1>5. x \in Nat /\ \A y \in S : y \in Nat
  BY <1>3
<1>6. \A y \in S : x <= y
  BY <1>4, <1>5
<1> QED
  BY <1>6

LEMMA Natural == Node \subseteq Nat /\ None \notin Node /\ None \in Nat
BY ScribeAssumption DEF None
-----------------------------------------------------------------------------
LEMMA UsesFacts ==
    ASSUME NEW bound \in {"joins", "failures", "subscribes", "leaves", "publishes", "losses"},
           config \in Config, Uses(bound)
    PROVE  config' \in Config
BY DEF Uses, Config

\* A node routes to itself or to a known node that is closer.
LEMMA HopsFacts ==
    ASSUME Types, NEW n \in Node, NEW hop \in Hops(n)
    PROVE  hop \in Node /\ hop <= n
BY Natural DEF Hops, Types

LEMMA MsgFacts ==
    ASSUME NEW s \in Node, NEW d \in Node, NEW type \in MessageType
    PROVE  /\ Msg(type, s, d) \in Message /\ Routed(type, s, d) \in Message
           /\ Msg(type, s, d).type = type /\ Routed(type, s, d).type = type
           /\ Msg(type, s, d).src = s /\ Routed(type, s, d).src = s
           /\ Msg(type, s, d).dst = d /\ Routed(type, s, d).dst = d
<1>1. Msg(type, s, d) \in Message /\ Msg(type, s, d).type = type /\ Msg(type, s, d).src = s /\ Msg(type, s, d).dst = d
  BY DEF Msg, Message
<1>2. ASSUME NEW m \in Message
      PROVE  /\ [m EXCEPT !.routed = TRUE] \in Message
             /\ [m EXCEPT !.routed = TRUE].type = m.type
             /\ [m EXCEPT !.routed = TRUE].src = m.src
             /\ [m EXCEPT !.routed = TRUE].dst = m.dst
  BY DEF Message
<1> QED
  BY <1>1, <1>2 DEF Routed

\* Good messages: what the invariant says of the messages of a set.
Good(M) == M \subseteq Message /\ \A m \in M : TowardsKey(m)

LEMMA GoodFacts ==
    ASSUME NEW A, NEW B, Good(A), Good(B)
    PROVE  Good(A \cup B) /\ \A C : Good(A \ C)
BY DEF Good

LEMMA JoinsGood ==
    ASSUME NEW n \in Node, NEW hop \in Node, hop <= n, NEW asks
    PROVE  Good(Joins(n, asks, hop))
BY MsgFacts DEF Good, Joins, TowardsKey, MessageType

LEMMA LeavesGood ==
    ASSUME NEW n \in Node, NEW g \in Group
    PROVE  Good(Leaves(n, g))
BY MsgFacts DEF Good, Leaves, TowardsKey, Group, MessageType

LEMMA OtherGood ==
    ASSUME NEW m \in Message, m.type \notin {"join", "joinResponse"}
    PROVE  Good({m})
BY DEF Good, TowardsKey

LEMMA CopiesGood ==
    ASSUME NEW n \in Node, group \in [Node -> Group], NEW id \in Int
    PROVE  Good(Copies(n, id))
<1>1. ASSUME NEW c \in Node
      PROVE  [Msg("data", n, c) EXCEPT !.id = id] \in Message /\ [Msg("data", n, c) EXCEPT !.id = id].type = "data"
  BY DEF Msg, Message, MessageType
<1> QED
  BY <1>1 DEF Good, Copies, TowardsKey, Group

\* checkGroupEmpty() keeps the timers of a node in agreement with its group.
LEMMA CheckedFacts ==
    ASSUME NEW g \in Group, NEW list, TimersAgree(g, list)
    PROVE  /\ Checked(g) \in Group /\ TimersAgree(Checked(g), list)
           /\ Checked(g).parent \in {g.parent, None}
BY NoGroupIsGroup DEF Checked, TimersAgree, IsEmpty, IsForwarder
-----------------------------------------------------------------------------
(***************************************************************************)
(* The actions.  Of an action that changes one node's group, what the      *)
(* invariant says of that node is shown, and of the messages it sends.     *)
(***************************************************************************)
\* The invariant is kept by a step that makes one group and its timers good.
LEMMA Change ==
    ASSUME IInv, config' \in Config, alive' \subseteq Node, known' \in [Node -> SUBSET Node],
           NEW n \in Node, NEW g \in Group, NEW list \in SUBSET Node,
           TimersAgree(g, list), g.parent <= n,
           group' = [group EXCEPT ![n] = g],
           childTimeoutList' = [childTimeoutList EXCEPT ![n] = list],
           Good(msgs')
    PROVE  IInv'
<1>1. Types'
  BY DEF IInv, Types, Good
<1>2. \A k \in Node : TimersAgree(group'[k], childTimeoutList'[k]) /\ group'[k].parent <= k
  BY DEF IInv, Types
<1> QED
  BY <1>1, <1>2 DEF IInv, Good

\* A step that leaves the timers alone.
LEMMA ChangeGroup ==
    ASSUME IInv, config' \in Config, alive' \subseteq Node, known' \in [Node -> SUBSET Node],
           NEW n \in Node, NEW g \in Group, TimersAgree(g, childTimeoutList[n]), g.parent <= n,
           group' = [group EXCEPT ![n] = g], UNCHANGED childTimeoutList, Good(msgs')
    PROVE  IInv'
<1>1. childTimeoutList' = [childTimeoutList EXCEPT ![n] = childTimeoutList[n]]
  BY DEF IInv, Types
<1>2. childTimeoutList[n] \in SUBSET Node
  BY DEF IInv, Types
<1> QED
  BY <1>1, <1>2, Change

\* So is it by a step that changes no group.
LEMMA NoChange ==
    ASSUME IInv, config' \in Config, alive' \subseteq Node, known' \in [Node -> SUBSET Node],
           UNCHANGED <<group, childTimeoutList>>, Good(msgs')
    PROVE  IInv'
BY DEF IInv, Types, Good

LEMMA Now ==
    ASSUME IInv
    PROVE  /\ Types /\ Good(msgs)
           /\ \A n \in Node : /\ group[n] \in Group /\ childTimeoutList[n] \in SUBSET Node
                              /\ TimersAgree(group[n], childTimeoutList[n])
                              /\ group[n].parent <= n
           /\ \A m \in msgs : m \in Message /\ m.src \in Node /\ m.dst \in Node /\ TowardsKey(m)
BY DEF IInv, Types, Good, Message

LEMMA SubscribeKeeps ==
    ASSUME IInv, NEW n \in Node, SubscribeToGroup(n)
    PROVE  IInv'
<1> DEFINE g == [group[n] EXCEPT !.there = TRUE, !.subscribed = TRUE]
<1>1. config' \in Config
  BY Now, UsesFacts DEF SubscribeToGroup, Types
<1>2. Good(msgs')
  <2>1. PICK hop \in Hops(n) : msgs' = msgs \cup Joins(n, Asks(group[n]), hop)
    BY DEF SubscribeToGroup
  <2> QED
    BY <2>1, Now, HopsFacts, JoinsGood, GoodFacts
<1>3. /\ group' = [group EXCEPT ![n] = g]
      /\ UNCHANGED <<alive, known, childTimeoutList>>
  BY DEF SubscribeToGroup
<1>4. group[n] \in Group /\ TimersAgree(group[n], childTimeoutList[n]) /\ group[n].parent <= n
  BY Now
<1>5. g \in Group /\ g.there /\ g.parent = group[n].parent
      /\ g.children = group[n].children /\ g.heartbeat = group[n].heartbeat
  BY <1>4 DEF Group
<1> HIDE DEF g
<1>6. TimersAgree(g, childTimeoutList[n]) /\ g.parent <= n
  BY <1>4, <1>5 DEF TimersAgree, IsForwarder
<1> QED
  BY <1>1, <1>2, <1>3, <1>5, <1>6, Now, ChangeGroup DEF Types

LEMMA LeaveKeeps ==
    ASSUME IInv, NEW n \in Node, LeaveGroup(n)
    PROVE  IInv'
<1> DEFINE g == [group[n] EXCEPT !.subscribed = FALSE]
<1>1. config' \in Config
  BY Now, UsesFacts DEF LeaveGroup, Types
<1>2. group[n] \in Group /\ TimersAgree(group[n], childTimeoutList[n]) /\ group[n].parent <= n
  BY Now
<1>3. group[n].there
  BY <1>2 DEF LeaveGroup, TimersAgree, NoGroup
<1>4. g \in Group /\ g.there = group[n].there /\ g.parent = group[n].parent
      /\ g.children = group[n].children /\ g.heartbeat = group[n].heartbeat
  BY <1>2 DEF Group
<1>5. /\ group' = [group EXCEPT ![n] = Checked(g)] /\ msgs' = msgs \cup Leaves(n, g)
      /\ UNCHANGED <<alive, known, childTimeoutList>>
  BY DEF LeaveGroup
<1> HIDE DEF g
<1>6. TimersAgree(g, childTimeoutList[n])
  BY <1>2, <1>3, <1>4 DEF TimersAgree, IsForwarder
<1>7. Checked(g) \in Group /\ TimersAgree(Checked(g), childTimeoutList[n]) /\ Checked(g).parent <= n
  BY <1>2, <1>4, <1>6, CheckedFacts, Natural DEF None
<1>8. Good(msgs')
  BY <1>4, <1>5, Now, LeavesGood, GoodFacts
<1> QED
  BY <1>1, <1>5, <1>7, <1>8, Now, ChangeGroup DEF Types

LEMMA PublishKeeps ==
    ASSUME IInv, NEW n \in Node, Publish(n)
    PROVE  IInv'
<1> DEFINE g == [group[n] EXCEPT !.there = TRUE, !.source = group[n].source \/ ~group[n].there]
<1>1. config' \in Config /\ config.publishes \in Int
  <2>1. config \in Config
    BY Now DEF Types
  <2> QED
    BY <2>1, UsesFacts DEF Publish, Config
<1>2. Good(msgs')
  <2>1. ASSUME NEW m \in Message, m.type = "publish"
        PROVE  Good({[m EXCEPT !.id = config.publishes]})
    <3>1. /\ [m EXCEPT !.id = config.publishes] \in Message
          /\ [m EXCEPT !.id = config.publishes].type = "publish"
      BY <1>1, <2>1 DEF Message
    <3> QED
      BY <3>1, OtherGood
  <2>2. \/ \E hop \in Hops(n) :
             msgs' = msgs \cup {[Routed("publish", n, hop) EXCEPT !.id = config.publishes]}
        \/ group[n].rendezvous # None
           /\ msgs' = msgs \cup {[Msg("publish", n, group[n].rendezvous) EXCEPT !.id = config.publishes]}
    BY DEF Publish
  <2>3. group[n] \in Group
    BY Now
  <2>4. group[n].rendezvous \in Node \cup {None}
    BY <2>3 DEF Group
  <2>5. "publish" \in MessageType
    BY DEF MessageType
  <2>6. \A d \in Node : /\ Msg("publish", n, d) \in Message /\ Msg("publish", n, d).type = "publish"
                        /\ Routed("publish", n, d) \in Message /\ Routed("publish", n, d).type = "publish"
    BY <2>5, MsgFacts
  <2>7. Types /\ Good(msgs)
    BY Now
  <2>8. CASE \E hop \in Hops(n) :
             msgs' = msgs \cup {[Routed("publish", n, hop) EXCEPT !.id = config.publishes]}
    <3>1. PICK hop \in Hops(n) :
             msgs' = msgs \cup {[Routed("publish", n, hop) EXCEPT !.id = config.publishes]}
      BY <2>8
    <3>2. hop \in Node
      BY <2>7, HopsFacts
    <3>3. Good({[Routed("publish", n, hop) EXCEPT !.id = config.publishes]})
      BY <2>1, <2>6, <3>2
    <3> QED
      BY <2>7, <3>1, <3>3, GoodFacts
  <2>9. CASE group[n].rendezvous # None
           /\ msgs' = msgs \cup {[Msg("publish", n, group[n].rendezvous) EXCEPT !.id = config.publishes]}
    BY <2>1, <2>4, <2>6, <2>7, <2>9, GoodFacts
  <2> QED
    BY <2>2, <2>8, <2>9
<1>3. /\ group' = [group EXCEPT ![n] = g]
      /\ UNCHANGED <<alive, known, childTimeoutList>>
  BY DEF Publish
<1>4. group[n] \in Group /\ TimersAgree(group[n], childTimeoutList[n]) /\ group[n].parent <= n
  BY Now
<1>5. g \in Group /\ g.there /\ g.parent = group[n].parent
      /\ g.children = group[n].children /\ g.heartbeat = group[n].heartbeat
  BY <1>4 DEF Group
<1> HIDE DEF g
<1>6. TimersAgree(g, childTimeoutList[n]) /\ g.parent <= n
  BY <1>4, <1>5 DEF TimersAgree, IsForwarder
<1> QED
  BY <1>1, <1>2, <1>3, <1>5, <1>6, Now, ChangeGroup DEF Types

\* A node that gets a join takes its sender as a child.
LEMMA JoinKeeps ==
    ASSUME IInv, NEW m \in msgs, HandleJoinMessage(m)
    PROVE  IInv'
<1> DEFINE n == m.dst
           c == m.src
           joined == [group[n] EXCEPT !.there = TRUE,
                                      !.heartbeat = group[n].heartbeat \/ ~IsForwarder(group[n])]
           g == AddChild(n, joined, c)
           list == childTimeoutList[n] \cup ({c} \ {n})
<1>1. m \in Message /\ n \in Node /\ c \in Node /\ TowardsKey(m) /\ m.type = "join"
  BY Now DEF HandleJoinMessage
<1>2. group[n] \in Group /\ TimersAgree(group[n], childTimeoutList[n]) /\ group[n].parent <= n
      /\ childTimeoutList[n] \in SUBSET Node
  BY <1>1, Now
<1>3. /\ group' = [group EXCEPT ![n] = g]
      /\ childTimeoutList' = [childTimeoutList EXCEPT ![n] = list]
      /\ UNCHANGED <<config, alive, known>>
  BY DEF HandleJoinMessage
<1>4. Good(msgs')
  <2>1. PICK hop, asks :
            /\ hop \in Hops(n)
            /\ msgs' = (msgs \ {m}) \cup {Msg("joinResponse", n, c)} \cup Joins(n, asks, hop)
    BY DEF HandleJoinMessage
  <2>2. Good(Joins(n, asks, hop))
    BY <1>1, <2>1, Now, HopsFacts, JoinsGood
  <2>3. Good({Msg("joinResponse", n, c)})
    <3>1. n <= c
      BY <1>1 DEF TowardsKey
    <3> QED
      BY <1>1, <3>1, MsgFacts DEF Good, TowardsKey, MessageType
  <2>4. Good(msgs \ {m})
    BY Now, GoodFacts
  <2> QED
    BY <2>1, <2>2, <2>3, <2>4, GoodFacts
<1>5. /\ joined \in Group /\ joined.there /\ joined.parent = group[n].parent
      /\ joined.children = group[n].children
      /\ joined.heartbeat = (group[n].heartbeat \/ ~IsForwarder(group[n]))
  BY <1>2 DEF Group
<1>6. joined.heartbeat
  BY <1>2, <1>5 DEF TimersAgree
<1> HIDE DEF joined
<1>7. CASE c = n
  <2>1. g = joined /\ list = childTimeoutList[n]
    BY <1>7 DEF AddChild
  <2> HIDE DEF g, list
  <2>2. TimersAgree(g, list) /\ g.parent <= n /\ g \in Group /\ list \in SUBSET Node
    BY <1>2, <1>5, <1>6, <2>1 DEF TimersAgree
  <2> QED
    BY <1>1, <1>3, <1>4, <2>2, Now, Change DEF Types
<1>8. CASE c # n
  <2>1. g = [joined EXCEPT !.children = joined.children \cup {c}]
    BY <1>8 DEF AddChild
  <2>2. g \in Group /\ g.there /\ g.parent = group[n].parent /\ g.heartbeat
        /\ g.children = group[n].children \cup {c}
    BY <1>1, <1>5, <1>6, <2>1 DEF Group
  <2>3. list = group[n].children \cup {c}
    BY <1>2, <1>8 DEF TimersAgree
  <2> HIDE DEF g, list
  <2>4. TimersAgree(g, list) /\ list \in SUBSET Node /\ g.parent <= n
    BY <1>1, <1>2, <2>2, <2>3 DEF TimersAgree
  <2> QED
    BY <1>1, <1>3, <1>4, <2>2, <2>4, Now, Change DEF Types
<1> QED
  BY <1>7, <1>8

\* The answer of a join comes from a node that is not farther from the key.
LEMMA JoinResponseKeeps ==
    ASSUME IInv, NEW m \in msgs, HandleJoinResponse(m)
    PROVE  IInv'
<1> DEFINE n == m.dst
           g == [group[n] EXCEPT !.parent = m.src, !.parentTimer = TRUE]
<1>1. m \in Message /\ n \in Node /\ m.src \in Node /\ m.src <= n
  BY Now DEF HandleJoinResponse, TowardsKey
<1>2. Good(msgs') /\ UNCHANGED <<config, alive, known, childTimeoutList>>
  BY Now, GoodFacts DEF HandleJoinResponse
<1>3. group[n] \in Group /\ TimersAgree(group[n], childTimeoutList[n])
  BY <1>1, Now
<1>4. CASE group[n].there
  <2>1. group' = [group EXCEPT ![n] = g]
    BY <1>4 DEF HandleJoinResponse
  <2>2. g \in Group /\ g.there /\ g.parent = m.src
        /\ g.children = group[n].children /\ g.heartbeat = group[n].heartbeat
    BY <1>1, <1>3, <1>4 DEF Group
  <2> HIDE DEF g
  <2>3. TimersAgree(g, childTimeoutList[n]) /\ g.parent <= n
    BY <1>1, <1>3, <2>2 DEF TimersAgree, IsForwarder
  <2> QED
    BY <1>1, <1>2, <2>1, <2>2, <2>3, Now, ChangeGroup DEF Types
<1>5. CASE ~group[n].there
  BY <1>2, <1>5, Now, NoChange DEF HandleJoinResponse, Types
<1> QED
  BY <1>4, <1>5

\* removeChildFromGroup()
LEMMA RemoveChildFacts ==
    ASSUME IInv, NEW n \in Node, NEW c, group[n].there, RemoveChild(n, c),
           msgs' \subseteq msgs \cup Leaves(n, [group[n] EXCEPT !.children = group[n].children \ {c}]),
           config' \in Config, UNCHANGED <<alive, known>>
    PROVE  IInv'
<1> DEFINE g == [group[n] EXCEPT !.children = group[n].children \ {c}]
<1>1. group[n] \in Group /\ TimersAgree(group[n], childTimeoutList[n]) /\ group[n].parent <= n
      /\ childTimeoutList[n] \in SUBSET Node
  BY Now
<1>2. /\ group' = [group EXCEPT ![n] = Checked(g)]
      /\ childTimeoutList' = [childTimeoutList EXCEPT ![n] = childTimeoutList[n] \ {c}]
  BY DEF RemoveChild, WithoutTimer
<1>3. g \in Group /\ g.there = group[n].there /\ g.parent = group[n].parent
      /\ g.children = group[n].children \ {c} /\ g.heartbeat = group[n].heartbeat
  BY <1>1 DEF Group
<1>4. Good(msgs')
  <2>1. Good(Leaves(n, g))
    BY <1>3, LeavesGood
  <2> QED
    BY <2>1, Now DEF Good
<1> HIDE DEF g
<1>5. TimersAgree(g, childTimeoutList[n] \ {c})
  BY <1>1, <1>3 DEF TimersAgree, IsForwarder
<1>6. Checked(g) \in Group /\ TimersAgree(Checked(g), childTimeoutList[n] \ {c}) /\ Checked(g).parent <= n
  BY <1>1, <1>3, <1>5, CheckedFacts, Natural DEF None
<1> QED
  BY <1>1, <1>2, <1>4, <1>6, Now, Change DEF Types

LEMMA LeaveMessageKeeps ==
    ASSUME IInv, NEW m \in msgs, HandleLeaveMessage(m)
    PROVE  IInv'
<1>1. m.dst \in Node /\ config' \in Config /\ UNCHANGED <<config, alive, known>>
  BY Now DEF HandleLeaveMessage, Types
<1>2. CASE group[m.dst].there
  BY <1>1, <1>2, RemoveChildFacts DEF HandleLeaveMessage
<1>3. CASE ~group[m.dst].there
  <2>1. UNCHANGED <<group, childTimeoutList>> /\ msgs' = msgs \ {m}
    BY <1>3 DEF HandleLeaveMessage
  <2>2. Good(msgs')
    BY <2>1, Now, GoodFacts
  <2> QED
    BY <1>1, <2>1, <2>2, Now, NoChange DEF Types
<1> QED
  BY <1>2, <1>3

LEMMA ChildTimeoutKeeps ==
    ASSUME IInv, NEW n \in Node, NEW c \in Node, HandleChildTimeout(n, c)
    PROVE  IInv'
<1>1. config' \in Config
  BY Now, UsesFacts DEF HandleChildTimeout, Types
<1>2. group[n].there
  <2>1. TimersAgree(group[n], childTimeoutList[n]) /\ c \in childTimeoutList[n]
    BY Now DEF HandleChildTimeout
  <2> QED
    BY <2>1, NoGroupIsGroup DEF TimersAgree
<1> QED
  BY <1>1, <1>2, RemoveChildFacts DEF HandleChildTimeout

LEMMA ParentTimeoutKeeps ==
    ASSUME IInv, NEW n \in Node, HandleParentTimeout(n)
    PROVE  IInv'
<1> DEFINE g == [group[n] EXCEPT !.parentTimer = FALSE]
<1>1. config' \in Config /\ UNCHANGED <<alive, known, childTimeoutList>>
  BY Now, UsesFacts DEF HandleParentTimeout, Types
<1>2. Good(msgs')
  <2>1. PICK hop \in Hops(n) : msgs' = msgs \cup Joins(n, TRUE, hop)
    BY DEF HandleParentTimeout
  <2> QED
    BY <2>1, Now, HopsFacts, JoinsGood, GoodFacts
<1>3. group[n] \in Group /\ TimersAgree(group[n], childTimeoutList[n]) /\ group[n].parent <= n
  BY Now
<1>4. group[n].there
  BY <1>3 DEF HandleParentTimeout, TimersAgree, NoGroup
<1>5. g \in Group /\ g.there = group[n].there /\ g.parent = group[n].parent
      /\ g.children = group[n].children /\ g.heartbeat = group[n].heartbeat
  BY <1>3 DEF Group
<1>6. group' = [group EXCEPT ![n] = g]
  BY DEF HandleParentTimeout
<1> HIDE DEF g
<1>7. TimersAgree(g, childTimeoutList[n]) /\ g.parent <= n
  BY <1>3, <1>4, <1>5 DEF TimersAgree, IsForwarder
<1> QED
  BY <1>1, <1>2, <1>5, <1>6, <1>7, Now, ChangeGroup DEF Types

LEMMA PublishCallKeeps ==
    ASSUME IInv, NEW m \in msgs, HandlePublishCall(m)
    PROVE  IInv'
<1> DEFINE n == m.dst
           wrong == ~(group[n].there /\ group[n].parent = n)
           answer == [Msg("publishResponse", n, m.src) EXCEPT !.wrongRoot = wrong]
<1>1. m \in Message /\ n \in Node /\ m.src \in Node /\ m.type = "publish"
  BY Now DEF HandlePublishCall
<1>2. ASSUME NEW hop \in Hops(n)
      PROVE  Good({[m EXCEPT !.dst = hop]})
  <2>1. hop \in Node
    BY <1>1, Now, HopsFacts
  <2>2. [m EXCEPT !.dst = hop] \in Message /\ [m EXCEPT !.dst = hop].type = "publish"
    BY <1>1, <2>1 DEF Message
  <2> QED
    BY <2>2, OtherGood
<1>3. Good({answer})
  <2>1. ASSUME NEW r \in Message, r.type = "publishResponse"
        PROVE  /\ [r EXCEPT !.wrongRoot = wrong] \in Message
               /\ [r EXCEPT !.wrongRoot = wrong].type = "publishResponse"
    BY <2>1 DEF Message
  <2>2. Msg("publishResponse", n, m.src) \in Message /\ Msg("publishResponse", n, m.src).type = "publishResponse"
    BY <1>1, MsgFacts DEF MessageType
  <2> QED
    BY <2>1, <2>2, OtherGood
<1>4. Good(Copies(n, m.id))
  BY <1>1, Now, CopiesGood DEF Types, Message
<1>5. \/ \E hop \in Hops(n) : msgs' = (msgs \ {m}) \cup {[m EXCEPT !.dst = hop]}
      \/ msgs' = (msgs \ {m}) \cup {answer} \cup Copies(n, m.id)
      \/ msgs' = (msgs \ {m}) \cup {answer}
  BY DEF HandlePublishCall
<1> HIDE DEF answer
<1>6. Good(msgs \ {m})
  BY Now, GoodFacts
<1>7. Good(msgs')
  <2>1. ASSUME NEW hop \in Hops(n), msgs' = (msgs \ {m}) \cup {[m EXCEPT !.dst = hop]}
        PROVE  Good(msgs')
    BY <1>2, <1>6, <2>1, GoodFacts
  <2>2. Good((msgs \ {m}) \cup {answer})
    BY <1>3, <1>6, GoodFacts
  <2>3. Good((msgs \ {m}) \cup {answer} \cup Copies(n, m.id))
    BY <1>4, <2>2, GoodFacts
  <2> QED
    BY <1>5, <2>1, <2>2, <2>3
<1> QED
  BY <1>7, Now, NoChange DEF HandlePublishCall, Types

LEMMA PublishResponseKeeps ==
    ASSUME IInv, NEW m \in msgs, HandlePublishResponse(m)
    PROVE  IInv'
<1> DEFINE n == m.dst
           root == IF m.wrongRoot THEN None ELSE m.src
           g == [group[n] EXCEPT !.rendezvous = root]
<1>1. n \in Node /\ root \in Node \cup {None}
  BY Now
<1>2. Good(msgs') /\ UNCHANGED <<config, alive, known, childTimeoutList>>
  BY Now, GoodFacts DEF HandlePublishResponse
<1>3. group[n] \in Group /\ TimersAgree(group[n], childTimeoutList[n]) /\ group[n].parent <= n
  BY <1>1, Now
<1>4. group' = IF ~group[n].there THEN group ELSE [group EXCEPT ![n] = g]
  BY DEF HandlePublishResponse
<1> HIDE DEF root
<1>5. CASE group[n].there
  <2>1. g \in Group /\ g.there /\ g.parent = group[n].parent
        /\ g.children = group[n].children /\ g.heartbeat = group[n].heartbeat
    BY <1>1, <1>3, <1>5 DEF Group
  <2> HIDE DEF g
  <2>2. TimersAgree(g, childTimeoutList[n]) /\ g.parent <= n
    BY <1>3, <2>1 DEF TimersAgree, IsForwarder
  <2> QED
    BY <1>1, <1>2, <1>4, <1>5, <2>1, <2>2, Now, ChangeGroup DEF Types
<1>6. CASE ~group[n].there
  BY <1>2, <1>4, <1>6, Now, NoChange DEF Types
<1> QED
  BY <1>5, <1>6

LEMMA DataKeeps ==
    ASSUME IInv, NEW m \in msgs, HandleData(m)
    PROVE  IInv'
<1>1. Good(Copies(m.dst, m.id)) /\ Good(msgs \ {m})
  BY Now, CopiesGood, GoodFacts DEF Types, Message
<1>2. Good(msgs')
  BY <1>1, GoodFacts DEF HandleData
<1> QED
  BY <1>2, Now, NoChange DEF HandleData, Types

LEMMA LossKeeps ==
    ASSUME IInv, NEW m \in msgs, Drop(m) \/ Lose(m)
    PROVE  IInv'
<1>1. CASE Drop(m)
  BY <1>1, Now, GoodFacts, NoChange DEF Drop, Types
<1>2. CASE Lose(m)
  BY <1>2, Now, UsesFacts, GoodFacts, NoChange DEF Lose, Types
<1> QED
  BY <1>1, <1>2

LEMMA AppearKeeps ==
    ASSUME IInv, NEW x \in Node, Appear(x)
    PROVE  IInv'
<1>1. config' \in Config
  BY Now, UsesFacts DEF Appear, Types
<1>2. known' \in [Node -> SUBSET Node] /\ alive' \subseteq Node /\ Good(msgs')
  BY Now DEF Appear, Types
<1> QED
  BY <1>1, <1>2, NoChange DEF Appear

\* The root asks only a node that is closer to take over.
LEMMA LearnKeeps ==
    ASSUME IInv, NEW n \in Node, NEW x \in Node, Learn(n, x)
    PROVE  IInv'
<1>1. Good(Updates(n, x))
  BY Natural, MsgFacts DEF Updates, IsCloser, Good, TowardsKey, MessageType
<1>2. known' \in [Node -> SUBSET Node]
  BY Now DEF Learn, Types
<1>3. Good(msgs')
  BY <1>1, Now, GoodFacts DEF Learn
<1> QED
  BY <1>2, <1>3, Now, NoChange DEF Learn, Types

LEMMA FailKeeps ==
    ASSUME IInv, NEW x \in Node, Fail(x)
    PROVE  IInv'
<1>1. config' \in Config
  BY Now, UsesFacts DEF Fail, Types
<1>2. known' \in [Node -> SUBSET Node] /\ alive' \subseteq Node /\ Good(msgs')
  BY Now DEF Fail, Types
<1>3. NoGroup \in Group /\ TimersAgree(NoGroup, {}) /\ NoGroup.parent <= x
  BY NoGroupIsGroup, Natural DEF TimersAgree, IsForwarder, None
<1> QED
  BY <1>1, <1>2, <1>3, Change DEF Fail

LEMMA ForgetKeeps ==
    ASSUME IInv, NEW n \in Node, NEW x \in Node, Forget(n, x)
    PROVE  IInv'
<1> DEFINE stopped == {m \in msgs : m.dst = x /\ m.src = n}
           again == \E m \in stopped : m.type = "join" /\ m.routed
           closer == {k \in known[n] \ {x} : k < n}
           hops == IF closer = {} THEN {n} ELSE closer
<1>1. PICK hop \in hops : msgs' = (msgs \ stopped) \cup Joins(n, again, hop)
  BY DEF Forget
<1>2. hop \in Node /\ hop <= n
  BY Now, Natural DEF Types
<1>3. Good(Joins(n, again, hop)) /\ Good(msgs \ stopped)
  BY <1>2, Now, JoinsGood, GoodFacts
<1>4. Good(msgs')
  BY <1>1, <1>3, GoodFacts
<1>5. known' \in [Node -> SUBSET Node]
  BY Now DEF Forget, Types
<1> QED
  BY <1>4, <1>5, Now, NoChange DEF Forget, Types
-----------------------------------------------------------------------------
LEMMA InitGood == Init => IInv
<1> SUFFICES ASSUME Init PROVE IInv
  OBVIOUS
<1>1. config \in Config /\ config.members \subseteq Node
  BY ScribeAssumption DEF Init, Config
<1>2. Types
  BY <1>1, NoGroupIsGroup DEF Init, Types
<1>3. \A n \in Node : group[n] = NoGroup /\ childTimeoutList[n] = {}
  BY DEF Init
<1> QED
  BY <1>2, <1>3, NoGroupIsGroup, Natural DEF Init, IInv, TimersAgree, IsForwarder, None

LEMMA StepKeeps == IInv /\ [Next]_vars => IInv'
<1> SUFFICES ASSUME IInv, [Next]_vars PROVE IInv'
  OBVIOUS
<1>1. CASE UNCHANGED vars
  BY <1>1, Now, NoChange DEF vars, Types
<1>2. ASSUME NEW m \in msgs, Receive(m) \/ Lose(m)
      PROVE  IInv'
  BY <1>2, JoinKeeps, JoinResponseKeeps, LeaveMessageKeeps, PublishCallKeeps,
     PublishResponseKeeps, DataKeeps, LossKeeps DEF Receive
<1>3. ASSUME NEW n \in Node, SubscribeToGroup(n) \/ LeaveGroup(n) \/ Publish(n)
                               \/ HandleParentTimeout(n) \/ Appear(n) \/ Fail(n)
      PROVE  IInv'
  BY <1>3, SubscribeKeeps, LeaveKeeps, PublishKeeps, ParentTimeoutKeeps, AppearKeeps, FailKeeps
<1>4. ASSUME NEW n \in Node, NEW x \in Node, HandleChildTimeout(n, x) \/ Learn(n, x) \/ Forget(n, x)
      PROVE  IInv'
  BY <1>4, ChildTimeoutKeeps, LearnKeeps, ForgetKeeps
<1> QED
  BY <1>1, <1>2, <1>3, <1>4 DEF Next

\* The invariant holds whatever happens.
THEOREM Invariance == Spec => []IInv
BY InitGood, StepKeeps, PTL DEF Spec

\* The timers agree with the children, and the tree has no cycle (addChildToGroup(),
\* removeChildFromGroup(), update()).
THEOREM TreeIsConsistent == Spec => []TreeConsistent
<1>1. IInv => TreeConsistent
  <2> SUFFICES ASSUME IInv PROVE TreeConsistent
    OBVIOUS
  <2>1. TypeOK
    BY Now DEF TypeOK, Types, Group, TimersAgree
  <2>2. \A n \in Node : group[n].parent \in {None} \cup 1 .. n
    BY Now, Natural DEF Group, None
  <2> QED
    BY <2>1, <2>2, Now DEF TreeConsistent, TimersAgree, Types
<1> QED
  BY <1>1, Invariance, PTL
-----------------------------------------------------------------------------
(***************************************************************************)
(* When nothing is lost, a node that has a place in the group hears from   *)
(* its parent or has a join on its way, so a quiet group is connected.     *)
(***************************************************************************)
Asking(M, n) == \E m \in M : \/ m.type = "join" /\ m.routed /\ m.src = n
                             \/ m.type = "joinResponse" /\ m.dst = n

\* The node has a place in the group, or had one that it still knows of.
Seeks(g) == g.subscribed \/ IsForwarder(g) \/ g.parent # None

Attached ==
    /\ \A n \in Node \ alive : group[n] = NoGroup
    /\ \A n \in Node : Seeks(group[n]) => group[n].parentTimer \/ Asking(msgs, n)

LEMMA NoGroupSeeksNothing == ~Seeks(NoGroup)
BY DEF NoGroup, Seeks, IsForwarder

\* A step that changes one group at most and removes no sign of life of a node that needs it.
LEMMA StaysAttached ==
    ASSUME Attached, NEW n \in Node, n \in alive' \/ group'[n] = NoGroup,
           \A k \in Node \ {n} :
               /\ group'[k] = group[k]
               /\ k \in alive => k \in alive'
               /\ k \in alive /\ Asking(msgs, k) => Asking(msgs', k),
           Seeks(group'[n]) => group'[n].parentTimer \/ Asking(msgs', n)
    PROVE  Attached'
<1>1. \A k \in Node \ alive' : group'[k] = NoGroup
  BY DEF Attached
<1>2. ASSUME NEW k \in Node \ {n}, Seeks(group'[k])
      PROVE  group'[k].parentTimer \/ Asking(msgs', k)
  <2>1. k \in alive
    BY <1>2, NoGroupSeeksNothing DEF Attached
  <2> QED
    BY <1>2, <2>1 DEF Attached
<1> QED
  BY <1>1, <1>2 DEF Attached

LEMMA MoreMessages ==
    ASSUME msgs \subseteq msgs', NEW n
    PROVE  Asking(msgs, n) => Asking(msgs', n)
BY DEF Asking

\* A message that is taken concerns one node only.
LEMMA LessMessages ==
    ASSUME NEW m, msgs \ {m} \subseteq msgs', NEW n,
           m.type = "join" => m.src # n, m.type = "joinResponse" => m.dst # n
    PROVE  Asking(msgs, n) => Asking(msgs', n)
BY DEF Asking

LEMMA JoinsAsk ==
    ASSUME NEW n \in Node, NEW hop \in Node, Joins(n, TRUE, hop) \subseteq msgs'
    PROVE  Asking(msgs', n)
<1>1. Routed("join", n, hop) \in msgs' /\ Routed("join", n, hop).type = "join"
      /\ Routed("join", n, hop).src = n
  BY MsgFacts DEF Joins, MessageType
<1>2. Routed("join", n, hop).routed
  BY DEF Routed, Msg
<1> QED
  BY <1>1, <1>2 DEF Asking

LEMMA SubscribeAttached ==
    ASSUME IInv, Attached, NEW n \in Node, SubscribeToGroup(n)
    PROVE  Attached'
<1>1. PICK hop \in Hops(n) : msgs' = msgs \cup Joins(n, Asks(group[n]), hop)
  BY DEF SubscribeToGroup
<1>2. hop \in Node
  BY Now, HopsFacts
<1>3. CASE Asks(group[n])
  <2>1. Asking(msgs', n)
    BY <1>1, <1>2, <1>3, JoinsAsk DEF Joins
  <2>2. \A k \in Node \ {n} : group'[k] = group[k] /\ (k \in alive => k \in alive')
    BY Now DEF SubscribeToGroup, Types
  <2> QED
    BY <1>1, <2>1, <2>2, MoreMessages, StaysAttached DEF SubscribeToGroup
<1>4. CASE ~Asks(group[n])
  <2>1. group[n] \in Group /\ group[n].there /\ group[n].parent # None
    BY <1>4, Now DEF Asks, Group
  <2>2. group[n].parentTimer \/ Asking(msgs, n)
    BY <2>1 DEF Attached, Seeks
  <2>3. group'[n].parentTimer = group[n].parentTimer
        /\ \A k \in Node \ {n} : group'[k] = group[k] /\ (k \in alive => k \in alive')
    BY <2>1, Now DEF SubscribeToGroup, Types, Group
  <2> QED
    BY <1>1, <2>2, <2>3, MoreMessages, StaysAttached DEF SubscribeToGroup
<1> QED
  BY <1>3, <1>4

\* A node whose group is checked seeks nothing that it did not seek before.
LEMMA CheckedSeeks ==
    ASSUME NEW g \in Group
    PROVE  Seeks(Checked(g)) => Seeks(g) /\ Checked(g) = g
BY NoGroupSeeksNothing DEF Checked

LEMMA LeaveAttached ==
    ASSUME IInv, Attached, NEW n \in Node, LeaveGroup(n)
    PROVE  Attached'
<1> DEFINE g == [group[n] EXCEPT !.subscribed = FALSE]
<1>1. group' = [group EXCEPT ![n] = Checked(g)] /\ msgs \subseteq msgs' /\ alive' = alive /\ n \in alive
  BY DEF LeaveGroup
<1>2. group[n] \in Group
  BY Now
<1>3. g \in Group /\ (Seeks(g) => Seeks(group[n])) /\ g.parentTimer = group[n].parentTimer
  BY <1>2 DEF Group, Seeks, IsForwarder
<1> HIDE DEF g
<1>4. group'[n] = Checked(g) /\ \A k \in Node \ {n} : group'[k] = group[k]
  BY <1>1, Now DEF Types
<1>5. Seeks(group'[n]) => group'[n].parentTimer \/ Asking(msgs', n)
  BY <1>1, <1>3, <1>4, CheckedSeeks, MoreMessages DEF Attached
<1> QED
  BY <1>1, <1>4, <1>5, MoreMessages, StaysAttached

LEMMA PublishAttached ==
    ASSUME IInv, Attached, NEW n \in Node, Publish(n)
    PROVE  Attached'
<1>1. msgs \subseteq msgs' /\ alive' = alive /\ n \in alive
  BY DEF Publish
<1>2. group[n] \in Group
  BY Now
<1>3. group' = [group EXCEPT ![n] = [group[n] EXCEPT !.there = TRUE, !.source = group[n].source \/ ~group[n].there]]
  BY DEF Publish
<1>4. /\ \A k \in Node \ {n} : group'[k] = group[k]
      /\ group'[n] = [group[n] EXCEPT !.there = TRUE, !.source = group[n].source \/ ~group[n].there]
  BY <1>3, Now DEF Types
<1>5. /\ Seeks(group'[n]) => Seeks(group[n])
      /\ group'[n].parentTimer = group[n].parentTimer
  BY <1>2, <1>4 DEF Group, Seeks, IsForwarder
<1> QED
  BY <1>1, <1>4, <1>5, MoreMessages, StaysAttached DEF Attached

LEMMA JoinAttached ==
    ASSUME IInv, Attached, NEW m \in msgs, HandleJoinMessage(m)
    PROVE  Attached'
<1> DEFINE n == m.dst
           c == m.src
           joined == [group[n] EXCEPT !.there = TRUE,
                                      !.heartbeat = group[n].heartbeat \/ ~IsForwarder(group[n])]
<1>1. m \in Message /\ n \in Node /\ c \in Node /\ m.type = "join" /\ n \in alive /\ alive' = alive
  BY Now DEF HandleJoinMessage
<1>2. group[n] \in Group
  BY <1>1, Now
<1>3. PICK hop \in Hops(n) :
          msgs' = (msgs \ {m}) \cup {Msg("joinResponse", n, c)} \cup Joins(n, c # n /\ Asks(group[n]), hop)
  BY DEF HandleJoinMessage
<1>4. hop \in Node
  BY <1>1, Now, HopsFacts
<1>5. Asking(msgs', c)
  <2>1. Msg("joinResponse", n, c) \in msgs' /\ Msg("joinResponse", n, c).type = "joinResponse"
        /\ Msg("joinResponse", n, c).dst = c
    BY <1>1, <1>3, MsgFacts DEF MessageType
  <2> QED
    BY <2>1 DEF Asking
<1>6. ASSUME NEW k \in Node \ {n}
      PROVE  Asking(msgs, k) => Asking(msgs', k)
  <2>1. msgs \ {m} \subseteq msgs'
    BY <1>3
  <2> QED
    BY <1>1, <1>5, <2>1, LessMessages
<1>7. group' = [group EXCEPT ![n] = AddChild(n, joined, c)]
  BY DEF HandleJoinMessage
<1>8. /\ joined \in Group /\ joined.parentTimer = group[n].parentTimer
      /\ joined.parent = group[n].parent /\ joined.there
  BY <1>2 DEF Group
<1> HIDE DEF joined
<1>9. AddChild(n, joined, c).parentTimer = group[n].parentTimer
  BY <1>8 DEF AddChild, Group
<1>10. group'[n].parentTimer = group[n].parentTimer /\ \A k \in Node \ {n} : group'[k] = group[k]
  BY <1>1, <1>7, <1>9, Now DEF Types
<1>11. group'[n].parentTimer \/ Asking(msgs', n)
  <2>1. CASE c = n
    BY <1>5, <2>1
  <2>2. CASE c # n /\ Asks(group[n])
    BY <1>1, <1>3, <1>4, <2>2, JoinsAsk DEF Joins
  <2>3. CASE c # n /\ ~Asks(group[n])
    <3>1. group[n].parentTimer \/ Asking(msgs, n)
      BY <1>1, <2>3 DEF Attached, Asks, Seeks
    <3>2. msgs \ {m} \subseteq msgs'
      BY <1>3
    <3> QED
      BY <1>1, <1>10, <2>3, <3>1, <3>2, LessMessages
  <2> QED
    BY <2>1, <2>2, <2>3
<1> QED
  BY <1>1, <1>6, <1>10, <1>11, StaysAttached

LEMMA JoinResponseAttached ==
    ASSUME IInv, Attached, NEW m \in msgs, HandleJoinResponse(m)
    PROVE  Attached'
<1> DEFINE n == m.dst
<1>1. n \in Node /\ n \in alive /\ alive' = alive /\ msgs \ {m} \subseteq msgs' /\ m.type = "joinResponse"
  BY Now DEF HandleJoinResponse
<1>2. group[n] \in Group /\ TimersAgree(group[n], childTimeoutList[n])
  BY <1>1, Now
<1>3. \A k \in Node \ {n} : Asking(msgs, k) => Asking(msgs', k)
  BY <1>1, LessMessages
<1>4. \A k \in Node \ {n} : group'[k] = group[k]
  BY <1>1, Now DEF HandleJoinResponse, Types
<1>5. Seeks(group'[n]) => group'[n].parentTimer
  <2>1. CASE group[n].there
    <3>1. group'[n] = [group[n] EXCEPT !.parent = m.src, !.parentTimer = TRUE]
      BY <1>1, <2>1, Now DEF HandleJoinResponse, Types
    <3> QED
      BY <1>2, <3>1 DEF Group
  <2>2. CASE ~group[n].there
    BY <1>2, <2>2, NoGroupSeeksNothing DEF HandleJoinResponse, TimersAgree
  <2> QED
    BY <2>1, <2>2
<1> QED
  BY <1>1, <1>3, <1>4, <1>5, StaysAttached

LEMMA RemoveChildAttached ==
    ASSUME IInv, Attached, NEW n \in Node, n \in alive, NEW c, RemoveChild(n, c), alive' = alive,
           \A k \in Node : Asking(msgs, k) => Asking(msgs', k)
    PROVE  Attached'
<1> DEFINE g == [group[n] EXCEPT !.children = group[n].children \ {c}]
<1>1. group' = [group EXCEPT ![n] = Checked(g)]
  BY DEF RemoveChild
<1>2. group[n] \in Group
  BY Now
<1>3. g \in Group /\ (Seeks(g) => Seeks(group[n])) /\ g.parentTimer = group[n].parentTimer
  BY <1>2 DEF Group, Seeks, IsForwarder
<1> HIDE DEF g
<1>4. group'[n] = Checked(g) /\ \A k \in Node \ {n} : group'[k] = group[k]
  BY <1>1, Now DEF Types
<1>5. Seeks(group'[n]) => group'[n].parentTimer \/ Asking(msgs', n)
  BY <1>3, <1>4, CheckedSeeks DEF Attached
<1> QED
  BY <1>4, <1>5, StaysAttached

\* Of a step that changes no group.
LEMMA SameAttached ==
    ASSUME IInv, Attached, group' = group, Node \ alive' \subseteq Node \ alive,
           \A k \in alive : Asking(msgs, k) => Asking(msgs', k)
    PROVE  Attached'
<1>1. ASSUME NEW k \in Node, Seeks(group[k])
      PROVE  k \in alive
  BY <1>1, NoGroupSeeksNothing DEF Attached
<1> QED
  BY <1>1 DEF Attached

LEMMA LeaveMessageAttached ==
    ASSUME IInv, Attached, NEW m \in msgs, HandleLeaveMessage(m)
    PROVE  Attached'
<1>1. m.dst \in Node /\ m.dst \in alive /\ alive' = alive /\ m.type = "leave" /\ msgs \ {m} \subseteq msgs'
  BY Now DEF HandleLeaveMessage
<1>2. \A k \in Node : Asking(msgs, k) => Asking(msgs', k)
  BY <1>1, LessMessages
<1>3. CASE group[m.dst].there
  BY <1>1, <1>2, <1>3, RemoveChildAttached DEF HandleLeaveMessage
<1>4. CASE ~group[m.dst].there
  <2>1. group' = group
    BY <1>4 DEF HandleLeaveMessage
  <2> QED
    BY <1>1, <1>2, <2>1, Now, SameAttached DEF Types
<1> QED
  BY <1>3, <1>4

LEMMA ChildTimeoutAttached ==
    ASSUME IInv, Attached, NEW n \in Node, NEW c \in Node, HandleChildTimeout(n, c)
    PROVE  Attached'
<1>1. n \in alive /\ alive' = alive /\ msgs \subseteq msgs'
  BY DEF HandleChildTimeout
<1>2. \A k \in Node : Asking(msgs, k) => Asking(msgs', k)
  BY <1>1, MoreMessages
<1>3. CASE group[n].there
  BY <1>1, <1>2, <1>3, RemoveChildAttached DEF HandleChildTimeout
<1>4. CASE ~group[n].there
  <2>1. group' = group
    BY <1>4 DEF HandleChildTimeout
  <2> QED
    BY <1>1, <1>2, <2>1, Now, SameAttached DEF Types
<1> QED
  BY <1>3, <1>4

LEMMA ParentTimeoutAttached ==
    ASSUME IInv, Attached, NEW n \in Node, HandleParentTimeout(n)
    PROVE  Attached'
<1>1. PICK hop \in Hops(n) : msgs' = msgs \cup Joins(n, TRUE, hop)
  BY DEF HandleParentTimeout
<1>2. Asking(msgs', n)
  BY <1>1, Now, HopsFacts, JoinsAsk
<1>3. \A k \in Node \ {n} : group'[k] = group[k]
  BY Now DEF HandleParentTimeout, Types
<1> QED
  BY <1>1, <1>2, <1>3, MoreMessages, StaysAttached DEF HandleParentTimeout

LEMMA PublishResponseAttached ==
    ASSUME IInv, Attached, NEW m \in msgs, HandlePublishResponse(m)
    PROVE  Attached'
<1> DEFINE n == m.dst
           root == IF m.wrongRoot THEN None ELSE m.src
<1>1. n \in Node /\ n \in alive /\ alive' = alive /\ m.type = "publishResponse" /\ msgs \ {m} \subseteq msgs'
  BY Now DEF HandlePublishResponse
<1>2. \A k \in Node : Asking(msgs, k) => Asking(msgs', k)
  BY <1>1, LessMessages
<1>3. group[n] \in Group
  BY <1>1, Now
<1>4. CASE group[n].there
  <2>1. group'[n] = [group[n] EXCEPT !.rendezvous = root] /\ \A k \in Node \ {n} : group'[k] = group[k]
    BY <1>1, <1>4, Now DEF HandlePublishResponse, Types
  <2> HIDE DEF root
  <2>2. (Seeks(group'[n]) => Seeks(group[n])) /\ group'[n].parentTimer = group[n].parentTimer
    BY <1>3, <2>1 DEF Group, Seeks, IsForwarder
  <2> QED
    BY <1>1, <1>2, <2>1, <2>2, StaysAttached DEF Attached
<1>5. CASE ~group[n].there
  <2>1. group' = group
    BY <1>5 DEF HandlePublishResponse
  <2> QED
    BY <1>1, <1>2, <2>1, Now, SameAttached DEF Types
<1> QED
  BY <1>4, <1>5

\* Calls, data and lost messages are no joins that a living node waits for.
LEMMA OthersAttached ==
    ASSUME IInv, Attached, NEW m \in msgs, HandlePublishCall(m) \/ HandleData(m) \/ Drop(m)
    PROVE  Attached'
<1>1. group' = group /\ alive' = alive /\ msgs \ {m} \subseteq msgs'
  BY DEF HandlePublishCall, HandleData, Drop
<1>2. CASE m.type \notin {"join", "joinResponse"}
  BY <1>1, <1>2, LessMessages, SameAttached
<1>3. CASE m.type \in {"join", "joinResponse"}
  <2>1. Drop(m)
    BY <1>3 DEF HandlePublishCall, HandleData
  <2>2. ASSUME NEW k \in alive, Asking(msgs, k)
        PROVE  Asking(msgs', k)
    BY <1>1, <2>1, <2>2 DEF Asking, Drop
  <2> QED
    BY <1>1, <2>2, SameAttached
<1> QED
  BY <1>2, <1>3

LEMMA OverlayAttached ==
    ASSUME IInv, Attached, NEW n \in Node, NEW x \in Node,
           Appear(x) \/ Fail(x) \/ Learn(n, x) \/ Forget(n, x)
    PROVE  Attached'
<1>1. CASE Appear(x)
  BY <1>1, SameAttached DEF Appear
<1>2. CASE Fail(x)
  <2>1. group'[x] = NoGroup /\ \A k \in Node \ {x} : group'[k] = group[k] /\ (k \in alive => k \in alive')
    BY <1>2, Now DEF Fail, Types
  <2> QED
    BY <1>2, <2>1, NoGroupSeeksNothing, StaysAttached DEF Fail
<1>3. CASE Learn(n, x)
  BY <1>3, MoreMessages, SameAttached DEF Learn
<1>4. CASE Forget(n, x)
  <2> DEFINE stopped == {m \in msgs : m.dst = x /\ m.src = n}
             again == \E m \in stopped : m.type = "join" /\ m.routed
             closer == {k \in known[n] \ {x} : k < n}
             hops == IF closer = {} THEN {n} ELSE closer
  <2>1. PICK hop \in hops : msgs' = (msgs \ stopped) \cup Joins(n, again, hop)
    BY <1>4 DEF Forget
  <2>2. hop \in Node
    BY Now DEF Types
  <2>3. ASSUME NEW k \in alive, Asking(msgs, k)
        PROVE  Asking(msgs', k)
    <3>1. PICK m \in msgs :
              (m.type = "join" /\ m.routed /\ m.src = k) \/ (m.type = "joinResponse" /\ m.dst = k)
      BY <2>3 DEF Asking
    <3>2. CASE m \notin stopped
      BY <2>1, <3>1, <3>2 DEF Asking
    <3>3. CASE m \in stopped
      <4>1. m.type = "join" /\ m.routed /\ k = n
        BY <1>4, <3>1, <3>3 DEF Forget
      <4>2. Joins(n, TRUE, hop) \subseteq msgs'
        BY <2>1, <3>3, <4>1 DEF Joins
      <4> QED
        BY <2>2, <4>1, <4>2, JoinsAsk
    <3> QED
      BY <3>2, <3>3
  <2> QED
    BY <1>4, <2>3, SameAttached DEF Forget
<1> QED
  BY <1>1, <1>2, <1>3, <1>4

Lossless == config.losses = 0

LEMMA StepAttached == IInv /\ Attached /\ Lossless /\ [Next]_vars => Attached' /\ Lossless'
<1> SUFFICES ASSUME IInv, Attached, Lossless, [Next]_vars PROVE Attached' /\ Lossless'
  OBVIOUS
<1>0. config \in Config
  BY Now DEF Types
<1>1. CASE UNCHANGED vars
  <2>1. UNCHANGED <<config, alive, group, msgs>>
    BY <1>1 DEF vars
  <2> QED
    BY <2>1, SameAttached DEF Lossless
<1>2. ASSUME NEW bound \in {"joins", "failures", "subscribes", "leaves", "publishes"}, Uses(bound)
      PROVE  Lossless'
  BY <1>0, <1>2 DEF Uses, Config, Lossless
<1>3. ~Uses("losses")
  BY DEF Uses, Lossless
<1>4. ASSUME NEW m \in msgs, Receive(m) \/ Lose(m)
      PROVE  Attached' /\ Lossless'
  <2>1. Receive(m)
    BY <1>3, <1>4 DEF Lose
  <2>2. Lossless'
    BY <2>1 DEF Receive, HandleJoinMessage, HandleJoinResponse, HandleLeaveMessage, HandlePublishCall,
       HandlePublishResponse, HandleData, Drop, Lossless
  <2> QED
    BY <2>1, <2>2, JoinAttached, JoinResponseAttached, LeaveMessageAttached, PublishResponseAttached,
       OthersAttached DEF Receive
<1>5. ASSUME NEW n \in Node, SubscribeToGroup(n) \/ LeaveGroup(n) \/ Publish(n) \/ HandleParentTimeout(n)
      PROVE  Attached' /\ Lossless'
  <2>1. Lossless'
    BY <1>2, <1>3, <1>5 DEF SubscribeToGroup, LeaveGroup, Publish, HandleParentTimeout, Lossless
  <2> QED
    BY <1>5, <2>1, SubscribeAttached, LeaveAttached, PublishAttached, ParentTimeoutAttached
<1>6. ASSUME NEW n \in Node, NEW x \in Node, Appear(n) \/ Fail(n) \/ Learn(n, x) \/ Forget(n, x)
      PROVE  Attached' /\ Lossless'
  <2>1. Lossless'
    BY <1>2, <1>6 DEF Appear, Fail, Learn, Forget, Lossless
  <2> QED
    BY <1>6, <2>1, OverlayAttached
<1>7. ASSUME NEW n \in Node, NEW x \in Node, HandleChildTimeout(n, x)
      PROVE  Attached' /\ Lossless'
  BY <1>3, <1>7, ChildTimeoutAttached DEF HandleChildTimeout, Lossless
<1> QED
  BY <1>1, <1>4, <1>5, <1>6, <1>7 DEF Next

\* Without heartbeats to wait for, a member hears from a living node, which is its parent
\* because the timers of the children are all refreshed, or it is the root.
LEMMA QuietFacts ==
    ASSUME IInv, Attached
    PROVE  QuietMeansConnected
<1> SUFFICES ASSUME Quiet, NEW n \in Members
             PROVE  InTree(n)
  BY DEF QuietMeansConnected
<1>1. n \in Node /\ n \in alive /\ Seeks(group[n])
  BY Now DEF Members, Types, Seeks
<1>2. group[n].parentTimer
  BY <1>1 DEF Attached, Asking, Quiet
<1>3. \A p \in alive : n \in group[p].children => group[n].parent = p
  BY Now DEF Quiet, Refreshed, Types, TimersAgree
<1>4. CASE n = Min(alive) /\ group[n].parent = n
  BY <1>4 DEF InTree
<1>5. CASE Heard(n)
  <2>1. PICK p \in alive : n \in group[p].children
    BY <1>5 DEF Heard
  <2>2. group[n].parent = p
    BY <1>3, <2>1
  <2>3. CASE n # Min(alive)
    BY <1>3, <2>1, <2>2, <2>3 DEF InTree
  <2>4. CASE n = Min(alive)
    <3>1. alive \subseteq Nat /\ p \in Node /\ p <= n
      BY <1>1, <2>1, <2>2, Now, Natural DEF Types
    <3>2. \A k \in alive : n <= k
      <4>1. \E k \in alive : \A j \in alive : k <= j
        BY <1>1, <3>1, Least
      <4> QED
        BY <2>4, <4>1 DEF Min
    <3>3. p = n
      BY <1>1, <2>1, <3>1, <3>2
    <3> QED
      BY <2>2, <2>4, <3>3 DEF InTree
  <2> QED
    BY <2>3, <2>4
<1> QED
  BY <1>1, <1>2, <1>4, <1>5 DEF Quiet

\* Unless messages are lost, a group for which nothing is left to wait is one tree that holds
\* every subscriber, after any joins, leaves and failures (handleTimerEvent(), handleJoinMessage()).
THEOREM QuietIsConnected ==
    ASSUME \A c \in Configs : c.losses = 0
    PROVE  Spec => []QuietMeansConnected
<1>1. Init => Attached /\ Lossless
  <2> SUFFICES ASSUME Init PROVE Attached /\ Lossless
    OBVIOUS
  <2>1. \A n \in Node : group[n] = NoGroup
    BY DEF Init
  <2> QED
    BY <2>1, NoGroupSeeksNothing DEF Init, Attached, Lossless
<1>2. Spec => [](Attached /\ Lossless)
  BY <1>1, StepAttached, Invariance, PTL DEF Spec
<1> QED
  BY <1>2, QuietFacts, Invariance, PTL
-----------------------------------------------------------------------------
(***************************************************************************)
(* Data.  While no node has come, failed or left, and nothing was lost, a  *)
(* node whose parent holds it keeps that parent; so each node that is owed *)
(* a message has it, or it is on the way from its parent, or the parent    *)
(* does not have it yet.                                                   *)
(***************************************************************************)
FirstOf(A, n) == n \in A /\ \A k \in A : n <= k
Holds(A, g, p, n) == p \in A /\ n \in g[p].children

MsgWhole(A, g, m) ==
    /\ m.type # "leave" /\ m.src \in A /\ m.dst \in A
    /\ m.type = "join" /\ m.dst = m.src => FirstOf(A, m.src)
    /\ m.type = "joinResponse" => Holds(A, g, m.src, m.dst) \/ (m.src = m.dst /\ FirstOf(A, m.src))
    /\ m.type = "data" => ~m.routed /\ ~m.wrongRoot

NodeWhole(A, g, n) ==
    /\ g[n].children \subseteq A /\ \A c \in g[n].children : n < c
    /\ g[n].rendezvous \in A \cup {None}
    /\ \/ g[n].parent = None
       \/ g[n].parent = n /\ FirstOf(A, n)
       \/ Holds(A, g, g[n].parent, n)

Whole ==
    /\ \A n \in alive : known[n] = alive \ {n}
    /\ \A m \in msgs : MsgWhole(alive, group, m)
    /\ \A n \in alive : NodeWhole(alive, group, n)

\* Each publication has an id of its own.
Carries(m) == m.type \in {"publish", "data"}
Fresh ==
    /\ \A m \in msgs : Carries(m) => m.id > config.publishes
    /\ \A n \in Node, id \in Int : <<n, id>> \in data.owed \cup data.got => id > config.publishes
    /\ \A m \in msgs : m.type = "publish" =>
        /\ \A k \in msgs : Carries(k) /\ k.id = m.id => k = m
        /\ \A n \in Node : <<n, m.id>> \notin data.owed \cup data.got

\* A node that is owed data is the root, or the child of one node, which is owed it, too.
OnTree(n, id) ==
    /\ n \in alive /\ group[n].there
    /\ \/ FirstOf(alive, n) /\ group[n].parent = n
       \/ /\ ~FirstOf(alive, n) /\ Holds(alive, group, group[n].parent, n)
          /\ \A p \in alive : n \in group[p].children => p = group[n].parent
          /\ <<group[n].parent, id>> \in data.owed
          /\ \A m \in msgs : m.type = "join" => m.src # n

OnItsWay(M, n, id) == \E m \in M : m.type = "data" /\ m.dst = n /\ m.id = id

Delivery ==
    /\ \A n \in Node, id \in Int : <<n, id>> \in data.owed =>
        /\ OnTree(n, id)
        /\ \/ <<n, id>> \in data.got
           \/ ~FirstOf(alive, n) /\ OnItsWay(msgs, n, id)
           \/ ~FirstOf(alive, n) /\ <<group[n].parent, id>> \notin data.got
        /\ <<n, id>> \in data.got => FirstOf(alive, n) \/ <<group[n].parent, id>> \in data.got
    /\ \A m \in msgs : m.type = "data" /\ <<m.dst, m.id>> \in data.owed =>
        /\ ~FirstOf(alive, m.dst) /\ m.src = group[m.dst].parent
        /\ <<m.src, m.id>> \in data.got /\ <<m.dst, m.id>> \notin data.got
    /\ ~data.twice

History == [steady : BOOLEAN, owed : SUBSET (Node \X Int), got : SUBSET (Node \X Int), twice : BOOLEAN]
Histories == data \in History

SInv == Histories /\ (data.steady => Whole /\ Fresh /\ Delivery)

\* A step after which nothing is promised any more.
Unsteady == data' = [data EXCEPT !.steady = FALSE]

LEMMA UnsteadyKeeps ==
    ASSUME SInv, Unsteady
    PROVE  SInv'
BY DEF SInv, Unsteady, Histories, History

Grows(A, g, h) == \A p \in A : g[p].children \subseteq h[p].children

LEMMA WholeStays ==
    ASSUME Whole, alive' = alive, known' = known, Grows(alive, group, group'),
           \A m \in msgs' \ msgs : MsgWhole(alive, group', m),
           \A n \in alive : group'[n] = group[n] \/ NodeWhole(alive, group', n)
    PROVE  Whole'
<1>1. ASSUME NEW m \in msgs'
      PROVE  MsgWhole(alive, group', m)
  BY DEF Whole, MsgWhole, Holds, Grows
<1>2. ASSUME NEW n \in alive
      PROVE  NodeWhole(alive, group', n)
  BY DEF Whole, NodeWhole, Holds, Grows
<1> QED
  BY <1>1, <1>2 DEF Whole

LEMMA FreshStays ==
    ASSUME Fresh, data' = data, config'.publishes = config.publishes,
           \A m \in msgs' : Carries(m) => m \in msgs
    PROVE  Fresh'
BY DEF Fresh, Carries

\* A step that leaves the data, and the place in the tree of those who are owed it.
LEMMA DeliveryStays ==
    ASSUME Delivery, msgs' \subseteq Message, alive' = alive, data' = data, Grows(alive, group, group'),
           \A m \in msgs \cup msgs' : m.type = "data" => (m \in msgs <=> m \in msgs'),
           \A n \in Node, id \in Int : <<n, id>> \in data.owed =>
               /\ group'[n].parent = group[n].parent /\ group'[n].there
               /\ ~FirstOf(alive, n) =>
                    /\ \A p \in alive : n \in group'[p].children => n \in group[p].children
                    /\ \A m \in msgs' : m.type = "join" /\ m.src = n => m \in msgs
    PROVE  Delivery'
<1>1. ASSUME NEW n \in Node, NEW id \in Int, <<n, id>> \in data.owed
      PROVE  OnTree(n, id)'
  BY <1>1 DEF Delivery, OnTree, Holds, Grows
<1>2. ASSUME NEW n \in Node, NEW id \in Int, <<n, id>> \in data.owed
      PROVE  /\ \/ <<n, id>> \in data.got
                \/ ~FirstOf(alive, n) /\ OnItsWay(msgs', n, id)
                \/ ~FirstOf(alive, n) /\ <<group'[n].parent, id>> \notin data.got
             /\ <<n, id>> \in data.got => FirstOf(alive, n) \/ <<group'[n].parent, id>> \in data.got
  BY <1>2 DEF Delivery, OnItsWay
<1>3. ASSUME NEW m \in msgs', m.type = "data", <<m.dst, m.id>> \in data.owed
      PROVE  /\ ~FirstOf(alive, m.dst) /\ m.src = group'[m.dst].parent
             /\ <<m.src, m.id>> \in data.got /\ <<m.dst, m.id>> \notin data.got
  <2>1. m.dst \in Node /\ m.id \in Int
    BY DEF Message
  <2> QED
    BY <1>3, <2>1 DEF Delivery
<1> QED
  BY <1>1, <1>2, <1>3 DEF Delivery

LEMMA NodeSame ==
    ASSUME NEW A, NEW g, NEW h, NEW n, NodeWhole(A, g, n), Grows(A, g, h),
           h[n].children = g[n].children, h[n].rendezvous = g[n].rendezvous, h[n].parent = g[n].parent
    PROVE  NodeWhole(A, h, n)
BY DEF NodeWhole, Holds, Grows

\* Every node is known: a join goes to a living node, and stays at the first one only.
LEMMA HopsWhole ==
    ASSUME IInv, Whole, NEW n \in alive, NEW hop \in Hops(n)
    PROVE  hop \in alive /\ (hop = n => FirstOf(alive, n))
<1>1. alive \subseteq Nat
  BY Now, Natural DEF Types
<1>2. known[n] = alive \ {n}
  BY DEF Whole
<1> QED
  BY <1>1, <1>2 DEF Hops, FirstOf

LEMMA JoinsWhole ==
    ASSUME IInv, Whole, NEW n \in alive, NEW hop \in Hops(n), NEW asks, NEW h
    PROVE  \A m \in Joins(n, asks, hop) :
               /\ MsgWhole(alive, h, m) /\ ~Carries(m) /\ m.type = "join" /\ m.src = n /\ asks
<1>1. n \in Node /\ hop \in Node
  BY Now, HopsFacts DEF Types
<1>2. /\ Routed("join", n, hop).type = "join" /\ Routed("join", n, hop).src = n
      /\ Routed("join", n, hop).dst = hop
  BY <1>1, MsgFacts DEF MessageType
<1> QED
  BY <1>2, HopsWhole DEF Joins, MsgWhole, Carries

LEMMA AnswerWhole ==
    ASSUME NEW A, NEW h, NEW m, m.src \in A, m.dst \in A, 
           m.type \notin {"leave", "join", "joinResponse", "data"}
    PROVE  MsgWhole(A, h, m)
BY DEF MsgWhole

\* A node that is owed data has a parent, so it asks for none.
LEMMA OwedAsksNot ==
    ASSUME IInv, Delivery, NEW n \in Node, NEW id \in Int, <<n, id>> \in data.owed
    PROVE  OnTree(n, id) /\ ~Asks(group[n])
<1>1. OnTree(n, id)
  BY DEF Delivery
<1>2. group[n].there /\ group[n].parent \in alive
  BY <1>1 DEF OnTree, Holds, FirstOf
<1>3. group[n].parent # None
  BY <1>2, Now, Natural DEF Types
<1> QED
  BY <1>1, <1>2, <1>3 DEF Asks

LEMMA SubscribeDelivers ==
    ASSUME IInv, Whole, Fresh, Delivery, NEW n \in Node, SubscribeToGroup(n), msgs' \subseteq Message
    PROVE  Whole' /\ Fresh' /\ Delivery'
<1>1. PICK hop \in Hops(n) : msgs' = msgs \cup Joins(n, Asks(group[n]), hop)
  BY DEF SubscribeToGroup
<1>2. n \in alive /\ alive' = alive /\ known' = known /\ data' = data /\ group[n] \in Group
  BY Now DEF SubscribeToGroup
<1>3. \A m \in Joins(n, Asks(group[n]), hop) :
          /\ MsgWhole(alive, group', m) /\ ~Carries(m) /\ m.type = "join" /\ m.src = n /\ Asks(group[n])
  BY <1>2, JoinsWhole
<1>4. /\ \A k \in Node \ {n} : group'[k] = group[k]
      /\ group'[n] = [group[n] EXCEPT !.there = TRUE, !.subscribed = TRUE]
  BY Now DEF SubscribeToGroup, Types
<1>5. /\ group'[n].children = group[n].children /\ group'[n].rendezvous = group[n].rendezvous
      /\ group'[n].parent = group[n].parent /\ group'[n].there
  BY <1>2, <1>4 DEF Group
<1>6. alive \subseteq Node /\ Grows(alive, group, group')
  BY <1>4, <1>5, Now DEF Grows, Types
<1>7. Whole'
  <2>1. \A k \in alive : group'[k] = group[k] \/ NodeWhole(alive, group', k)
    BY <1>2, <1>4, <1>5, <1>6, NodeSame DEF Whole
  <2> QED
    BY <1>1, <1>2, <1>3, <1>6, <2>1, WholeStays
<1>8. Fresh'
  <2>1. config'.publishes = config.publishes
    BY Now DEF SubscribeToGroup, Uses, Types, Config
  <2> QED
    BY <1>1, <1>2, <1>3, <2>1, FreshStays
<1>9. Delivery'
  <2>1. \A m \in msgs \cup msgs' : m.type = "data" => (m \in msgs <=> m \in msgs')
    BY <1>1, <1>3
  <2>2. ASSUME NEW k \in Node, NEW id \in Int, <<k, id>> \in data.owed
        PROVE  /\ group'[k].parent = group[k].parent /\ group'[k].there
               /\ \A p \in alive : k \in group'[p].children => k \in group[p].children
               /\ \A m \in msgs' : m.type = "join" /\ m.src = k => m \in msgs
    <3>1. group[k].there /\ ~Asks(group[k])
      BY <2>2, OwedAsksNot DEF OnTree
    <3> QED
      BY <1>1, <1>3, <1>4, <1>5, <1>6, <3>1
  <2> QED
    BY <1>2, <1>6, <2>1, <2>2, DeliveryStays
<1> QED
  BY <1>7, <1>8, <1>9

LEMMA PublishDelivers ==
    ASSUME IInv, Whole, Fresh, Delivery, NEW n \in Node, Publish(n), msgs' \subseteq Message
    PROVE  Whole' /\ Fresh' /\ Delivery'
<1>1. n \in alive /\ alive' = alive /\ known' = known /\ data' = data /\ group[n] \in Group
  BY Now DEF Publish
<1>2. config' = [config EXCEPT !.publishes = config.publishes - 1] /\ config.publishes \in Nat /\ config \in Config
  BY Now DEF Publish, Uses, Types, Config
<1>3. PICK m \in Message :
          /\ msgs' = msgs \cup {m} /\ m.type = "publish"
          /\ m.id = config.publishes /\ m.src \in alive /\ m.dst \in alive
  <2> DEFINE numbered(k) == [k EXCEPT !.id = config.publishes]
  <2>1. ASSUME NEW k \in Message, k.type = "publish", k.src \in alive, k.dst \in alive
        PROVE  /\ numbered(k) \in Message /\ numbered(k).type = "publish" /\ numbered(k).id = config.publishes
               /\ numbered(k).src \in alive /\ numbered(k).dst \in alive
    BY <1>2, <2>1 DEF Message
  <2>2. "publish" \in MessageType /\ alive \subseteq Node
    BY Now DEF MessageType, Types
  <2>3. \E k \in Message : k.type = "publish" /\ k.src \in alive /\ k.dst \in alive /\ msgs' = msgs \cup {numbered(k)}
    <3>1. CASE group[n].rendezvous # None
      <4> DEFINE k == Msg("publish", n, group[n].rendezvous)
      <4>1. group[n].rendezvous \in alive
        BY <1>1, <3>1 DEF Whole, NodeWhole
      <4>2. msgs' = msgs \cup {numbered(k)}
        BY <3>1 DEF Publish
      <4>3. k \in Message /\ k.type = "publish" /\ k.src \in alive /\ k.dst \in alive
        BY <1>1, <2>2, <4>1, MsgFacts
      <4> HIDE DEF k, numbered
      <4> QED
        BY <4>2, <4>3
    <3>2. CASE group[n].rendezvous = None
      <4>1. PICK hop \in Hops(n) : msgs' = msgs \cup {numbered(Routed("publish", n, hop))}
        BY <3>2 DEF Publish
      <4> DEFINE k == Routed("publish", n, hop)
      <4>2. hop \in alive
        BY <1>1, HopsWhole
      <4>3. k \in Message /\ k.type = "publish" /\ k.src \in alive /\ k.dst \in alive
        BY <1>1, <2>2, <4>2, MsgFacts
      <4> HIDE DEF k, numbered
      <4> QED
        BY <4>1, <4>3 DEF k
    <3> QED
      BY <3>1, <3>2
  <2> HIDE DEF numbered
  <2> QED
    BY <2>1, <2>3
<1>4. group' = [group EXCEPT ![n] = [group[n] EXCEPT !.there = TRUE, !.source = group[n].source \/ ~group[n].there]]
  BY DEF Publish
<1>5. /\ \A k \in Node \ {n} : group'[k] = group[k]
      /\ group'[n] = [group[n] EXCEPT !.there = TRUE, !.source = group[n].source \/ ~group[n].there]
  BY <1>4, Now DEF Types
<1>6. /\ group'[n].children = group[n].children /\ group'[n].rendezvous = group[n].rendezvous
      /\ group'[n].parent = group[n].parent /\ group'[n].there
  BY <1>1, <1>5 DEF Group
<1>7. alive \subseteq Node /\ Grows(alive, group, group')
  BY <1>5, <1>6, Now DEF Grows, Types
<1>8. Whole'
  <2>1. \A k \in alive : group'[k] = group[k] \/ NodeWhole(alive, group', k)
    BY <1>1, <1>5, <1>6, <1>7, NodeSame DEF Whole
  <2>2. MsgWhole(alive, group', m)
    BY <1>3, AnswerWhole
  <2> QED
    BY <1>1, <1>3, <1>7, <2>1, <2>2, WholeStays
<1>9. Fresh'
  <2>1. config'.publishes = config.publishes - 1
    BY <1>2 DEF Config
  <2>2. \A k \in msgs : Carries(k) => k.id > config.publishes /\ k.id \in Int
    BY Now DEF Fresh, Message
  <2> QED
    BY <1>1, <1>2, <1>3, <2>1, <2>2 DEF Fresh, Carries
<1>10. Delivery'
  <2>1. \A k \in msgs \cup msgs' : k.type = "data" => (k \in msgs <=> k \in msgs')
    BY <1>3
  <2>2. ASSUME NEW k \in Node, NEW id \in Int, <<k, id>> \in data.owed
        PROVE  /\ group'[k].parent = group[k].parent /\ group'[k].there
               /\ \A p \in alive : k \in group'[p].children => k \in group[p].children
               /\ \A j \in msgs' : j.type = "join" /\ j.src = k => j \in msgs
    <3>1. group[k].there
      BY <2>2, OwedAsksNot DEF OnTree
    <3> QED
      BY <1>3, <1>5, <1>6, <1>7, <3>1
  <2> QED
    BY <1>1, <1>7, <2>1, <2>2, DeliveryStays
<1> QED
  BY <1>8, <1>9, <1>10

\* A join that is under way is of no node that is owed data, unless of the root.
LEMMA JoinDelivers ==
    ASSUME IInv, Whole, Fresh, Delivery, NEW m \in msgs, HandleJoinMessage(m), msgs' \subseteq Message
    PROVE  Whole' /\ Fresh' /\ Delivery'
<1> DEFINE n == m.dst
           c == m.src
           joined == [group[n] EXCEPT !.there = TRUE,
                                      !.heartbeat = group[n].heartbeat \/ ~IsForwarder(group[n])]
           answer == Msg("joinResponse", n, c)
<1>1. /\ m.type = "join" /\ n \in alive /\ c \in alive /\ n \in Nat /\ c \in Nat /\ n <= c
      /\ n = c => FirstOf(alive, n)
  <2>1. MsgWhole(alive, group, m) /\ TowardsKey(m) /\ m.type = "join"
    BY Now DEF Whole, HandleJoinMessage
  <2> QED
    BY <2>1, Now, Natural DEF MsgWhole, TowardsKey
<1>2. alive' = alive /\ known' = known /\ data' = data /\ config' = config /\ n \in Node /\ c \in Node
      /\ group[n] \in Group /\ alive \subseteq Node
  BY Now DEF HandleJoinMessage, Types
<1>3. PICK hop \in Hops(n) :
          msgs' = (msgs \ {m}) \cup {answer} \cup Joins(n, c # n /\ Asks(group[n]), hop)
  BY DEF HandleJoinMessage
<1>4. \A j \in Joins(n, c # n /\ Asks(group[n]), hop) :
          /\ MsgWhole(alive, group', j) /\ ~Carries(j) /\ j.type = "join" /\ j.src = n /\ Asks(group[n])
  <2>1. ASSUME NEW asks
        PROVE  \A j \in Joins(n, asks, hop) :
                   MsgWhole(alive, group', j) /\ ~Carries(j) /\ j.type = "join" /\ j.src = n /\ asks
    BY <1>1, JoinsWhole
  <2> QED
    BY <2>1
<1>5. answer.type = "joinResponse" /\ answer.src = n /\ answer.dst = c /\ ~Carries(answer)
  BY <1>2, MsgFacts DEF MessageType, Carries
<1>6. /\ group'[n].parent = group[n].parent /\ group'[n].rendezvous = group[n].rendezvous /\ group'[n].there
      /\ group'[n].children = group[n].children \cup ({c} \ {n})
      /\ \A k \in Node \ {n} : group'[k] = group[k]
  <2>1. group' = [group EXCEPT ![n] = AddChild(n, joined, c)]
    BY DEF HandleJoinMessage
  <2>2. /\ joined \in Group /\ joined.parent = group[n].parent /\ joined.rendezvous = group[n].rendezvous
        /\ joined.there /\ joined.children = group[n].children
    BY <1>2 DEF Group
  <2> HIDE DEF joined
  <2>3. group'[n] = AddChild(n, joined, c) /\ \A k \in Node \ {n} : group'[k] = group[k]
    BY <1>2, <2>1, Now DEF Types
  <2>4. CASE c = n
    BY <2>2, <2>3, <2>4 DEF AddChild
  <2>5. CASE c # n
    <3>1. group'[n] = [joined EXCEPT !.children = joined.children \cup {c}]
      BY <2>3, <2>5 DEF AddChild
    <3> QED
      BY <2>2, <2>3, <2>5, <3>1 DEF Group
  <2> QED
    BY <2>4, <2>5
<1> HIDE DEF joined, answer
<1>7. Grows(alive, group, group')
  BY <1>2, <1>6 DEF Grows
<1>8. Whole'
  <2>1. MsgWhole(alive, group', answer)
    BY <1>1, <1>5, <1>6 DEF MsgWhole, Holds
  <2>2. NodeWhole(alive, group', n)
    <3>1. NodeWhole(alive, group, n)
      BY <1>1 DEF Whole
    <3> QED
      BY <1>1, <1>6, <1>7, <3>1 DEF NodeWhole, Holds, Grows
  <2> QED
    BY <1>2, <1>3, <1>4, <1>6, <1>7, <2>1, <2>2, WholeStays
<1>9. Fresh'
  BY <1>2, <1>3, <1>4, <1>5, FreshStays
<1>10. Delivery'
  <2>1. \A j \in msgs \cup msgs' : j.type = "data" => (j \in msgs <=> j \in msgs')
    BY <1>1, <1>3, <1>4, <1>5
  <2>2. ASSUME NEW k \in Node, NEW id \in Int, <<k, id>> \in data.owed
        PROVE  /\ group'[k].parent = group[k].parent /\ group'[k].there
               /\ ~FirstOf(alive, k) =>
                    /\ \A p \in alive : k \in group'[p].children => k \in group[p].children
                    /\ \A j \in msgs' : j.type = "join" /\ j.src = k => j \in msgs
    <3>1. OnTree(k, id) /\ ~Asks(group[k])
      BY <2>2, OwedAsksNot
    <3>2. group'[k].parent = group[k].parent /\ group'[k].there
      BY <1>6, <3>1 DEF OnTree
    <3>3. ~FirstOf(alive, k) => k # c
      BY <1>1, <3>1 DEF OnTree
    <3> QED
      BY <1>2, <1>3, <1>4, <1>5, <1>6, <3>1, <3>2, <3>3
  <2> QED
    BY <1>2, <1>7, <2>1, <2>2, DeliveryStays
<1> QED
  BY <1>8, <1>9, <1>10

\* A node is answered only by a node that holds it; one that is owed data has such a parent.
LEMMA JoinResponseDelivers ==
    ASSUME IInv, Whole, Fresh, Delivery, NEW m \in msgs, HandleJoinResponse(m), msgs' \subseteq Message
    PROVE  Whole' /\ Fresh' /\ Delivery'
<1> DEFINE n == m.dst
<1>1. alive' = alive /\ known' = known /\ data' = data /\ config' = config /\ msgs' = msgs \ {m}
      /\ m.type = "joinResponse" /\ n \in alive /\ n \in Node /\ alive \subseteq Nat /\ alive \subseteq Node
  BY Now, Natural DEF HandleJoinResponse, Types
<1>2. m.src \in alive /\ (Holds(alive, group, m.src, n) \/ (m.src = n /\ FirstOf(alive, n)))
  BY <1>1 DEF Whole, MsgWhole
<1>3. group[n] \in Group
  BY <1>1, Now
<1>4. \A k \in Node \ {n} : group'[k] = group[k]
  BY <1>1, Now DEF HandleJoinResponse, Types
<1>5. \/ group'[n] = group[n]
      \/ /\ group[n].there /\ group'[n].there /\ group'[n].parent = m.src
         /\ group'[n].children = group[n].children /\ group'[n].rendezvous = group[n].rendezvous
  <2>1. CASE group[n].there
    <3>1. group'[n] = [group[n] EXCEPT !.parent = m.src, !.parentTimer = TRUE]
      BY <1>1, <2>1, Now DEF HandleJoinResponse, Types
    <3> QED
      BY <1>3, <2>1, <3>1 DEF Group
  <2>2. CASE ~group[n].there
    BY <2>2 DEF HandleJoinResponse
  <2> QED
    BY <2>1, <2>2
<1>6. Grows(alive, group, group')
  BY <1>1, <1>4, <1>5 DEF Grows
<1>7. Whole'
  <2>1. NodeWhole(alive, group, n)
    BY <1>1 DEF Whole
  <2>2. group'[n] = group[n] \/ NodeWhole(alive, group', n)
    BY <1>2, <1>5, <1>6, <2>1 DEF NodeWhole, Holds, Grows
  <2> QED
    BY <1>1, <1>4, <1>6, <2>2, WholeStays
<1>8. Fresh'
  BY <1>1, FreshStays
<1>9. Delivery'
  <2>1. ASSUME NEW k \in Node, NEW id \in Int, <<k, id>> \in data.owed
        PROVE  /\ group'[k].parent = group[k].parent /\ group'[k].there
               /\ \A p \in alive : k \in group'[p].children => k \in group[p].children
    <3>1. OnTree(k, id)
      BY <2>1, OwedAsksNot
    <3>2. k = n => m.src = group[n].parent
      <4>1. CASE FirstOf(alive, n)
        <5>1. ~Holds(alive, group, m.src, n)
          <6>1. NodeWhole(alive, group, m.src) /\ n <= m.src /\ n \in Nat /\ m.src \in Nat
            BY <1>1, <1>2, <4>1 DEF FirstOf, Whole
          <6> QED
            BY <6>1 DEF Holds, NodeWhole
        <5> QED
          BY <1>2, <3>1, <4>1, <5>1 DEF OnTree
      <4>2. CASE ~FirstOf(alive, n)
        BY <1>2, <3>1, <4>2 DEF OnTree, Holds
      <4> QED
        BY <4>1, <4>2
    <3> QED
      BY <1>1, <1>4, <1>5, <3>1, <3>2 DEF OnTree
  <2> QED
    BY <1>1, <1>6, <2>1, DeliveryStays
<1> QED
  BY <1>7, <1>8, <1>9

\* A node whose parent holds it hears from it, so only the root's parent timer can expire
\* while every message arrives.
LEMMA ParentTimeoutDelivers ==
    ASSUME IInv, Whole, Fresh, Delivery, NEW n \in Node, HandleParentTimeout(n), ~Heard(n), msgs' \subseteq Message
    PROVE  Whole' /\ Fresh' /\ Delivery'
<1>1. PICK hop \in Hops(n) : msgs' = msgs \cup Joins(n, TRUE, hop)
  BY DEF HandleParentTimeout
<1>2. n \in alive /\ alive' = alive /\ known' = known /\ data' = data /\ config' = config /\ group[n] \in Group
  BY Now DEF HandleParentTimeout
<1>3. \A m \in Joins(n, TRUE, hop) :
          /\ MsgWhole(alive, group', m) /\ ~Carries(m) /\ m.type = "join" /\ m.src = n
  BY <1>2, JoinsWhole
<1>4. /\ \A k \in Node \ {n} : group'[k] = group[k]
      /\ group'[n] = [group[n] EXCEPT !.parentTimer = FALSE]
  BY Now DEF HandleParentTimeout, Types
<1>5. /\ group'[n].children = group[n].children /\ group'[n].rendezvous = group[n].rendezvous
      /\ group'[n].parent = group[n].parent /\ group'[n].there = group[n].there
  BY <1>2, <1>4 DEF Group
<1>6. alive \subseteq Node /\ Grows(alive, group, group')
  BY <1>4, <1>5, Now DEF Grows, Types
<1>7. Whole'
  <2>1. \A k \in alive : group'[k] = group[k] \/ NodeWhole(alive, group', k)
    BY <1>2, <1>4, <1>5, <1>6, NodeSame DEF Whole
  <2> QED
    BY <1>1, <1>2, <1>3, <1>6, <2>1, WholeStays
<1>8. Fresh'
  BY <1>1, <1>2, <1>3, FreshStays
<1>9. Delivery'
  <2>1. \A m \in msgs \cup msgs' : m.type = "data" => (m \in msgs <=> m \in msgs')
    BY <1>1, <1>3
  <2>2. ASSUME NEW k \in Node, NEW id \in Int, <<k, id>> \in data.owed
        PROVE  /\ group'[k].parent = group[k].parent /\ group'[k].there
               /\ ~FirstOf(alive, k) =>
                    /\ \A p \in alive : k \in group'[p].children => k \in group[p].children
                    /\ \A m \in msgs' : m.type = "join" /\ m.src = k => m \in msgs
    <3>1. OnTree(k, id)
      BY <2>2, OwedAsksNot
    <3>2. ~FirstOf(alive, k) => k # n
      <4>1. ASSUME ~FirstOf(alive, k), k = n PROVE FALSE
        <5>1. group[k].parent \in alive /\ k \in group[group[k].parent].children
          BY <3>1, <4>1 DEF OnTree, Holds
        <5>2. group[group[k].parent].heartbeat
          BY <1>6, <5>1, Now DEF TimersAgree, IsForwarder
        <5> QED
          BY <4>1, <5>1, <5>2 DEF Heard
      <4> QED
        BY <4>1
    <3> QED
      BY <1>1, <1>3, <1>4, <1>5, <1>6, <3>1, <3>2 DEF OnTree
  <2> QED
    BY <1>2, <1>6, <2>1, <2>2, DeliveryStays
<1> QED
  BY <1>7, <1>8, <1>9

LEMMA PublishResponseDelivers ==
    ASSUME IInv, Whole, Fresh, Delivery, NEW m \in msgs, HandlePublishResponse(m), msgs' \subseteq Message
    PROVE  Whole' /\ Fresh' /\ Delivery'
<1> DEFINE n == m.dst
           root == IF m.wrongRoot THEN None ELSE m.src
<1>1. alive' = alive /\ known' = known /\ data' = data /\ config' = config /\ msgs' = msgs \ {m}
      /\ m.type = "publishResponse" /\ n \in alive /\ n \in Node /\ alive \subseteq Node /\ group[n] \in Group
  BY Now DEF HandlePublishResponse, Types
<1>2. root \in alive \cup {None}
  BY DEF Whole, MsgWhole
<1>3. \A k \in Node \ {n} : group'[k] = group[k]
  BY <1>1, Now DEF HandlePublishResponse, Types
<1>4. \/ group'[n] = group[n]
      \/ /\ group'[n].there = group[n].there /\ group'[n].parent = group[n].parent
         /\ group'[n].children = group[n].children /\ group'[n].rendezvous = root
  <2>1. CASE group[n].there
    <3>1. group'[n] = [group[n] EXCEPT !.rendezvous = root]
      BY <1>1, <2>1, Now DEF HandlePublishResponse, Types
    <3> HIDE DEF root
    <3> QED
      BY <1>1, <2>1, <3>1 DEF Group
  <2>2. CASE ~group[n].there
    BY <2>2 DEF HandlePublishResponse
  <2> QED
    BY <2>1, <2>2
<1> HIDE DEF root
<1>5. Grows(alive, group, group')
  BY <1>1, <1>3, <1>4 DEF Grows
<1>6. Whole'
  <2>1. NodeWhole(alive, group, n)
    BY <1>1 DEF Whole
  <2>2. group'[n] = group[n] \/ NodeWhole(alive, group', n)
    BY <1>2, <1>4, <1>5, <2>1 DEF NodeWhole, Holds, Grows
  <2> QED
    BY <1>1, <1>3, <1>5, <2>2, WholeStays
<1>7. Fresh'
  BY <1>1, FreshStays
<1>8. Delivery'
  <2>1. ASSUME NEW k \in Node, NEW id \in Int, <<k, id>> \in data.owed
        PROVE  /\ group'[k].parent = group[k].parent /\ group'[k].there
               /\ \A p \in alive : k \in group'[p].children => k \in group[p].children
    <3>1. OnTree(k, id)
      BY <2>1, OwedAsksNot
    <3> QED
      BY <1>1, <1>3, <1>4, <3>1 DEF OnTree
  <2> QED
    BY <1>1, <1>5, <2>1, DeliveryStays
<1> QED
  BY <1>6, <1>7, <1>8

\* The root is the first node, as InTree() has it.
LEMMA FirstIsMin ==
    ASSUME IInv, NEW n, FirstOf(alive, n)
    PROVE  Min(alive) = n /\ \A k \in alive : FirstOf(alive, k) => k = n
<1>1. alive \subseteq Nat
  BY Now, Natural DEF Types
<1>2. \A k \in alive : (\A j \in alive : k <= j) => k = n
  BY <1>1 DEF FirstOf
<1> QED
  BY <1>2 DEF FirstOf, Min

LEMMA CopiesFacts ==
    ASSUME NEW n \in Node, group \in [Node -> Group], NEW id
    PROVE  /\ \A j \in Copies(n, id) :
                /\ j.type = "data" /\ j.src = n /\ j.id = id /\ j.dst \in group[n].children
                /\ ~j.routed /\ ~j.wrongRoot
           /\ \A c \in group[n].children : OnItsWay(Copies(n, id), c, id)
<1> DEFINE copy(c) == [Msg("data", n, c) EXCEPT !.id = id]
<1>1. ASSUME NEW c
      PROVE  /\ copy(c).type = "data" /\ copy(c).src = n /\ copy(c).dst = c
             /\ copy(c).id = id /\ ~copy(c).routed /\ ~copy(c).wrongRoot
  BY DEF Msg
<1>2. Copies(n, id) = {copy(c) : c \in group[n].children}
  BY DEF Copies
<1> HIDE DEF copy
<1>3. \A j \in Copies(n, id) : \E c \in group[n].children : j = copy(c)
  BY <1>2
<1>4. \A c \in group[n].children : copy(c) \in Copies(n, id)
  BY <1>2
<1>5. \A c \in group[n].children : OnItsWay(Copies(n, id), c, id)
  BY <1>1, <1>4 DEF OnItsWay
<1> QED
  BY <1>1, <1>3, <1>5

\* A node passes on what it gets.  n is not owed it, or gets it for the first time, and from
\* its parent; and nobody is owed it anew unless n is the root that has just got it.
LEMMA Passes ==
    ASSUME IInv, Whole, Delivery, NEW n \in alive, NEW id \in Int, NEW m,
           alive' = alive, group' = group, msgs' \subseteq Message,
           (msgs \ {m}) \cup Copies(n, id) \subseteq msgs',
           \A j \in msgs' : j \in (msgs \ {m}) \cup Copies(n, id) \/ j.type \notin {"join", "data"},
           m.type # "join", m.type = "data" => m.dst = n /\ m.id = id,
           data'.got = data.got \cup {<<n, id>>}, data.owed \subseteq data'.owed, ~data'.twice,
           \A k \in Node, i \in Int : <<k, i>> \in data'.owed \ data.owed =>
               /\ i = id /\ OnTree(k, id)' /\ FirstOf(alive, n)
               /\ \A j \in msgs : j.type = "data" => j.id # id
               /\ \A j \in Node : <<j, id>> \notin data.got,
           <<n, id>> \in data'.owed =>
               /\ <<n, id>> \notin data.got
               /\ FirstOf(alive, n) \/ <<group[n].parent, id>> \in data.got
               /\ \A j \in msgs \ {m} : j.type = "data" => <<j.dst, j.id>> # <<n, id>>
    PROVE  Delivery'
<1>0. n \in Node /\ alive \subseteq Node /\ alive \subseteq Nat /\ group \in [Node -> Group] /\ group[n] \in Group
      /\ group[n].children \subseteq alive /\ n \notin group[n].children
      /\ \A c \in group[n].children : ~FirstOf(alive, c)
  <2>1. n \in Node /\ alive \subseteq Node /\ alive \subseteq Nat /\ group \in [Node -> Group]
    BY Now, Natural DEF Types
  <2>2. group[n].children \subseteq alive /\ \A c \in group[n].children : n < c
    BY DEF Whole, NodeWhole
  <2> QED
    BY <2>1, <2>2 DEF FirstOf
<1>1. \A j \in msgs' : \/ j \in msgs /\ j # m
                       \/ j.type \notin {"join", "data"}
                       \/ j \in Copies(n, id)
  OBVIOUS
<1>2. \A j \in Copies(n, id) :
          j.type = "data" /\ j.src = n /\ j.id = id /\ j.dst \in group[n].children
  BY <1>0, CopiesFacts
<1>3. ASSUME NEW k \in Node, NEW i \in Int, <<k, i>> \in data'.owed
      PROVE  OnTree(k, i)'
  <2>1. CASE <<k, i>> \in data.owed
    <3>1. OnTree(k, i)
      BY <2>1 DEF Delivery
    <3>2. \A j \in msgs' : j.type = "join" => j \in msgs
      BY <1>1, <1>2
    <3> QED
      BY <3>1, <3>2 DEF OnTree
  <2>2. CASE <<k, i>> \notin data.owed
    BY <1>3, <2>2
  <2> QED
    BY <2>1, <2>2
<1>4. ASSUME NEW k \in Node, NEW i \in Int, <<k, i>> \in data'.owed
      PROVE  \/ FirstOf(alive, k) /\ group[k].parent = k
             \/ /\ ~FirstOf(alive, k) /\ group[k].parent \in alive /\ k \in group[group[k].parent].children
                /\ \A p \in alive : k \in group[p].children => p = group[k].parent
                /\ <<group[k].parent, i>> \in data'.owed
  BY <1>3, <1>4 DEF OnTree, Holds
<1>5. ASSUME NEW k \in Node, NEW i \in Int, <<k, i>> \in data'.owed, ~FirstOf(alive, k),
             group[k].parent = n, i = id
      PROVE  OnItsWay(msgs', k, i)
  <2>1. k \in group[n].children
    BY <1>4, <1>5
  <2>2. OnItsWay(Copies(n, id), k, id)
    BY <1>0, <2>1, CopiesFacts
  <2> QED
    BY <1>5, <2>2 DEF OnItsWay
<1>6. ASSUME NEW k \in Node, NEW i \in Int, <<k, i>> \in data'.owed
      PROVE  /\ \/ <<k, i>> \in data'.got
                \/ ~FirstOf(alive, k) /\ OnItsWay(msgs', k, i)
                \/ ~FirstOf(alive, k) /\ <<group[k].parent, i>> \notin data'.got
             /\ <<k, i>> \in data'.got => FirstOf(alive, k) \/ <<group[k].parent, i>> \in data'.got
  <2>1. CASE k = n /\ i = id
    BY <1>6, <2>1
  <2>2. CASE <<k, i>> \in data.owed /\ ~(k = n /\ i = id)
    <3>1. /\ \/ <<k, i>> \in data.got
             \/ ~FirstOf(alive, k) /\ OnItsWay(msgs, k, i)
             \/ ~FirstOf(alive, k) /\ <<group[k].parent, i>> \notin data.got
          /\ <<k, i>> \in data.got => FirstOf(alive, k) \/ <<group[k].parent, i>> \in data.got
      BY <2>2 DEF Delivery
    <3>2. OnItsWay(msgs, k, i) => OnItsWay(msgs', k, i)
      BY <2>2 DEF OnItsWay
    <3>3. <<k, i>> \in data'.got => <<k, i>> \in data.got
      BY <2>2
    <3>4. CASE <<group[k].parent, i>> = <<n, id>>
      BY <1>5, <1>6, <3>1, <3>3, <3>4
    <3>5. CASE <<group[k].parent, i>> # <<n, id>>
      BY <3>1, <3>2, <3>3, <3>5
    <3> QED
      BY <3>4, <3>5
  <2>3. CASE <<k, i>> \notin data.owed /\ ~(k = n /\ i = id)
    <3>1. i = id /\ FirstOf(alive, n) /\ \A j \in Node : <<j, id>> \notin data.got
      BY <1>6, <2>3
    <3>2. k # n /\ <<k, i>> \notin data'.got
      BY <2>3, <3>1
    <3>3. ~FirstOf(alive, k)
      <4>1. k \in alive
        BY <1>3, <1>6 DEF OnTree
      <4> QED
        BY <3>1, <3>2, <4>1, FirstIsMin
    <3>4. CASE group[k].parent = n
      BY <1>5, <1>6, <3>1, <3>2, <3>3, <3>4
    <3>5. CASE group[k].parent # n
      <4>1. group[k].parent \in Node
        BY <1>0, <1>4, <1>6, <3>3
      <4>2. <<group[k].parent, i>> \notin data'.got
        BY <3>1, <3>5, <4>1
      <4> QED
        BY <3>2, <3>3, <4>2
    <3> QED
      BY <3>4, <3>5
  <2> QED
    BY <2>1, <2>2, <2>3
<1>7. ASSUME NEW j \in msgs', j.type = "data", <<j.dst, j.id>> \in data'.owed
      PROVE  /\ ~FirstOf(alive, j.dst) /\ j.src = group[j.dst].parent
             /\ <<j.src, j.id>> \in data'.got /\ <<j.dst, j.id>> \notin data'.got
  <2>0. j.dst \in Node /\ j.id \in Int
    BY DEF Message
  <2>1. CASE j \in msgs /\ j # m
    <3>1. <<j.dst, j.id>> \in data.owed
      BY <1>7, <2>0, <2>1
    <3>2. /\ ~FirstOf(alive, j.dst) /\ j.src = group[j.dst].parent
          /\ <<j.src, j.id>> \in data.got /\ <<j.dst, j.id>> \notin data.got
      BY <1>7, <2>1, <3>1 DEF Delivery
    <3>3. <<j.dst, j.id>> # <<n, id>>
      BY <1>7, <2>1
    <3> QED
      BY <3>2, <3>3
  <2>2. CASE j \in Copies(n, id)
    <3>1. j.src = n /\ j.id = id /\ j.dst \in group[n].children /\ ~FirstOf(alive, j.dst) /\ j.dst # n
      BY <1>0, <1>2, <2>2
    <3>2. group[j.dst].parent = n /\ <<n, id>> \in data'.owed
      BY <1>4, <1>7, <2>0, <3>1
    <3>3. <<j.dst, id>> \notin data.got
      <4>1. CASE <<j.dst, id>> \in data.owed
        BY <2>0, <3>1, <3>2, <4>1 DEF Delivery
      <4>2. CASE <<j.dst, id>> \notin data.owed
        BY <1>7, <2>0, <3>1, <4>2
      <4> QED
        BY <4>1, <4>2
    <3> QED
      BY <3>1, <3>2, <3>3
  <2> QED
    BY <1>1, <1>7, <2>1, <2>2
<1> QED
  BY <1>3, <1>6, <1>7 DEF Delivery

LEMMA GotFacts ==
    ASSUME NEW d, d \in History,
           NEW n \in Node, NEW id \in Int
    PROVE  /\ Got(d, n, id).got = d.got \cup {<<n, id>>} /\ Got(d, n, id).owed = d.owed
           /\ Got(d, n, id).twice = (d.twice \/ <<n, id>> \in d.got \cap d.owed)
           /\ Got(d, n, id).steady = d.steady
           /\ Got(d, n, id) \in History
<1> DEFINE g == d.got \cup {<<n, id>>}
           t == d.twice \/ <<n, id>> \in d.got \cap d.owed
<1>1. Got(d, n, id) = [d EXCEPT !.got = g, !.twice = t]
  BY DEF Got
<1>2. t \in BOOLEAN /\ g \in SUBSET (Node \X Int)
  BY DEF History
<1>3. t = (d.twice \/ <<n, id>> \in d.got \cap d.owed) /\ g = d.got \cup {<<n, id>>}
  OBVIOUS
<1> HIDE DEF g, t
<1>4. /\ [d EXCEPT !.got = g, !.twice = t].got = g /\ [d EXCEPT !.got = g, !.twice = t].owed = d.owed
      /\ [d EXCEPT !.got = g, !.twice = t].twice = t /\ [d EXCEPT !.got = g, !.twice = t].steady = d.steady
      /\ [d EXCEPT !.got = g, !.twice = t]
            \in History
  BY <1>2 DEF History
<1> QED
  BY <1>1, <1>3, <1>4

LEMMA DataDelivers ==
    ASSUME IInv, SInv, Whole, Fresh, Delivery, NEW m \in msgs, HandleData(m), msgs' \subseteq Message
    PROVE  Whole' /\ Fresh' /\ Delivery' /\ Histories' /\ data'.steady = data.steady
<1> DEFINE n == m.dst
<1>1. /\ alive' = alive /\ known' = known /\ group' = group /\ config' = config /\ m.type = "data"
      /\ n \in alive /\ n \in Node /\ m.id \in Int /\ m.src \in Node /\ ~m.routed /\ ~m.wrongRoot /\ Histories
      /\ m \in Message /\ group \in [Node -> Group] /\ alive \subseteq Node
  BY Now DEF HandleData, Whole, MsgWhole, Message, SInv, Types
<1>2. Grows(alive, group, group')
  BY <1>1 DEF Grows
<1>3. CASE ~group[n].there
  <2>1. msgs' = msgs \ {m} /\ data' = data
    BY <1>3 DEF HandleData
  <2>2. Whole' /\ Fresh'
    BY <1>1, <1>2, <2>1, WholeStays, FreshStays
  <2>3. \A id \in Int : <<n, id>> \notin data.owed
    BY <1>1, <1>3, OwedAsksNot DEF OnTree
  <2>4. ASSUME NEW k \in Node, NEW id \in Int, <<k, id>> \in data.owed
        PROVE  OnTree(k, id)' /\ (OnItsWay(msgs, k, id) => OnItsWay(msgs', k, id))
    <3>1. OnTree(k, id) /\ k # n
      BY <2>3, <2>4 DEF Delivery
    <3> QED
      BY <1>1, <2>1, <3>1 DEF OnTree, OnItsWay
  <2>5. Delivery'
    BY <1>1, <2>1, <2>4 DEF Delivery
  <2> QED
    BY <1>1, <2>1, <2>2, <2>5 DEF Histories
<1>4. CASE group[n].there
  <2>1. msgs' = (msgs \ {m}) \cup {} \cup Copies(n, m.id) /\ data' = Got(data, n, m.id)
    BY <1>4 DEF HandleData
  <2>2. <<n, m.id>> \in data.owed =>
            /\ <<n, m.id>> \notin data.got /\ <<group[n].parent, m.id>> \in data.got
            /\ \A j \in msgs \ {m} : j.type = "data" => <<j.dst, j.id>> # <<n, m.id>>
    <3>1. \A j \in msgs : j.type = "data" /\ <<j.dst, j.id>> \in data.owed =>
              /\ ~FirstOf(alive, j.dst) /\ j.src = group[j.dst].parent
              /\ <<j.src, j.id>> \in data.got /\ <<j.dst, j.id>> \notin data.got
      BY DEF Delivery
    <3>2. ASSUME NEW j \in msgs, j.type = "data", <<j.dst, j.id>> = <<n, m.id>>, <<n, m.id>> \in data.owed
          PROVE  j = m
      <4>1. j.dst = m.dst /\ j.id = m.id /\ j.type = m.type
        BY <1>1, <3>2
      <4>2. j.src = m.src
        <5>1. <<m.dst, m.id>> \in data.owed /\ <<j.dst, j.id>> \in data.owed /\ m.type = "data"
          BY <1>1, <3>2
        <5>2. m.src = group[m.dst].parent /\ j.src = group[j.dst].parent
          BY <3>1, <3>2, <5>1
        <5> QED
          BY <4>1, <5>2
      <4>3. j \in Message /\ ~j.routed /\ ~j.wrongRoot
        BY <3>2, Now DEF Whole, MsgWhole
      <4> QED
        BY <1>1, <4>1, <4>2, <4>3 DEF Message
    <3> QED
      BY <1>1, <3>1, <3>2
  <2>3. /\ data'.got = data.got \cup {<<n, m.id>>} /\ data'.owed = data.owed
        /\ data'.twice = (data.twice \/ <<n, m.id>> \in data.got \cap data.owed)
        /\ data'.steady = data.steady /\ Histories'
    BY <1>1, <2>1, GotFacts DEF Histories
  <2>4. \A j \in Copies(n, m.id) : j.type = "data" /\ j.src = n /\ j.id = m.id /\ j.dst \in group[n].children
                                 /\ ~j.routed /\ ~j.wrongRoot
    BY <1>1, CopiesFacts
  <2>5. Whole'
    <3>1. \A j \in Copies(n, m.id) : MsgWhole(alive, group', j)
      BY <1>1, <2>4 DEF Whole, NodeWhole, MsgWhole
    <3> QED
      BY <1>1, <1>2, <2>1, <3>1, WholeStays
  <2>6. Fresh'
    <3>1. m.id > config.publishes
      BY <1>1 DEF Fresh, Carries
    <3>2. \A j \in msgs : j.type = "publish" => j.id # m.id
      BY <1>1 DEF Fresh, Carries
    <3>3. \A j \in msgs' : (j \in msgs) \/ (j.type = "data" /\ j.id = m.id)
      BY <2>1, <2>4
    <3>4. \A j \in msgs' : Carries(j) => j.id > config'.publishes
      BY <1>1, <3>1, <3>3 DEF Fresh
    <3>5. \A k \in Node, id \in Int : <<k, id>> \in data'.owed \cup data'.got => id > config'.publishes
      BY <1>1, <2>3, <3>1 DEF Fresh
    <3>6. ASSUME NEW j \in msgs', j.type = "publish"
          PROVE  /\ \A k \in msgs' : Carries(k) /\ k.id = j.id => k = j
                 /\ \A k \in Node : <<k, j.id>> \notin data'.owed \cup data'.got
      BY <2>3, <3>2, <3>3, <3>6 DEF Fresh
    <3> QED
      BY <3>4, <3>5, <3>6 DEF Fresh
  <2>7. Delivery'
    <3>1. ~data'.twice
      BY <2>2, <2>3 DEF Delivery
    <3>2. \A k \in Node, i \in Int : <<k, i>> \notin data'.owed \ data.owed
      BY <2>3
    <3>3. m.type # "join" /\ (m.type = "data" => m.dst = n /\ m.id = m.id)
      BY <1>1
    <3>4. msgs' = (msgs \ {m}) \cup Copies(n, m.id)
      BY <2>1
    <3>5. data.owed \subseteq data'.owed /\ data'.got = data.got \cup {<<n, m.id>>}
      BY <2>3
    <3>6. <<n, m.id>> \in data'.owed =>
            /\ <<n, m.id>> \notin data.got
            /\ FirstOf(alive, n) \/ <<group[n].parent, m.id>> \in data.got
            /\ \A j \in msgs \ {m} : j.type = "data" => <<j.dst, j.id>> # <<n, m.id>>
      BY <2>2, <2>3
    <3> HIDE DEF n
    <3> QED
      BY <1>1, <2>1, <3>1, <3>2, <3>3, <3>4, <3>5, <3>6, Passes
  <2> QED
    BY <2>3, <2>5, <2>6, <2>7
<1> QED
  BY <1>3, <1>4

\* A publication on the way to the root, or one that a node that is not the root refuses.
LEMMA PublishPasses ==
    ASSUME IInv, Whole, Fresh, Delivery, NEW m \in msgs, m.type = "publish", NEW j \in Message,
           j.src \in alive, j.dst \in alive,
           j.type = "publishResponse" \/ (j.type = "publish" /\ j.id = m.id),
           msgs' = (msgs \ {m}) \cup {j}, msgs' \subseteq Message,
           UNCHANGED <<config, alive, known, group, data>>
    PROVE  Whole' /\ Fresh' /\ Delivery'
<1>1. Grows(alive, group, group')
  BY DEF Grows
<1>2. MsgWhole(alive, group', j)
  BY AnswerWhole
<1>3. Whole'
  BY <1>1, <1>2, WholeStays
<1>4. Fresh'
  <2>1. \A k \in msgs' : Carries(k) => k.id > config'.publishes
    BY DEF Fresh, Carries
  <2>2. ASSUME NEW k \in msgs', k.type = "publish"
        PROVE  /\ \A x \in msgs' : Carries(x) /\ x.id = k.id => x = k
               /\ \A n \in Node : <<n, k.id>> \notin data'.owed \cup data'.got
    BY <2>2 DEF Fresh, Carries
  <2>3. \A n \in Node, id \in Int : <<n, id>> \in data'.owed \cup data'.got => id > config'.publishes
    BY DEF Fresh
  <2> QED
    BY <2>1, <2>2, <2>3 DEF Fresh
<1>5. Delivery'
  <2>1. \A k \in msgs \cup msgs' : k.type = "data" => (k \in msgs <=> k \in msgs')
    OBVIOUS
  <2>2. ASSUME NEW k \in Node, NEW id \in Int, <<k, id>> \in data.owed
        PROVE  group[k].there /\ \A x \in msgs' : x.type = "join" => x \in msgs
    BY <2>2, OwedAsksNot DEF OnTree
  <2> QED
    BY <1>1, <2>1, <2>2, DeliveryStays
<1> QED
  BY <1>3, <1>4, <1>5

LEMMA OwedFacts ==
    ASSUME Histories, alive \subseteq Node, NEW id \in Int
    PROVE  /\ Owed(id) \in History
           /\ Owed(id).steady = data.steady /\ Owed(id).got = data.got /\ Owed(id).twice = data.twice
           /\ \/ Owed(id).owed = data.owed
              \/ /\ \A n \in Members : InTree(n)
                 /\ \A m \in msgs : m.type # "join"
                 /\ Owed(id).owed = data.owed \cup {<<n, id>> : n \in Members}
<1> DEFINE new == data.owed \cup {<<n, id>> : n \in Members}
<1>1. \/ Owed(id) = data
      \/ /\ \A n \in Members : InTree(n)
         /\ \A m \in msgs : m.type # "join"
         /\ Owed(id) = [data EXCEPT !.owed = new]
  BY DEF Owed
<1>2. new \in SUBSET (Node \X Int)
  BY DEF Histories, History, Members
<1>3. new = data.owed \cup {<<n, id>> : n \in Members}
  OBVIOUS
<1> HIDE DEF new
<1>4. /\ [data EXCEPT !.owed = new].steady = data.steady /\ [data EXCEPT !.owed = new].got = data.got
      /\ [data EXCEPT !.owed = new].twice = data.twice /\ [data EXCEPT !.owed = new].owed = new
      /\ [data EXCEPT !.owed = new]
            \in History
  BY <1>2 DEF Histories, History
<1> QED
  BY <1>1, <1>3, <1>4 DEF Histories

\* The root passes a publication on; when the tree is whole, its nodes are owed it.
LEMMA RootDelivers ==
    ASSUME IInv, SInv, Whole, Fresh, Delivery, NEW m \in msgs, m.type = "publish", m.dst \in alive,
           group[m.dst].parent = m.dst, NEW answer \in Message, answer.type = "publishResponse",
           answer.src \in alive, answer.dst \in alive,
           msgs' = (msgs \ {m}) \cup {answer} \cup Copies(m.dst, m.id), msgs' \subseteq Message,
           data' = Got(Owed(m.id), m.dst, m.id), UNCHANGED <<config, alive, known, group>>
    PROVE  Whole' /\ Fresh' /\ Delivery' /\ Histories' /\ data'.steady = data.steady
<1> DEFINE n == m.dst
           id == m.id
<1>1. n \in Node /\ id \in Int /\ alive \subseteq Node /\ Histories /\ group \in [Node -> Group]
      /\ None \notin Node
  BY Now, Natural DEF Types, Message, SInv
<1>2. FirstOf(alive, n)
  <2>1. NodeWhole(alive, group, n)
    BY DEF Whole
  <2>2. n \in Nat
    BY <1>1, Natural
  <2>3. n # None /\ ~(n < n)
    BY <1>1, <2>2
  <2> QED
    BY <2>1, <2>3 DEF NodeWhole, Holds
<1>3. /\ data'.got = data.got \cup {<<n, id>>}
      /\ data'.owed = Owed(id).owed
      /\ data'.twice = (data.twice \/ <<n, id>> \in data.got \cap Owed(id).owed)
      /\ data'.steady = data.steady /\ Histories'
  BY <1>1, OwedFacts, GotFacts DEF Histories
<1>4. \A k \in Node : <<k, id>> \notin data.owed \cup data.got
  BY DEF Fresh
<1>5. \A j \in msgs : j.type = "data" => j.id # id
  BY DEF Fresh, Carries
<1>6. ~data'.twice
  BY <1>1, <1>3, <1>4 DEF Delivery
<1>7. \A j \in Copies(n, id) : /\ j.type = "data" /\ j.src = n /\ j.id = id /\ j.dst \in group[n].children
                              /\ ~j.routed /\ ~j.wrongRoot
  BY <1>1, CopiesFacts
<1>8. \A k \in Node, i \in Int : <<k, i>> \in data'.owed \cup data'.got =>
          (<<k, i>> \in data.owed \cup data.got) \/ i = id
  BY <1>1, <1>3, OwedFacts
<1>9. Whole'
  <2>1. \A j \in Copies(n, id) : MsgWhole(alive, group', j)
    BY <1>7 DEF Whole, NodeWhole, MsgWhole
  <2>2. MsgWhole(alive, group', answer) /\ Grows(alive, group, group')
    BY AnswerWhole DEF Grows
  <2> QED
    BY <2>1, <2>2, WholeStays
<1>10. Fresh'
  <2>1. m.id > config.publishes
    BY DEF Fresh, Carries
  <2>2. \A j \in msgs' : (j \in msgs /\ j # m) \/ ~Carries(j) \/ (j.type = "data" /\ j.id = id)
    BY <1>7 DEF Carries
  <2>3. \A j \in msgs' : Carries(j) => j.id > config'.publishes
    BY <2>1, <2>2 DEF Fresh
  <2>4. \A k \in Node, i \in Int : <<k, i>> \in data'.owed \cup data'.got => i > config'.publishes
    BY <1>8, <2>1 DEF Fresh
  <2>5. ASSUME NEW j \in msgs', j.type = "publish"
        PROVE  /\ \A k \in msgs' : Carries(k) /\ k.id = j.id => k = j
               /\ \A k \in Node : <<k, j.id>> \notin data'.owed \cup data'.got
    <3>1. j \in msgs /\ j # m /\ j.id # id /\ j.id \in Int
      BY <2>2, <2>5 DEF Fresh, Carries, Message
    <3> QED
      BY <1>8, <2>2, <2>5, <3>1 DEF Fresh
  <2> QED
    BY <2>3, <2>4, <2>5 DEF Fresh
<1>11. Delivery'
  <2>1. \A j \in msgs' : j \in (msgs \ {m}) \cup Copies(n, id) \/ j.type \notin {"join", "data"}
    OBVIOUS
  <2>2. ASSUME NEW k \in Node, NEW i \in Int, <<k, i>> \in data'.owed \ data.owed
        PROVE  i = id /\ OnTree(k, id)'
    <3>1. /\ \A x \in Members : InTree(x)
          /\ \A x \in msgs : x.type # "join"
          /\ data'.owed = data.owed \cup {<<x, id>> : x \in Members}
      BY <1>1, <1>3, <2>2, OwedFacts
    <3>2. i = id /\ k \in Members
      BY <2>2, <3>1
    <3>3. k \in alive /\ InTree(k) /\ group[k].there
      <4>1. Seeks(group[k]) /\ TimersAgree(group[k], childTimeoutList[k])
        BY <1>1, <3>2, Now DEF Members, Seeks
      <4> QED
        BY <3>1, <3>2, <4>1, NoGroupSeeksNothing DEF Members, TimersAgree
    <3>4. \A x \in msgs' : x.type # "join"
      BY <1>7, <3>1
    <3>5. n = Min(alive) /\ \A x \in alive : FirstOf(alive, x) => x = n
      BY <1>2, FirstIsMin
    <3>6. CASE k = n
      BY <1>2, <3>2, <3>3, <3>6 DEF OnTree
    <3>7. CASE k # n
      <4>1. group[k].parent \in alive /\ {p \in alive : k \in group[p].children} = {group[k].parent}
        BY <3>3, <3>5, <3>7 DEF InTree
      <4>2. k \in group[group[k].parent].children /\ \A p \in alive : k \in group[p].children => p = group[k].parent
        BY <4>1
      <4>3. group[k].parent \in Members
        BY <4>1, <4>2 DEF Members, IsForwarder
      <4>4. <<group[k].parent, id>> \in data'.owed
        BY <3>1, <4>3
      <4>5. ~FirstOf(alive, k)
        BY <3>3, <3>5, <3>7
      <4> QED
        BY <3>2, <3>3, <3>4, <4>1, <4>2, <4>4, <4>5 DEF OnTree, Holds
    <3> QED
      BY <3>6, <3>7
  <2>3. data.owed \subseteq data'.owed
    BY <1>1, <1>3, OwedFacts
  <2>4. (msgs \ {m}) \cup Copies(n, id) \subseteq msgs'
    OBVIOUS
  <2>5. n \in alive /\ m.type \notin {"join", "data"}
    OBVIOUS
  <2>6. \A k \in Node, i \in Int : <<k, i>> \in data'.owed \ data.owed =>
            /\ i = id /\ OnTree(k, id)' /\ FirstOf(alive, n)
            /\ \A j \in msgs : j.type = "data" => j.id # id
            /\ \A j \in Node : <<j, id>> \notin data.got
    BY <1>2, <1>4, <1>5, <2>2
  <2>7. <<n, id>> \in data'.owed =>
            /\ <<n, id>> \notin data.got
            /\ FirstOf(alive, n) \/ <<group[n].parent, id>> \in data.got
            /\ \A j \in msgs \ {m} : j.type = "data" => <<j.dst, j.id>> # <<n, id>>
    BY <1>1, <1>2, <1>4, <1>5
  <2> HIDE DEF n, id
  <2> QED
    BY <1>1, <1>3, <1>6, <2>1, <2>3, <2>4, <2>5, <2>6, <2>7, Passes
<1> QED
  BY <1>3, <1>9, <1>10, <1>11

LEMMA PublishCallDelivers ==
    ASSUME IInv, SInv, Whole, Fresh, Delivery, NEW m \in msgs, HandlePublishCall(m), msgs' \subseteq Message
    PROVE  Whole' /\ Fresh' /\ Delivery' /\ Histories' /\ data'.steady = data.steady
<1> DEFINE n == m.dst
           isRoot == group[n].there /\ group[n].parent = n
           answer == [Msg("publishResponse", n, m.src) EXCEPT !.wrongRoot = ~isRoot]
<1>1. /\ UNCHANGED <<config, alive, known, group>> /\ m.type = "publish" /\ n \in alive /\ m.src \in alive
      /\ m \in Message /\ n \in Node /\ m.src \in Node /\ Histories /\ alive \subseteq Node
  BY Now DEF HandlePublishCall, Whole, MsgWhole, SInv, Types
<1>2. answer \in Message /\ answer.type = "publishResponse" /\ answer.src \in alive /\ answer.dst \in alive
  <2>1. ASSUME NEW r \in Message, NEW b \in BOOLEAN
        PROVE  /\ [r EXCEPT !.wrongRoot = b] \in Message /\ [r EXCEPT !.wrongRoot = b].type = r.type
               /\ [r EXCEPT !.wrongRoot = b].src = r.src /\ [r EXCEPT !.wrongRoot = b].dst = r.dst
    BY DEF Message
  <2>2. Msg("publishResponse", n, m.src) \in Message /\ Msg("publishResponse", n, m.src).type = "publishResponse"
        /\ Msg("publishResponse", n, m.src).src = n /\ Msg("publishResponse", n, m.src).dst = m.src
    BY <1>1, MsgFacts DEF MessageType
  <2> HIDE DEF isRoot
  <2>3. (~isRoot) \in BOOLEAN
    <3>1. CASE isRoot
      BY <3>1
    <3>2. CASE ~isRoot
      BY <3>2
    <3> QED
      BY <3>1, <3>2
  <2> QED
    BY <1>1, <2>1, <2>2, <2>3
<1>3. \/ \E hop \in Hops(n) : msgs' = (msgs \ {m}) \cup {[m EXCEPT !.dst = hop]} /\ data' = data
      \/ /\ isRoot /\ msgs' = (msgs \ {m}) \cup {answer} \cup Copies(n, m.id)
         /\ data' = Got(Owed(m.id), n, m.id)
      \/ msgs' = (msgs \ {m}) \cup {answer} /\ data' = data
  BY DEF HandlePublishCall
<1> HIDE DEF answer
<1>4. CASE \E hop \in Hops(n) : msgs' = (msgs \ {m}) \cup {[m EXCEPT !.dst = hop]} /\ data' = data
  <2>1. PICK hop \in Hops(n) : msgs' = (msgs \ {m}) \cup {[m EXCEPT !.dst = hop]} /\ data' = data
    BY <1>4
  <2>2. hop \in alive
    BY <1>1, HopsWhole
  <2>3. /\ [m EXCEPT !.dst = hop] \in Message /\ [m EXCEPT !.dst = hop].type = "publish"
        /\ [m EXCEPT !.dst = hop].id = m.id /\ [m EXCEPT !.dst = hop].src = m.src
        /\ [m EXCEPT !.dst = hop].dst = hop
    BY <1>1, <2>2 DEF Message
  <2>4. Whole' /\ Fresh' /\ Delivery'
    BY <1>1, <2>1, <2>2, <2>3, PublishPasses
  <2> QED
    BY <1>1, <2>1, <2>4 DEF Histories
<1>5. CASE /\ isRoot /\ msgs' = (msgs \ {m}) \cup {answer} \cup Copies(n, m.id)
           /\ data' = Got(Owed(m.id), n, m.id)
  BY <1>1, <1>2, <1>5, RootDelivers
<1>6. CASE msgs' = (msgs \ {m}) \cup {answer} /\ data' = data
  <2>1. Whole' /\ Fresh' /\ Delivery'
    BY <1>1, <1>2, <1>6, PublishPasses
  <2> QED
    BY <1>1, <1>6, <2>1 DEF Histories
<1> QED
  BY <1>3, <1>4, <1>5, <1>6

\* What cannot happen while all nodes are known and no node has left: these messages and steps.
LEMMA Impossible ==
    ASSUME IInv, Whole
    PROVE  /\ \A m \in msgs : ~HandleLeaveMessage(m) /\ ~Drop(m)
           /\ \A n, x \in Node : ~Learn(n, x) /\ ~Forget(n, x)
<1>1. ASSUME NEW m \in msgs
      PROVE  m.type # "leave" /\ m.dst \in alive
  BY DEF Whole, MsgWhole
<1>2. ASSUME NEW n \in alive
      PROVE  alive \ ({n} \cup known[n]) = {} /\ known[n] \ alive = {}
  BY DEF Whole
<1> QED
  BY <1>1, <1>2 DEF HandleLeaveMessage, Drop, Learn, Forget

LEMMA StepDelivers == IInv /\ IInv' /\ SInv /\ [Next]_vars => SInv'
<1> SUFFICES ASSUME IInv, IInv', SInv, [Next]_vars PROVE SInv'
  OBVIOUS
<1>1. msgs' \subseteq Message
  BY DEF IInv, Types
<1>2. ASSUME UNCHANGED data, data.steady => Whole' /\ Fresh' /\ Delivery'
      PROVE  SInv'
  BY <1>2 DEF SInv, Histories
<1>3. CASE UNCHANGED vars
  BY <1>3 DEF vars, SInv, Histories, Whole, Fresh, Delivery, OnTree
<1>4. ASSUME NEW n \in Node, NEW x \in Node,
             \/ LeaveGroup(n) \/ HandleChildTimeout(n, x) \/ Appear(n) \/ Fail(n)
             \/ \E m \in msgs : Lose(m)
             \/ HandleParentTimeout(n) /\ Heard(n)
      PROVE  SInv'
  <2>1. Unsteady
    BY <1>4 DEF LeaveGroup, HandleChildTimeout, Appear, Fail, Lose, HandleParentTimeout, Unsteady
  <2> QED
    BY <2>1, UnsteadyKeeps
<1>5. ASSUME NEW n \in Node, SubscribeToGroup(n) \/ Publish(n) \/ (HandleParentTimeout(n) /\ ~Heard(n))
      PROVE  SInv'
  <2>1. UNCHANGED data
    BY <1>5 DEF SubscribeToGroup, Publish, HandleParentTimeout
  <2> QED
    BY <1>1, <1>2, <1>5, <2>1, SubscribeDelivers, PublishDelivers, ParentTimeoutDelivers DEF SInv
<1>6. ASSUME NEW n \in Node, NEW x \in Node, Learn(n, x) \/ Forget(n, x)
      PROVE  SInv'
  <2>1. UNCHANGED data
    BY <1>6 DEF Learn, Forget
  <2> QED
    BY <1>2, <1>6, <2>1, Impossible DEF SInv
<1>7. ASSUME NEW m \in msgs, HandleJoinMessage(m) \/ HandleJoinResponse(m) \/ HandlePublishResponse(m)
                              \/ HandleLeaveMessage(m) \/ Drop(m)
      PROVE  SInv'
  <2>1. UNCHANGED data
    BY <1>7 DEF HandleJoinMessage, HandleJoinResponse, HandlePublishResponse, HandleLeaveMessage, Drop
  <2> QED
    BY <1>1, <1>2, <1>7, <2>1, JoinDelivers, JoinResponseDelivers, PublishResponseDelivers, Impossible DEF SInv
<1>8. ASSUME NEW m \in msgs, HandlePublishCall(m) \/ HandleData(m)
      PROVE  SInv'
  <2>1. CASE data.steady
    BY <1>1, <1>8, <2>1, PublishCallDelivers, DataDelivers DEF SInv
  <2>2. CASE ~data.steady
    <3>1. m.dst \in Node /\ m.id \in Int /\ alive \subseteq Node /\ Histories
      BY Now DEF Message, Types, SInv
    <3>2. data' = data \/ data' = Got(Owed(m.id), m.dst, m.id) \/ data' = Got(data, m.dst, m.id)
      BY <1>8 DEF HandlePublishCall, HandleData
    <3>3. Histories' /\ data'.steady = data.steady
      <4>1. CASE data' = data
        BY <3>1, <4>1 DEF Histories
      <4>2. CASE data' = Got(data, m.dst, m.id)
        BY <3>1, <4>2, GotFacts DEF Histories
      <4>3. CASE data' = Got(Owed(m.id), m.dst, m.id)
        <5>1. Owed(m.id) \in History /\ Owed(m.id).steady = data.steady
          BY <3>1, OwedFacts
        <5> QED
          BY <3>1, <4>3, <5>1, GotFacts, ZenonT(30) DEF Histories
      <4> QED
        BY <3>2, <4>1, <4>2, <4>3
    <3> QED
      BY <2>2, <3>3 DEF SInv
  <2> QED
    BY <2>1, <2>2
<1>9. CASE Next
  <2>1. CASE \E m \in msgs : Receive(m) \/ Lose(m)
    <3>1. PICK m \in msgs : Receive(m) \/ Lose(m)
      BY <2>1
    <3>2. CASE Lose(m)
      <4>1. m.src \in Node
        BY Now
      <4> QED
        BY <1>4, <3>2, <4>1
    <3> QED
      BY <1>7, <1>8, <3>1, <3>2 DEF Receive
  <2>2. CASE \E n \in Node : \/ SubscribeToGroup(n) \/ LeaveGroup(n) \/ Publish(n)
                            \/ HandleParentTimeout(n) \/ Appear(n) \/ Fail(n)
    BY <1>4, <1>5, <2>2
  <2>3. CASE \E n, x \in Node : HandleChildTimeout(n, x) \/ Learn(n, x) \/ Forget(n, x)
    BY <1>4, <1>6, <2>3
  <2> QED
    BY <1>9, <2>1, <2>2, <2>3 DEF Next
<1> QED
  BY <1>3, <1>9

LEMMA InitDelivers == Init => SInv
<1> SUFFICES ASSUME Init PROVE SInv
  OBVIOUS
<1>1. Types
  BY InitGood DEF IInv
<1>2. Histories /\ data.owed = {} /\ data.got = {} /\ ~data.twice /\ msgs = {}
  BY DEF Init, Histories, History
<1>3. \A n \in alive : known[n] = alive \ {n} /\ group[n] = NoGroup
  BY <1>1 DEF Init, Types
<1>4. \A n \in alive : NodeWhole(alive, group, n)
  BY <1>3 DEF NodeWhole, NoGroup
<1> QED
  BY <1>2, <1>3, <1>4 DEF SInv, Whole, Fresh, Delivery

\* What a node does not have while nothing is on its way, its parent does not have either; so
\* the first such node would be the root, which had it first.
LEMMA DeliveryFacts ==
    ASSUME IInv, SInv
    PROVE  DataReachesTree
<1> SUFFICES ASSUME data.steady, \A m \in msgs : m.type # "data"
             PROVE  data.owed \subseteq data.got /\ ~data.twice
  BY DEF DataReachesTree
<1>1. Whole /\ Delivery /\ Histories
  BY DEF SInv
<1>2. data.owed \subseteq Node \X Int /\ alive \subseteq Node /\ Node \subseteq Nat
  BY <1>1, Now, Natural DEF Histories, History, Types
<1>3. ASSUME NEW id \in Int
      PROVE  \A n \in Node : <<n, id>> \in data.owed => <<n, id>> \in data.got
  <2> DEFINE missing == {n \in Node : <<n, id>> \in data.owed /\ <<n, id>> \notin data.got}
  <2>1. ASSUME missing # {} PROVE FALSE
    <3>1. missing \in SUBSET Nat
      BY <1>2
    <3>2. PICK n \in missing : \A k \in missing : n <= k
      BY <2>1, <3>1, Least
    <3>3. OnTree(n, id) /\ ~FirstOf(alive, n) /\ <<group[n].parent, id>> \notin data.got
      BY <1>1, <3>2 DEF Delivery, OnItsWay
    <3>4. /\ group[n].parent \in alive /\ n \in group[group[n].parent].children
          /\ <<group[n].parent, id>> \in data.owed
      BY <3>3 DEF OnTree, Holds
    <3>5. group[n].parent \in missing /\ group[n].parent < n
      BY <1>1, <1>2, <3>3, <3>4 DEF Whole, NodeWhole
    <3>6. n \in Nat /\ group[n].parent \in Nat /\ n <= group[n].parent
      BY <1>2, <3>2, <3>5
    <3> QED
      BY <3>5, <3>6
  <2> QED
    BY <2>1
<1> QED
  BY <1>1, <1>2, <1>3 DEF Delivery

\* Data published on a whole tree reaches each of its nodes, and reaches it once, for every
\* number of nodes, publications and joins meanwhile (deliverALMDataToGroup()).
THEOREM DataReachesTheTree == Spec => []DataReachesTree
<1>1. Spec => []SInv
  BY InitDelivers, StepDelivers, Invariance, PTL DEF Spec
<1> QED
  BY <1>1, DeliveryFacts, Invariance, PTL
=================================================================================
