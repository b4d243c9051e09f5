----------------------------- MODULE PastryProofs -----------------------------
(***************************************************************************)
(* A Pastry node becomes ready with the leaf set of the last hop of its    *)
(* join message, but for states of longer ways of a message that is routed *)
(* again and of earlier attempts, and never waits for what does not come.  *)
(* Its leaf set holds the closest nodes heard of, in order and without     *)
(* gaps, and answers who is responsible for a key as all nodes together    *)
(* would.  All this holds for any ring and any even number of leaves,      *)
(* whatever states other nodes send, in whatever order, and whatever of    *)
(* them is lost, late or repeated.                                         *)
(***************************************************************************)
EXTENDS Pastry, SequenceTheorems, FiniteSetTheorems, WellFoundedInduction, TLAPS

(***************************************************************************)
(* Numbers and sequences                                                   *)
(***************************************************************************)
\* Every set of natural numbers has a least one.
LEMMA Least ==
    ASSUME NEW S \in SUBSET Nat, S # {}
    PROVE  Min(S) \in S /\ \A y \in S : Min(S) <= y
<1> DEFINE R == OpToRel(<, Nat)
<1>1. IsWellFoundedOn(R, Nat)
  BY NatLessThanWellFounded
<1>2. \A x, y \in Nat : x < y => <<x, y>> \in R
  BY DEF OpToRel
<1> HIDE DEF R
<1>3. PICK x \in S : \A y \in S : ~ (<<y, x>> \in R)
  BY <1>1, WFMin
<1>4. \A y \in S : ~ (y < x)
  BY <1>2, <1>3
<1>5. x \in Nat /\ \A y \in S : y \in Nat
  BY <1>3
<1>6. \A y \in S : x <= y
  BY <1>4, <1>5
<1> QED
  BY <1>3, <1>6 DEF Min

LEMMA Inserted ==
    ASSUME NEW T, NEW s \in Seq(T), NEW i \in 1 .. Len(s) + 1, NEW e \in T
    PROVE  /\ InsertAt(s, i, e) \in Seq(T) /\ Len(s) \in Nat /\ Len(InsertAt(s, i, e)) = Len(s) + 1
           /\ \A j \in 1 .. Len(s) + 1 :
                 InsertAt(s, i, e)[j] = IF j < i THEN s[j] ELSE IF j = i THEN e ELSE s[j - 1]
<1> DEFINE a == SubSeq(s, 1, i - 1)
           b == SubSeq(s, i, Len(s))
           c == a \o <<e>>
<1>1. Len(s) \in Nat /\ i \in Int /\ i - 1 \in Int /\ Len(s) \in Int
  BY LenProperties
<1>2. \A j \in 1 .. Len(s) : s[j] \in T
  BY ElementOfSeq
<1>3. /\ a \in Seq(T) /\ Len(a) = i - 1
      /\ \A j \in 1 .. i - 1 : a[j] = s[j]
  <2>1. \A j \in 1 .. i - 1 : s[j] \in T
    BY <1>1, <1>2
  <2>2. /\ a \in Seq(T) /\ Len(a) = IF 1 <= i - 1 THEN i - 1 - 1 + 1 ELSE 0
        /\ \A j \in 1 .. i - 1 - 1 + 1 : a[j] = s[1 + j - 1]
    BY <1>1, <2>1, SubSeqProperties
  <2> QED BY <1>1, <2>2
<1>4. /\ b \in Seq(T) /\ Len(b) = Len(s) - i + 1
      /\ \A j \in 1 .. Len(s) - i + 1 : b[j] = s[i + j - 1]
  <2>1. \A j \in i .. Len(s) : s[j] \in T
    BY <1>1, <1>2
  <2>2. /\ b \in Seq(T) /\ Len(b) = IF i <= Len(s) THEN Len(s) - i + 1 ELSE 0
        /\ \A j \in 1 .. Len(s) - i + 1 : b[j] = s[i + j - 1]
    BY <1>1, <2>1, SubSeqProperties
  <2> QED BY <1>1, <2>2
<1> HIDE DEF a, b
<1>5. <<e>> \in Seq(T) /\ Len(<<e>>) = 1 /\ <<e>>[1] = e
  OBVIOUS
<1>6. /\ c \in Seq(T) /\ Len(c) = i
      /\ \A j \in 1 .. i : c[j] = IF j <= i - 1 THEN s[j] ELSE e
  <2>1. /\ c \in Seq(T) /\ Len(c) = Len(a) + Len(<<e>>)
        /\ \A j \in 1 .. Len(a) + Len(<<e>>) : c[j] = IF j <= Len(a) THEN a[j] ELSE <<e>>[j - Len(a)]
    BY <1>3, <1>5, ConcatProperties
  <2>2. Len(a) + Len(<<e>>) = i
    BY <1>1, <1>3, <1>5
  <2>3. ASSUME NEW j \in 1 .. i
        PROVE  c[j] = IF j <= i - 1 THEN s[j] ELSE e
    <3>1. CASE j <= i - 1
      BY <1>1, <1>3, <2>1, <2>2, <3>1
    <3>2. CASE ~ (j <= i - 1)
      <4>1. j - Len(a) = 1
        BY <1>1, <1>3, <3>2
      <4> QED BY <1>3, <1>5, <2>1, <2>2, <3>2, <4>1
    <3> QED BY <3>1, <3>2
  <2> QED BY <2>1, <2>2, <2>3
<1> HIDE DEF c
<1>7. /\ c \o b \in Seq(T) /\ Len(c \o b) = Len(s) + 1
      /\ \A j \in 1 .. Len(s) + 1 : (c \o b)[j] = IF j <= i THEN c[j] ELSE b[j - i]
  <2>1. /\ c \o b \in Seq(T) /\ Len(c \o b) = Len(c) + Len(b)
        /\ \A j \in 1 .. Len(c) + Len(b) : (c \o b)[j] = IF j <= Len(c) THEN c[j] ELSE b[j - Len(c)]
    BY <1>4, <1>6, ConcatProperties
  <2>2. Len(c) + Len(b) = Len(s) + 1
    BY <1>1, <1>4, <1>6
  <2> QED BY <1>6, <2>1, <2>2
<1>8. InsertAt(s, i, e) = c \o b
  BY DEF InsertAt, a, b, c
<1>9. ASSUME NEW j \in 1 .. Len(s) + 1
      PROVE  (c \o b)[j] = IF j < i THEN s[j] ELSE IF j = i THEN e ELSE s[j - 1]
  <2>1. CASE j <= i
    <3>1. j \in 1 .. i /\ (j <= i - 1 <=> j < i) /\ (~(j < i) => j = i)
      BY <1>1, <2>1
    <3> QED BY <1>6, <1>7, <2>1, <3>1
  <2>2. CASE ~ (j <= i)
    <3>1. j - i \in 1 .. Len(s) - i + 1 /\ ~ (j < i) /\ j # i /\ i + (j - i) - 1 = j - 1
      BY <1>1, <2>2
    <3> QED BY <1>4, <1>7, <2>2, <3>1
  <2> QED BY <2>1, <2>2
<1> QED
  BY <1>1, <1>7, <1>8, <1>9

(***************************************************************************)
(* What this node keeps                                                    *)
(***************************************************************************)
ReceivedType == [hop : Nat, way : Nat, kind : {"last", "hop"}, nodes : Seq(Node)]

Fields == {"state", "leaves", "wasFull", "awaiting", "repairs", "joinCall", "ways", "received", "hops",
           "readyWait", "pos", "cached", "pending", "dead", "queue", "reported", "attempt", "heard",
           "valid", "basis"}

IsNode(s) ==
    /\ s = [f \in Fields |-> s[f]]
    /\ s.state \in {"INIT", "JOIN", "READY", "CRASH"}
    /\ s.ways \in Seq(Nat \ {0}) /\ s.hops \in Nat /\ s.pos \in Nat /\ s.attempt \in {0, 1, 2}
    /\ s.received \in Seq(ReceivedType) /\ s.queue \in Seq(SUBSET Node)

LastIsHighest(received) == \A i \in 1 .. Len(received) : received[i].hop <= received[Len(received)].hop

\* A state of a hop is of an earlier attempt, or of a hop before the last on its way.
OnWay(s, hop, way) == way = 0 \/ (way \in DOMAIN s.ways /\ hop < s.ways[way])

\* The states received while the node joins are sorted; once the hop count of the last hop is
\* known, its state is among them.
ReceivedOK(s) ==
    /\ LastIsHighest(s.received)
    /\ \A i \in 1 .. Len(s.received) : s.received[i].kind = "hop" => OnWay(s, s.received[i].hop, s.received[i].way)
    /\ s.joinCall => s.hops = 0
    /\ s.hops # 0 => \E i \in 1 .. Len(s.received) : s.received[i].hop = s.hops

\* The node, but for the state that is being processed.
Basis(s) ==
    /\ IsNode(s)
    /\ s.state = "JOIN" => ReceivedOK(s) /\ s.queue = << >> /\ s.repairs = {} /\ s.basis = NoBasis
    /\ s.state # "JOIN" => ~s.joinCall
    /\ s.basis.kind = "hop" =>
           s.basis.hop \in Nat /\ s.basis.hop >= s.hops /\ OnWay(s, s.basis.hop, s.basis.way)

\* The node waits for what comes.
Stuck(s) ==
    \/ s.state = "JOIN" /\ ~(s.joinCall \/ s.readyWait \/ s.cached)
    \/ s.cached /\ s.pending = {}
    \/ s.queue # << >> /\ ~s.cached

NodeOK(s) ==
    /\ Basis(s) /\ ~Stuck(s)
    /\ s.pending # {} => s.cached
    /\ s.state = "JOIN" /\ s.cached => s.hops # 0

\* It is the same attempt to join, or another one, with a first way.
Follows(s, t) ==
    t.state = "JOIN" =>
        IF t.attempt = s.attempt THEN s.state = "JOIN" /\ t.ways = s.ways ELSE 1 \in DOMAIN t.ways

LEMMA FreshIsNode == IsNode(Fresh)
<1>1. DOMAIN Fresh = Fields
  BY DEF Fresh, Fields
<1>2. Fresh = [f \in Fields |-> Fresh[f]]
  BY <1>1 DEF Fresh
<1>3. << >> \in Seq(ReceivedType) /\ << >> \in Seq(SUBSET Node) /\ << >> \in Seq(Nat \ {0})
  BY EmptySeq
<1>4. /\ Fresh.state = "INIT" /\ Fresh.ways = << >> /\ Fresh.hops = 0 /\ Fresh.pos = 0 /\ Fresh.attempt = 0
      /\ Fresh.received = << >> /\ Fresh.queue = << >>
  BY DEF Fresh
<1> DEFINE s == Fresh
<1>5. s = [f \in Fields |-> s[f]] /\ s.received \in Seq(ReceivedType) /\ s.queue \in Seq(SUBSET Node)
  BY <1>2, <1>3, <1>4
<1>6. s.state \in {"INIT", "JOIN", "READY", "CRASH"} /\ s.ways \in Seq(Nat \ {0}) /\ s.hops \in Nat
      /\ s.pos \in Nat /\ s.attempt \in {0, 1, 2}
  BY <1>3, <1>4
<1> HIDE DEF s
<1> QED
  BY <1>5, <1>6 DEF IsNode, s

LEMMA JoinOverlayOK ==
    ASSUME NEW s, IsNode(s), NEW boot, NEW path \in Nat \ {0}
    PROVE  /\ NodeOK(JoinOverlay(s, boot, path))
           /\ Follows(s, JoinOverlay(s, boot, path))
           /\ boot = NoNode => JoinOverlay(s, boot, path).state = "READY"
           /\ boot # NoNode => JoinOverlay(s, boot, path).state = "JOIN" /\ JoinOverlay(s, boot, path).ways = <<path>>
<1> DEFINE again == IF s.attempt = 1 THEN 2 ELSE 1
<1>1. again \in {1, 2} /\ again # s.attempt /\ s.attempt \in {0, 1, 2}
  BY DEF IsNode, Fields
<1>2. /\ << >> \in Seq(ReceivedType) /\ << >> \in Seq(SUBSET Node) /\ Len(<< >>) = 0
      /\ <<path>> \in Seq(Nat \ {0})
  BY EmptySeq
<1>3. \A i \in 1 .. 0 : FALSE
  OBVIOUS
<1> DEFINE t == JoinOverlay(s, boot, path)
<1>4. CASE boot = NoNode
  <2>1. /\ t = [t EXCEPT !.state = "READY"] /\ t.state = "READY" /\ t.attempt = s.attempt
        /\ ~t.joinCall /\ ~t.cached /\ t.pending = {} /\ t.queue = << >> /\ t.basis = NoBasis
    BY <1>4, ZenonT(30) DEF JoinOverlay, Fresh
  <2>2. IsNode(t)
    BY <1>1, <1>4, FreshIsNode DEF JoinOverlay, IsNode, Fields
  <2> HIDE DEF t
  <2> QED BY <1>4, <2>1, <2>2 DEF t, NodeOK, Basis, Stuck, Follows, NoBasis
<1>5. CASE boot # NoNode
  <2>1. /\ t.ways = <<path>> /\ t.state = "JOIN" /\ t.attempt = again /\ t.joinCall /\ t.hops = 0 /\ t.received = << >>
        /\ ~t.cached /\ t.pending = {} /\ t.queue = << >> /\ t.basis = NoBasis /\ t.repairs = {}
    BY <1>5 DEF JoinOverlay, Fresh
  <2>2. IsNode(t)
    <3> DEFINE ways == <<path>>
    <3>1. t = [Fresh EXCEPT !.state = "JOIN", !.joinCall = TRUE, !.ways = ways, !.attempt = again]
      BY <1>5 DEF JoinOverlay
    <3>2. ways \in Seq(Nat \ {0})
      BY <1>2
    <3> HIDE DEF ways, t, again
    <3> QED BY <1>1, <3>1, <3>2, FreshIsNode DEF IsNode, Fields
  <2> HIDE DEF t
  <2>3. ReceivedOK(t)
    BY <1>2, <1>3, <2>1 DEF ReceivedOK, LastIsHighest
  <2> QED BY <1>1, <1>5, <2>1, <2>2, <2>3 DEF t, NodeOK, Basis, Stuck, Follows, NoBasis
<1> QED
  BY <1>4, <1>5

LEMMA MergeFields ==
    ASSUME NEW s, IsNode(s), NEW nodes, NEW dead
    PROVE  LET t == MergeState(s, nodes, dead)
           IN  /\ IsNode(t)
               /\ t.state = s.state /\ t.ways = s.ways /\ t.received = s.received /\ t.hops = s.hops
               /\ t.joinCall = s.joinCall /\ t.readyWait = s.readyWait /\ t.cached = s.cached
               /\ t.pending = s.pending /\ t.queue = s.queue /\ t.repairs = s.repairs
               /\ t.attempt = s.attempt /\ t.basis = s.basis /\ t.hops = s.hops /\ t.ways = s.ways /\ t.pos = s.pos
<1> DEFINE t(a, b, c, d) == [s EXCEPT !.leaves = a, !.reported = b, !.heard = c, !.valid = d]
<1>1. \E a, b, c, d : MergeState(s, nodes, dead) = t(a, b, c, d)
  BY DEF MergeState
<1>2. ASSUME NEW a, NEW b, NEW c, NEW d
      PROVE  /\ IsNode(t(a, b, c, d))
             /\ t(a, b, c, d).state = s.state /\ t(a, b, c, d).hops = s.hops
             /\ t(a, b, c, d).received = s.received /\ t(a, b, c, d).hops = s.hops
             /\ t(a, b, c, d).joinCall = s.joinCall /\ t(a, b, c, d).readyWait = s.readyWait
             /\ t(a, b, c, d).cached = s.cached /\ t(a, b, c, d).pending = s.pending
             /\ t(a, b, c, d).queue = s.queue /\ t(a, b, c, d).repairs = s.repairs
             /\ t(a, b, c, d).attempt = s.attempt /\ t(a, b, c, d).basis = s.basis /\ t(a, b, c, d).ways = s.ways
             /\ t(a, b, c, d).pos = s.pos
  BY DEF IsNode, Fields
<1> HIDE DEF t
<1> QED
  BY <1>1, <1>2

LEMMA MergeOK ==
    ASSUME NEW s, NodeOK(s), NEW nodes, NEW dead
    PROVE  NodeOK(MergeState(s, nodes, dead)) /\ MergeState(s, nodes, dead).state = s.state
<1> DEFINE t == MergeState(s, nodes, dead)
<1>1. /\ IsNode(t)
      /\ t.state = s.state /\ t.ways = s.ways /\ t.received = s.received /\ t.hops = s.hops
      /\ t.joinCall = s.joinCall /\ t.readyWait = s.readyWait /\ t.cached = s.cached
      /\ t.pending = s.pending /\ t.queue = s.queue /\ t.repairs = s.repairs
      /\ t.attempt = s.attempt /\ t.basis = s.basis
  BY MergeFields DEF NodeOK, Basis
<1> HIDE DEF t
<1> QED
  BY <1>1 DEF t, NodeOK, Basis, Stuck, ReceivedOK, OnWay

(***************************************************************************)
(* Joining                                                                 *)
(***************************************************************************)
\* The last of the states received is that of the last hop, or of a hop farther along than that.
LEMMA LastIsHighestHop ==
    ASSUME NEW s, IsNode(s), ReceivedOK(s), s.hops # 0
    PROVE  LET last == Last(s.received)
           IN  last.hop \in Nat /\ last.hop >= s.hops /\ (last.kind = "hop" => OnWay(s, last.hop, last.way))
<1>1. s.received \in Seq(ReceivedType) /\ Len(s.received) \in Nat
  BY LenProperties DEF IsNode, Fields
<1>2. PICK i \in 1 .. Len(s.received) : s.received[i].hop = s.hops
  BY DEF ReceivedOK
<1>3. Len(s.received) \in 1 .. Len(s.received)
  BY <1>1, <1>2
<1>4. ASSUME NEW k \in 1 .. Len(s.received)
      PROVE  s.received[k].hop \in Nat
  <2>1. s.received[k] \in ReceivedType
    BY <1>1, ElementOfSeq
  <2> QED BY <2>1 DEF ReceivedType
<1>5. s.received[Len(s.received)].hop >= s.hops
  BY <1>2, <1>3, <1>4 DEF ReceivedOK, LastIsHighest
<1> QED
  BY <1>3, <1>4, <1>5 DEF ReceivedOK, Last

LEMMA BuildStateOK ==
    ASSUME NEW s, Basis(s), s.state = "JOIN", s.hops # 0, NEW boot, NEW path \in Nat \ {0}
    PROVE  NodeOK(BuildState(s, boot, path)) /\ Follows(s, BuildState(s, boot, path))
<1> DEFINE last == Last(s.received)
           b == [hop |-> last.hop, way |-> last.way, kind |-> last.kind]
           t == MergeState(s, last.nodes, s.dead)
           r == [t EXCEPT !.cached = FALSE, !.pending = {}, !.dead = {}, !.basis = b]
           u == Ready(r)
<1>1. IsNode(s) /\ last.hop \in Nat /\ last.hop >= s.hops /\ (last.kind = "hop" => OnWay(s, last.hop, last.way))
  BY LastIsHighestHop DEF Basis
<1>2. CASE BuildState(s, boot, path) = JoinOverlay(s, boot, path)
  BY <1>1, <1>2, JoinOverlayOK
<1>3. CASE BuildState(s, boot, path) = u
  <2>1. /\ IsNode(t) /\ t.attempt = s.attempt /\ t.queue = s.queue /\ t.joinCall = s.joinCall /\ t.hops = s.hops
        /\ t.ways = s.ways
    BY <1>1, MergeFields
  <2>2. b.hop = last.hop /\ b.way = last.way /\ b.kind = last.kind
    OBVIOUS
  <2> HIDE DEF t, last, b
  <2>3. << >> \in Seq(ReceivedType)
    BY EmptySeq
  <2>4. /\ IsNode(u) /\ u.state = "READY" /\ u.attempt = t.attempt /\ u.queue = t.queue /\ u.joinCall = t.joinCall
        /\ ~u.cached /\ u.pending = {} /\ u.basis = b /\ u.hops = t.hops /\ u.ways = t.ways
    BY <2>1, <2>3, ZenonT(30) DEF Ready, IsNode, Fields
  <2>5. ~s.joinCall /\ s.queue = << >>
    BY DEF Basis, ReceivedOK
  <2> HIDE DEF u
  <2>6. NodeOK(u) /\ Follows(s, u)
    BY <1>1, <2>1, <2>2, <2>4, <2>5 DEF NodeOK, Basis, Stuck, Follows, OnWay
  <2> QED BY <1>3, <2>6
<1> QED
  BY <1>2, <1>3 DEF BuildState

\* The states received wait for pings, one after the other.
LEMMA ProcessReceivedOK ==
    ASSUME NEW s, Basis(s), s.state = "JOIN", s.hops # 0, NEW from \in Nat \ {0}, NEW known,
           NEW boot, NEW path \in Nat \ {0}
    PROVE  /\ NodeOK(ProcessReceived(s, from, known, boot, path))
           /\ Follows(s, ProcessReceived(s, from, known, boot, path))
<1> DEFINE nodes(i) == Range(s.received[i].nodes)
           waits == {i \in from .. Len(s.received) : nodes(i) \ known # {}}
           j == Min(waits)
           r == ProcessReceived(s, from, known, boot, path)
<1>1. IsNode(s) /\ Len(s.received) \in Nat
  BY LenProperties DEF Basis, IsNode, Fields
<1>2. CASE waits = {}
  <2> DEFINE d == IF from <= Len(s.received) THEN known \ alive ELSE s.dead
             t == [s EXCEPT !.dead = d]
  <2>1. r = BuildState(t, boot, path)
    BY <1>2 DEF ProcessReceived
  <2> HIDE DEF d
  <2>2. /\ IsNode(t) /\ t.state = s.state /\ t.hops = s.hops /\ t.received = s.received /\ t.ways = s.ways
        /\ t.joinCall = s.joinCall /\ t.queue = s.queue /\ t.repairs = s.repairs /\ t.basis = s.basis
        /\ t.attempt = s.attempt
    BY <1>1 DEF IsNode, Fields
  <2> HIDE DEF t
  <2>3. Basis(t)
    BY <2>2 DEF Basis, ReceivedOK, OnWay
  <2>4. NodeOK(BuildState(t, boot, path)) /\ Follows(t, BuildState(t, boot, path))
    BY <2>2, <2>3, BuildStateOK
  <2> QED BY <2>1, <2>2, <2>4 DEF r, Follows
<1>3. CASE waits # {}
  <2>1. waits \in SUBSET Nat
    BY <1>1
  <2>2. j \in waits
    BY <1>3, <2>1, Least
  <2> DEFINE rest == nodes(j) \ known
             d == (known \cap nodes(j)) \ alive
  <2>3. rest # {} /\ j \in Nat
    BY <2>1, <2>2
  <2>4. r = [s EXCEPT !.pos = j, !.cached = TRUE, !.pending = rest, !.dead = d]
    BY <1>3 DEF ProcessReceived
  <2> HIDE DEF r, j, waits, rest, d
  <2>5. /\ IsNode(r) /\ r.state = s.state /\ r.hops = s.hops /\ r.received = s.received /\ r.ways = s.ways
        /\ r.joinCall = s.joinCall /\ r.queue = s.queue /\ r.repairs = s.repairs /\ r.basis = s.basis
        /\ r.attempt = s.attempt /\ r.cached /\ r.pending = rest
    BY <1>1, <2>3, <2>4 DEF IsNode, Fields
  <2>6. NodeOK(r) /\ Follows(s, r)
    BY <2>3, <2>5 DEF NodeOK, Basis, ReceivedOK, Stuck, Follows, OnWay
  <2> QED BY <2>6 DEF r
<1> QED
  BY <1>2, <1>3

LEMMA ProcessQueueOK ==
    ASSUME NEW s, Basis(s), s.state # "JOIN", NEW queue \in Seq(SUBSET Node), NEW known
    PROVE  NodeOK(ProcessQueue(s, queue, known)) /\ ProcessQueue(s, queue, known).state = s.state
<1> DEFINE waits == {i \in DOMAIN queue : queue[i] \ known # {}}
           j == Min(waits)
           r == ProcessQueue(s, queue, known)
<1>1. IsNode(s) /\ Len(queue) \in Nat /\ DOMAIN queue = 1 .. Len(queue) /\ << >> \in Seq(SUBSET Node)
  BY LenProperties, EmptySeq DEF Basis
<1>2. CASE waits = {}
  <2>1. r = [s EXCEPT !.cached = FALSE, !.pending = {}, !.queue = << >>]
    BY <1>2 DEF ProcessQueue
  <2> HIDE DEF r
  <2>2. /\ IsNode(r) /\ r.state = s.state /\ r.joinCall = s.joinCall /\ r.basis = s.basis
        /\ r.hops = s.hops /\ r.ways = s.ways
        /\ r.queue = << >> /\ ~r.cached /\ r.pending = {}
    BY <1>1, <2>1 DEF IsNode, Fields
  <2>3. NodeOK(r)
    BY <2>2 DEF NodeOK, Basis, Stuck, OnWay
  <2> QED BY <2>2, <2>3 DEF r
<1>3. CASE waits # {}
  <2>1. waits \in SUBSET Nat
    BY <1>1
  <2>2. j \in waits
    BY <1>3, <2>1, Least
  <2> DEFINE rest == queue[j] \ known
             q == SubSeq(queue, j + 1, Len(queue))
  <2>3. rest # {} /\ j \in 1 .. Len(queue)
    BY <1>1, <2>2
  <2>4. q \in Seq(SUBSET Node)
    <3>1. \A i \in j + 1 .. Len(queue) : queue[i] \in SUBSET Node
      <4>1. \A i \in j + 1 .. Len(queue) : i \in 1 .. Len(queue)
        BY <1>1, <2>3
      <4> QED BY <4>1, ElementOfSeq
    <3>2. j + 1 \in Int /\ Len(queue) \in Int
      BY <1>1, <2>3
    <3> QED BY <3>1, <3>2, SubSeqProperties
  <2>5. r = [s EXCEPT !.cached = TRUE, !.pending = rest, !.queue = q]
    BY <1>3 DEF ProcessQueue
  <2> HIDE DEF r, j, waits, rest, q
  <2>6. /\ IsNode(r) /\ r.state = s.state /\ r.joinCall = s.joinCall /\ r.basis = s.basis
        /\ r.hops = s.hops /\ r.ways = s.ways
        /\ r.queue = q /\ r.cached /\ r.pending = rest
    BY <1>1, <2>4, <2>5 DEF IsNode, Fields
  <2>7. NodeOK(r)
    BY <2>3, <2>6 DEF NodeOK, Basis, Stuck, OnWay
  <2> QED BY <2>6, <2>7 DEF r
<1> QED
  BY <1>2, <1>3

LEMMA CheckProxCacheOK ==
    ASSUME NEW s, Basis(s), s.cached, s.state = "JOIN" => s.hops # 0, NEW known,
           NEW boot, NEW path \in Nat \ {0}
    PROVE  NodeOK(CheckProxCache(s, known, boot, path)) /\ Follows(s, CheckProxCache(s, known, boot, path))
<1>1. s.pos + 1 \in Nat \ {0} /\ s.queue \in Seq(SUBSET Node) /\ s.attempt = s.attempt
  BY DEF Basis, IsNode, Fields
<1>2. CASE s.pending # {}
  <2>1. CheckProxCache(s, known, boot, path) = s
    BY <1>2 DEF CheckProxCache
  <2> QED BY <1>2, <2>1 DEF NodeOK, Stuck, Follows
<1>3. CASE s.pending = {} /\ s.state = "JOIN"
  <2>1. CheckProxCache(s, known, boot, path) = ProcessReceived(s, s.pos + 1, known, boot, path)
    BY <1>3 DEF CheckProxCache
  <2> QED BY <1>1, <1>3, <2>1, ProcessReceivedOK
<1>4. CASE s.pending = {} /\ s.state # "JOIN"
  <2>1. CheckProxCache(s, known, boot, path) = ProcessQueue(s, s.queue, known)
    BY <1>4 DEF CheckProxCache
  <2>2. NodeOK(ProcessQueue(s, s.queue, known)) /\ ProcessQueue(s, s.queue, known).state = s.state
    BY <1>1, <1>4, ProcessQueueOK
  <2> QED BY <1>4, <2>1, <2>2 DEF Follows
<1> QED
  BY <1>2, <1>3, <1>4


\* A state is put between others.
Extends(received, m, new) ==
    /\ new \in Seq(ReceivedType) /\ Len(received) \in Nat /\ Len(new) = Len(received) + 1
    /\ LastIsHighest(new)
    /\ \A i \in 1 .. Len(new) : new[i] = m \/ \E j \in 1 .. Len(received) : new[i] = received[j]
    /\ \E i \in 1 .. Len(new) : new[i] = m
    /\ \A j \in 1 .. Len(received) : \E i \in 1 .. Len(new) : new[i] = received[j]

\* A state that arrives does not come after one of a later hop: the last one stays the last.
LEMMA AddedOK ==
    ASSUME NEW received \in Seq(ReceivedType), NEW m \in ReceivedType, LastIsHighest(received)
    PROVE  Extends(received, m, Added(received, m))
<1> DEFINE n == Len(received)
           earlier == {i \in 1 .. n : received[i].hop <= m.hop}
           at == Cardinality(earlier) + 1
           new == Added(received, m)
<1>1. n \in Nat /\ DOMAIN received = 1 .. n /\ m.hop \in Nat /\ \A i \in 1 .. n : received[i].hop \in Nat
  <2>1. \A i \in 1 .. n : received[i] \in ReceivedType
    BY ElementOfSeq
  <2> QED BY <2>1, LenProperties DEF ReceivedType
<1>2. IsFiniteSet(1 .. n) /\ Cardinality(1 .. n) = n
  <2>1. n \in Int /\ 1 \in Int /\ (1 <= n \/ n = 0)
    BY <1>1
  <2> HIDE DEF n
  <2> QED BY <1>1, <2>1, FS_Interval
<1>3. /\ IsFiniteSet(earlier) /\ Cardinality(earlier) \in Nat /\ Cardinality(earlier) <= n
      /\ Cardinality(earlier) = n => earlier = 1 .. n
  BY <1>2, FS_Subset, FS_CardinalityType
<1>4. at \in 1 .. n + 1
  <2> HIDE DEF earlier
  <2> QED BY <1>1, <1>3
<1>5. new = InsertAt(received, at, m)
  BY <1>1 DEF Added
<1>6. at = n + 1 => \A i \in 1 .. n : received[i].hop <= m.hop
  <2>1. at = n + 1 => earlier = 1 .. n
    <3> HIDE DEF earlier
    <3> QED BY <1>1, <1>3
  <2> QED BY <2>1
<1>7. at # n + 1 => n \in 1 .. n /\ m.hop <= received[n].hop
  <2>1. SUFFICES ASSUME at # n + 1, ~(n \in 1 .. n /\ m.hop <= received[n].hop)
                 PROVE  FALSE
    OBVIOUS
  <2>2. n \in 1 .. n
    BY <1>1, <1>4, <2>1
  <2>3. received[n].hop <= m.hop
    BY <1>1, <2>1, <2>2
  <2>4. \A i \in 1 .. n : received[i].hop <= m.hop
    BY <1>1, <2>2, <2>3 DEF LastIsHighest
  <2>5. earlier = 1 .. n
    BY <2>4
  <2> QED BY <1>1, <1>2, <2>1, <2>5
<1> HIDE DEF at, new
<1>8. /\ new \in Seq(ReceivedType) /\ Len(new) = n + 1
      /\ \A j \in 1 .. n + 1 :
            new[j] = IF j < at THEN received[j] ELSE IF j = at THEN m ELSE received[j - 1]
  BY <1>4, <1>5, Inserted, SMTT(30)
<1> HIDE DEF n
<1>9. new[n + 1] = IF at = n + 1 THEN m ELSE received[n]
  <2>1. n + 1 \in 1 .. n + 1 /\ n + 1 - 1 = n /\ ~(n + 1 < at)
    BY <1>1, <1>4
  <2>2. CASE at = n + 1
    BY <1>8, <2>1, <2>2
  <2>3. CASE at # n + 1
    <3>1. n + 1 # at
      BY <2>3
    <3> DEFINE k == n + 1
    <3>2. k \in 1 .. n + 1 /\ ~(k < at) /\ k # at /\ k - 1 = n
      BY <1>1, <2>1, <3>1
    <3> HIDE DEF k
    <3>3. new[k] = received[k - 1]
      BY <1>8, <3>2
    <3> QED BY <2>3, <3>2, <3>3 DEF k
  <2> QED BY <2>2, <2>3
<1>10. ASSUME NEW i \in 1 .. n + 1
       PROVE  new[i] = m \/ \E j \in 1 .. n : new[i] = received[j]
  <2>1. CASE i < at
    BY <1>1, <1>4, <1>8, <2>1
  <2>2. CASE i = at
    BY <1>1, <1>4, <1>8, <2>2
  <2>3. CASE i > at
    <3>1. i - 1 \in 1 .. n /\ ~(i < at) /\ i # at
      BY <1>1, <1>4, <2>3
    <3> QED BY <1>8, <3>1
  <2> QED BY <1>1, <1>4, <2>1, <2>2, <2>3
<1>11. ASSUME NEW j \in 1 .. n
       PROVE  \E i \in 1 .. n + 1 : new[i] = received[j]
  <2>1. CASE j < at
    BY <1>1, <1>4, <1>8, <2>1
  <2>2. CASE ~(j < at)
    <3>1. j + 1 \in 1 .. n + 1 /\ ~(j + 1 < at) /\ j + 1 # at /\ j + 1 - 1 = j
      BY <1>1, <1>4, <2>2
    <3>2. new[j + 1] = received[j]
      BY <1>8, <3>1
    <3> QED BY <3>1, <3>2
  <2> QED BY <2>1, <2>2
<1>12. new[at] = m
  BY <1>1, <1>4, <1>8
<1>13. ASSUME NEW i \in 1 .. n + 1
       PROVE  new[i].hop <= new[n + 1].hop
  <2>1. CASE at = n + 1
    BY <1>1, <1>6, <1>9, <1>10, <2>1
  <2>2. CASE at # n + 1
    <3>1. \A j \in 1 .. n : received[j].hop <= received[n].hop
      BY DEF n, LastIsHighest
    <3> QED BY <1>7, <1>9, <1>10, <2>2, <3>1
  <2> QED BY <2>1, <2>2
<1> QED
  BY <1>1, <1>4, <1>8, <1>10, <1>11, <1>12, <1>13 DEF n, new, Extends, LastIsHighest

\* A state of a way of the join message, s.joinCall being over if it is the last one.
LEMMA ReceiveJoinOK ==
    ASSUME NEW s, Basis(s), s.state = "JOIN", NEW m \in ReceivedType, NEW known,
           NEW boot, NEW path \in Nat \ {0},
           s.pending # {} => s.cached, s.cached => s.hops # 0 /\ s.pending # {},
           m.kind = "hop" => OnWay(s, m.hop, m.way),
           m.kind = "last" => m.hop # 0 /\ s.hops = 0 /\ ~s.joinCall,
           m.kind # "last" => ~Stuck(s)
    PROVE  NodeOK(ReceiveJoin(s, m, known, boot, path)) /\ Follows(s, ReceiveJoin(s, m, known, boot, path))
<1> DEFINE count == Len(s.received) + 1
           hops  == IF m.kind = "last" THEN m.hop ELSE s.hops
           new   == Added(s.received, m)
           wait  == s.readyWait \/ (m.kind = "last" /\ StillWaits(m.hop, count))
           t     == [s EXCEPT !.received = new, !.hops = hops, !.readyWait = wait]
           u     == [t EXCEPT !.readyWait = FALSE]
           r     == ReceiveJoin(s, m, known, boot, path)
<1>1. /\ IsNode(s) /\ ReceivedOK(s) /\ s.received \in Seq(ReceivedType) /\ s.hops \in Nat
      /\ s.queue = << >> /\ s.repairs = {} /\ s.basis = NoBasis
  BY DEF Basis, IsNode
<1>2. m.hop \in Nat /\ m.kind \in {"last", "hop"}
  BY DEF ReceivedType
<1>3. /\ new \in Seq(ReceivedType) /\ Len(s.received) \in Nat /\ Len(new) = count
      /\ LastIsHighest(new)
      /\ \A i \in 1 .. Len(new) : new[i] = m \/ \E j \in 1 .. Len(s.received) : new[i] = s.received[j]
      /\ \E i \in 1 .. Len(new) : new[i] = m
      /\ \A j \in 1 .. Len(s.received) : \E i \in 1 .. Len(new) : new[i] = s.received[j]
  <2>1. s.received \in Seq(ReceivedType) /\ LastIsHighest(s.received)
    BY <1>1 DEF ReceivedOK
  <2>2. Extends(s.received, m, Added(s.received, m))
    BY <2>1, AddedOK
  <2> HIDE DEF new
  <2>3. Extends(s.received, m, new)
    BY <2>2 DEF new
  <2> QED BY <2>3 DEF Extends
<1>4. \/ s.hops # 0 /\ Len(s.received) = s.hops /\ r = s
      \/ r = JoinOverlay(s, boot, path)
      \/ hops # 0 /\ count = hops /\ r = ProcessReceived(u, 1, known, boot, path)
      \/ ~(hops # 0 /\ count > hops) /\ count # hops /\ r = t
  <2>1. count \in Nat /\ count # 0
    BY <1>3
  <2> QED BY <2>1 DEF ReceiveJoin
<1> HIDE DEF r, wait, hops, new
<1>5. hops \in Nat /\ count \in Nat
  BY <1>1, <1>2, <1>3 DEF hops
<1>6. /\ IsNode(t) /\ t.state = s.state /\ t.ways = s.ways /\ t.attempt = s.attempt
      /\ t.joinCall = s.joinCall /\ t.queue = s.queue /\ t.repairs = s.repairs /\ t.basis = s.basis
      /\ t.received = new /\ t.hops = hops /\ t.readyWait = wait /\ t.cached = s.cached
      /\ t.pending = s.pending
  BY <1>1, <1>3, <1>5 DEF IsNode, Fields
<1>7. ReceivedOK(t)
  <2>1. ASSUME NEW i \in 1 .. Len(new), new[i].kind = "hop"
        PROVE  OnWay(s, new[i].hop, new[i].way)
    BY <1>1, <1>3, <2>1, ZenonT(30) DEF ReceivedOK
  <2>2. s.joinCall => hops = 0
    BY <1>1 DEF ReceivedOK, hops
  <2>3. ASSUME hops # 0
        PROVE  \E i \in 1 .. Len(new) : new[i].hop = hops
    <3>1. CASE m.kind = "last"
      BY <1>3, <3>1 DEF hops
    <3>2. CASE m.kind # "last"
      <4>1. s.hops # 0 /\ hops = s.hops
        BY <2>3, <3>2 DEF hops
      <4>2. PICK j \in 1 .. Len(s.received) : s.received[j].hop = s.hops
        BY <1>1, <4>1 DEF ReceivedOK
      <4> QED BY <1>3, <4>1, <4>2, SMTT(30)
    <3> QED BY <3>1, <3>2
  <2> HIDE DEF t
  <2> QED BY <1>3, <1>6, <2>1, <2>2, <2>3 DEF ReceivedOK, OnWay
<1>8. Basis(t)
  <2> HIDE DEF t
  <2> QED BY <1>1, <1>6, <1>7 DEF Basis, OnWay, NoBasis
<1>9. CASE s.hops # 0 /\ Len(s.received) = s.hops /\ r = s
  <2>1. ~Stuck(s)
    BY <1>9
  <2> QED BY <1>9, <2>1 DEF r, NodeOK, Follows
<1>10. CASE r = JoinOverlay(s, boot, path)
  BY <1>1, <1>10, JoinOverlayOK DEF r
<1>11. CASE hops # 0 /\ count = hops /\ r = ProcessReceived(u, 1, known, boot, path)
  <2>1. /\ IsNode(u) /\ u.state = t.state /\ u.ways = t.ways /\ u.attempt = t.attempt
        /\ u.joinCall = t.joinCall /\ u.queue = t.queue /\ u.repairs = t.repairs /\ u.basis = t.basis
        /\ u.received = t.received /\ u.hops = t.hops
    <3> HIDE DEF t
    <3> QED BY <1>6 DEF IsNode, Fields
  <2> HIDE DEF t, u
  <2>2. Basis(u)
    BY <1>8, <2>1 DEF Basis, ReceivedOK, OnWay
  <2>3. NodeOK(ProcessReceived(u, 1, known, boot, path)) /\ Follows(u, ProcessReceived(u, 1, known, boot, path))
    BY <1>6, <1>11, <2>1, <2>2, ProcessReceivedOK
  <2> QED BY <1>6, <1>11, <2>1, <2>3 DEF r, Follows
<1>12. CASE ~(hops # 0 /\ count > hops) /\ count # hops /\ r = t
  <2>1. m.kind = "last" => wait
    <3>1. m.kind = "last" => hops = m.hop /\ hops # 0
      BY <1>1 DEF hops
    <3>2. m.kind = "last" => count < m.hop
      BY <1>3, <1>5, <1>12, <3>1
    <3> QED BY <3>2 DEF wait, StillWaits
  <2>2. m.kind # "last" => hops = s.hops /\ (wait <=> s.readyWait) /\ ~Stuck(s)
    BY DEF hops, wait
  <2> HIDE DEF t
  <2>3. ~Stuck(t)
    BY <1>1, <1>6, <2>1, <2>2 DEF Stuck
  <2>4. t.pending # {} => t.cached
    BY <1>6
  <2>5. t.cached => t.hops # 0
    BY <1>6, <2>2 DEF hops
  <2>6. NodeOK(t) /\ Follows(s, t)
    BY <1>6, <1>8, <2>3, <2>4, <2>5 DEF NodeOK, Follows
  <2> QED BY <1>12, <2>6 DEF r
<1> QED
  BY <1>4, <1>9, <1>10, <1>11, <1>12

(***************************************************************************)
(* Later states, repairs and failed nodes                                  *)
(***************************************************************************)
LEMMA ProcessOK ==
    ASSUME NEW s, NodeOK(s), s.state # "JOIN", NEW nodes \in Seq(Node), NEW known
    PROVE  NodeOK(Process(s, nodes, known)) /\ Process(s, nodes, known).state = s.state
<1>1. Range(nodes) \in SUBSET Node
  <2>1. \A i \in DOMAIN nodes : nodes[i] \in Node
    BY LenProperties, ElementOfSeq
  <2> QED BY <2>1 DEF Range
<1> DEFINE set == Range(nodes)
<1> HIDE DEF set
<1>2. CASE ~s.cached
  <2>1. <<set>> \in Seq(SUBSET Node)
    BY <1>1 DEF set
  <2>2. Process(s, nodes, known) = ProcessQueue(s, <<set>>, known)
    BY <1>2 DEF Process, set
  <2> QED BY <2>1, <2>2, ProcessQueueOK, ZenonT(30) DEF NodeOK
<1>3. CASE s.cached
  <2> DEFINE queue == Append(s.queue, set)
             q == IF Len(queue) > QueueLimit THEN Tail(queue) ELSE queue
             r == [s EXCEPT !.queue = q]
  <2>1. IsNode(s) /\ queue \in Seq(SUBSET Node) /\ queue # << >>
    <3>1. s.queue \in Seq(SUBSET Node) /\ set \in SUBSET Node
      BY <1>1 DEF NodeOK, Basis, IsNode, set
    <3>2. queue \in Seq(SUBSET Node) /\ Len(queue) = Len(s.queue) + 1 /\ Len(s.queue) \in Nat
      BY <3>1, AppendProperties, LenProperties
    <3>3. Len(queue) # Len(<< >>)
      BY <3>2, EmptySeq
    <3> QED BY <3>2, <3>3 DEF NodeOK, Basis
  <2> HIDE DEF queue
  <2>2. q \in Seq(SUBSET Node)
    BY <2>1, HeadTailProperties
  <2>3. Process(s, nodes, known) = r
    BY <1>3 DEF Process, queue, set
  <2> HIDE DEF q
  <2>4. /\ IsNode(r) /\ r.state = s.state /\ r.joinCall = s.joinCall /\ r.basis = s.basis
        /\ r.hops = s.hops /\ r.ways = s.ways
        /\ r.cached = s.cached /\ r.pending = s.pending
    BY <2>1, <2>2 DEF IsNode, Fields
  <2> HIDE DEF r
  <2>5. NodeOK(r)
    BY <1>3, <2>4 DEF NodeOK, Basis, Stuck, OnWay
  <2> QED BY <2>3, <2>4, <2>5
<1> QED
  BY <1>2, <1>3

LEMMA ReceiveStateOK ==
    ASSUME NEW s, NodeOK(s), s.state # "JOIN", NEW nodes \in Seq(Node), NEW known
    PROVE  NodeOK(ReceiveState(s, nodes, known)) /\ ReceiveState(s, nodes, known).state = s.state
<1> DEFINE t == MergeState(s, nodes, known \ alive)
<1>1. NodeOK(t) /\ t.state = s.state
  BY MergeOK
<1> HIDE DEF t
<1>2. NodeOK(Process(t, nodes, known)) /\ Process(t, nodes, known).state = s.state
  BY <1>1, ProcessOK
<1> QED
  BY <1>2 DEF ReceiveState, t

\* What changes neither the processing of states nor joining.
Alike(s, t) ==
    /\ IsNode(t) /\ t.state = s.state /\ t.joinCall = s.joinCall /\ t.basis = s.basis
    /\ t.hops = s.hops /\ t.ways = s.ways
    /\ t.cached = s.cached /\ t.pending = s.pending /\ t.queue = s.queue /\ t.attempt = s.attempt

LEMMA AlikeOK ==
    ASSUME NEW s, NodeOK(s), s.state # "JOIN", NEW t, Alike(s, t)
    PROVE  NodeOK(t)
BY DEF NodeOK, Basis, Stuck, Alike, OnWay

LEMMA OthersOK ==
    ASSUME NEW s, NodeOK(s), s.state # "JOIN", NEW a, NEW b
    PROVE  /\ NodeOK([s EXCEPT !.awaiting = a, !.repairs = b])
           /\ Alike(s, [s EXCEPT !.awaiting = a, !.repairs = b])
<1> DEFINE t == [s EXCEPT !.awaiting = a, !.repairs = b]
<1>1. Alike(s, t)
  BY DEF NodeOK, Basis, IsNode, Fields, Alike
<1> HIDE DEF t
<1>2. NodeOK(t)
  BY <1>1, AlikeOK
<1> QED
  BY <1>1, <1>2 DEF t

LEMMA AskForOK ==
    ASSUME NEW s, NodeOK(s), s.state # "JOIN", NEW ask, NEW left
    PROVE  /\ NodeOK(AskFor(s, ask, left)) /\ AskFor(s, ask, left).state = s.state
           /\ AskFor(s, ask, left).cached = s.cached /\ AskFor(s, ask, left).attempt = s.attempt
<1> DEFINE a == {x \in s.awaiting : x.node # ask} \cup {[node |-> ask, left |-> left]}
           b == s.repairs \cup {ask}
           r == AskFor(s, ask, left)
<1>1. r = [s EXCEPT !.awaiting = a, !.repairs = b]
  BY DEF AskFor
<1> HIDE DEF a, b, r
<1>2. Alike(s, r)
  BY <1>1 DEF NodeOK, Basis, IsNode, Fields, Alike
<1>3. NodeOK(r)
  BY <1>2, AlikeOK
<1> QED
  BY <1>2, <1>3 DEF r, Alike

LEMMA RepairOK ==
    ASSUME NEW s, NodeOK(s), s.state # "JOIN", NEW from, NEW nodes, NEW known, NEW outdated
    PROVE  NodeOK(Repair(s, from, nodes, known, outdated)) /\ Repair(s, from, nodes, known, outdated).state = s.state
<1> DEFINE r == Repair(s, from, nodes, known, outdated)
           waits == {a \in s.awaiting : a.node \notin outdated}
           left  == (CHOOSE a \in waits : a.node = from).left
           rest  == {a \in waits : a.node # from}
           u     == [s EXCEPT !.awaiting = rest]
           t     == MergeState(u, nodes, known \ alive)
           ask   == t.leaves[IF left THEN Smallest(t.leaves) ELSE Biggest(t.leaves)]
<1>1. r = [s EXCEPT !.awaiting = waits] \/ r = t \/ r = AskFor(t, ask, left)
  BY DEF Repair
<1> HIDE DEF r, waits, left, rest, ask
<1>2. ASSUME NEW a
      PROVE  NodeOK([s EXCEPT !.awaiting = a]) /\ [s EXCEPT !.awaiting = a].state = s.state
  <2> DEFINE w == [s EXCEPT !.awaiting = a]
  <2>1. Alike(s, w)
    BY DEF NodeOK, Basis, IsNode, Fields, Alike
  <2> HIDE DEF w
  <2>2. NodeOK(w) /\ w.state = s.state
    BY <2>1, AlikeOK DEF Alike
  <2> QED BY <2>2 DEF w
<1>3. NodeOK(t) /\ t.state = s.state
  <2>1. NodeOK(u) /\ u.state = s.state
    BY <1>2
  <2> HIDE DEF u
  <2> QED BY <2>1, MergeOK
<1> HIDE DEF t
<1>4. CASE r = [s EXCEPT !.awaiting = waits]
  <2>1. NodeOK([s EXCEPT !.awaiting = waits]) /\ [s EXCEPT !.awaiting = waits].state = s.state
    BY <1>2
  <2>2. NodeOK(r) /\ r.state = s.state
    BY <1>4, <2>1
  <2> QED BY <2>2 DEF r
<1>5. CASE r = t
  BY <1>3, <1>5 DEF r
<1>6. CASE r = AskFor(t, ask, left)
  <2>1. NodeOK(AskFor(t, ask, left)) /\ AskFor(t, ask, left).state = t.state
    BY <1>3, AskForOK
  <2> QED BY <1>3, <1>6, <2>1 DEF r
<1> QED
  BY <1>1, <1>4, <1>5, <1>6

\* Either the node stays as it is, or it joins again.
LEMMA HandleFailedNodeOK ==
    ASSUME NEW s, NodeOK(s), NEW n, NEW boot, NEW path \in Nat \ {0}
    PROVE  LET r == HandleFailedNode(s, n, boot, path)
           IN  /\ NodeOK(r) /\ Follows(s, r)
               /\ r.state = s.state => r = s \/ r.state # "JOIN"
               /\ r.state = s.state => r.attempt = s.attempt
<1> DEFINE r        == HandleFailedNode(s, n, boot, path)
           i        == CHOOSE j \in 1 .. numberOfLeaves : s.leaves[j] = n
           left     == i <= Half
           leaves   == LeavesWithout(s.leaves, i)
           balanced == Balanced(leaves)
           ask      == Asked(leaves, balanced, IF left THEN Smallest(leaves) ELSE Biggest(leaves))
           full     == IsFull(s.leaves)
           set      == Leaves(balanced)
           v        == [s EXCEPT !.wasFull = full, !.leaves = balanced, !.heard = set]
           t        == ReportsFailed(v, n)
<1>1. \/ r = s
      \/ s.state = "READY" /\ r \in {t, AskFor(t, ask, left), JoinOverlay(s, boot, path)}
  BY DEF HandleFailedNode
<1> HIDE DEF r, i, left, leaves, balanced, ask, full, set
<1>2. IsNode(s) /\ s.attempt = s.attempt
  BY DEF NodeOK, Basis
<1>3. /\ IsNode(v) /\ v.state = s.state /\ v.joinCall = s.joinCall /\ v.basis = s.basis
      /\ v.hops = s.hops /\ v.ways = s.ways
      /\ v.cached = s.cached /\ v.pending = s.pending /\ v.queue = s.queue /\ v.attempt = s.attempt
  BY <1>2 DEF IsNode, Fields
<1> HIDE DEF v
<1>4. /\ IsNode(t) /\ t.state = v.state /\ t.joinCall = v.joinCall /\ t.basis = v.basis
      /\ t.hops = v.hops /\ t.ways = v.ways
      /\ t.cached = v.cached /\ t.pending = v.pending /\ t.queue = v.queue /\ t.attempt = v.attempt
  BY <1>3 DEF ReportsFailed, IsNode, Fields
<1> HIDE DEF t
<1>5. s.state = "READY" => NodeOK(t) /\ t.state = "READY" /\ t.attempt = s.attempt
  BY <1>3, <1>4 DEF NodeOK, Basis, Stuck, OnWay
<1>6. CASE r = s
  BY <1>6 DEF r, Follows
<1>7. CASE s.state = "READY" /\ r = t
  BY <1>5, <1>7 DEF r, Follows
<1>8. CASE s.state = "READY" /\ r = AskFor(t, ask, left)
  BY <1>5, <1>8, AskForOK DEF r, Follows
<1>9. CASE s.state = "READY" /\ r = JoinOverlay(s, boot, path)
  <2>1. NodeOK(r) /\ Follows(s, r)
    BY <1>2, <1>9, JoinOverlayOK
  <2>2. boot = NoNode => r.attempt = s.attempt
    <3>1. "attempt" \in DOMAIN Fresh
      BY DEF Fresh
    <3>2. boot = NoNode => r = [Fresh EXCEPT !.state = "READY", !.attempt = s.attempt]
      BY <1>9 DEF JoinOverlay
    <3> QED BY <3>1, <3>2
  <2>3. r.state = s.state => r.attempt = s.attempt /\ r.state # "JOIN"
    BY <1>2, <1>9, <2>2, JoinOverlayOK
  <2> QED BY <2>1, <2>3 DEF r
<1> QED
  BY <1>1, <1>6, <1>7, <1>8, <1>9

(***************************************************************************)
(* The invariant                                                           *)
(***************************************************************************)
\* The states of hops on their way are of a way of this attempt's message, or of an earlier one.
NetOK(s, states) ==
    \A m \in states : /\ m = <<m[1], m[2]>> /\ m[1] \in Nat /\ m[2] \in Nat
                      /\ s.state = "JOIN" => OnWay(s, m[1], m[2])

IInv == config \in Config /\ NodeOK(p) /\ NetOK(p, net)

LEMMA BoundsOK ==
    ASSUME config \in Config
    PROVE  /\ config.nodes \subseteq Node /\ Paths \subseteq Nat \ {0} /\ States \subseteq Seq(Node)
           /\ Loses => config' \in Config
           /\ config.deaths > 0 /\ config' = [config EXCEPT !.deaths = @ - 1] => config' \in Config
           /\ config.reroutes > 0 /\ config' = [config EXCEPT !.reroutes = @ - 1] => config' \in Config
<1>1. config.nodes \subseteq Node /\ config.hops \in Nat /\ config.states \in Nat
  BY DEF Config
<1>2. Paths \subseteq Nat \ {0}
  BY <1>1 DEF Paths
<1>3. ASSUME NEW a \in States
      PROVE  a \in Seq(Node)
  <2>1. PICK n \in 0 .. config.states : a \in [1 .. n -> config.nodes]
    BY <1>3 DEF States, SeqOf
  <2>2. n \in Nat /\ a \in [1 .. n -> Node]
    BY <1>1, <2>1
  <2> QED BY <2>2, SeqDef
<1>4. Loses => config' \in Config
  BY SMTT(30) DEF Loses, Config
<1>5. config.deaths > 0 /\ config' = [config EXCEPT !.deaths = @ - 1] => config' \in Config
  BY SMTT(30) DEF Config
<1>6. config.reroutes > 0 /\ config' = [config EXCEPT !.reroutes = @ - 1] => config' \in Config
  BY DEF Config
<1> QED
  BY <1>1, <1>2, <1>3, <1>4, <1>5, <1>6

LEMMA StatesOfOK ==
    ASSUME NEW v, NEW way \in Nat, NEW m \in StatesOf(1 .. v - 1, way)
    PROVE  m = <<m[1], m[2]>> /\ m[1] \in Nat /\ m[2] = way /\ m[1] \in 1 .. v - 1
BY DEF StatesOf

LEMMA BecomesOK ==
    ASSUME IInv, config' \in Config, NEW s, NodeOK(s), Follows(p, s), NEW states, NetOK(p, states),
           Becomes(s, states)
    PROVE  IInv'
<1>1. p' = s /\ NodeOK(p)'
  BY DEF Becomes
<1>2. CASE s.attempt = p.attempt
  <2>1. net' = states
    BY <1>2 DEF Becomes
  <2>2. NetOK(p, net)'
    BY <1>1, <1>2, <2>1 DEF NetOK, Follows, OnWay
  <2> QED BY <1>1, <2>2 DEF IInv
<1>3. CASE s.attempt # p.attempt
  <2>1. net' = {<<m[1], 0>> : m \in states} \cup StatesOf(1 .. s.ways[1] - 1, 1)
    BY <1>3 DEF Becomes
  <2>2. ASSUME NEW m \in net'
        PROVE  /\ m = <<m[1], m[2]>> /\ m[1] \in Nat /\ m[2] \in Nat
               /\ s.state = "JOIN" => OnWay(s, m[1], m[2])
    <3>1. CASE \E k \in states : m = <<k[1], 0>>
      BY <3>1 DEF NetOK, OnWay
    <3>2. CASE m \in StatesOf(1 .. s.ways[1] - 1, 1)
      <4>1. m = <<m[1], m[2]>> /\ m[1] \in Nat /\ m[2] = 1 /\ m[1] \in 1 .. s.ways[1] - 1
        BY <3>2, StatesOfOK
      <4>2. ASSUME s.state = "JOIN"
            PROVE  OnWay(s, m[1], m[2])
        <5>1. 1 \in DOMAIN s.ways
          BY <1>3, <4>2 DEF Follows
        <5>2. s.ways \in Seq(Nat \ {0})
          BY DEF NodeOK, Basis, IsNode
        <5>3. s.ways[1] \in Nat
          BY <5>1, <5>2
        <5> HIDE DEF NetOK
        <5> QED BY <4>1, <5>1, <5>3 DEF OnWay
      <4> QED BY <4>1, <4>2
    <3> QED BY <2>1, <3>1, <3>2
  <2>3. NetOK(p, net)'
    BY <1>1, <2>2 DEF NetOK, OnWay
  <2> QED BY <1>1, <2>3 DEF IInv
<1> QED
  BY <1>2, <1>3

LEMMA InitOK == Init => IInv
<1> SUFFICES ASSUME Init
             PROVE  IInv
  OBVIOUS
<1>1. config \in Config
  BY PastryAssumption DEF Init
<1>2. NoNode \notin config.nodes
  BY <1>1, PastryAssumption DEF Config, NoNode
<1>3. CASE config.start = << >>
  <2>1. PICK n \in config.nodes, path \in Paths :
            /\ p = [JoinOverlay(Fresh, n, path) EXCEPT !.attempt = 0]
            /\ net = StatesOf(1 .. path - 1, 1)
    BY <1>3 DEF Init
  <2> DEFINE j == JoinOverlay(Fresh, n, path)
  <2>2. path \in Nat \ {0}
    BY <1>1, BoundsOK
  <2>3. NodeOK(j) /\ j.state = "JOIN" /\ j.ways = <<path>>
    BY <1>2, <2>1, <2>2, FreshIsNode, JoinOverlayOK
  <2> HIDE DEF j
  <2>4. /\ IsNode(p) /\ p.state = "JOIN" /\ p.ways = <<path>> /\ p.received = j.received /\ p.hops = j.hops
        /\ p.joinCall = j.joinCall /\ p.readyWait = j.readyWait /\ p.cached = j.cached
        /\ p.pending = j.pending /\ p.queue = j.queue /\ p.repairs = j.repairs /\ p.basis = j.basis
        /\ p.ways = j.ways
    <3>1. IsNode(j)
      BY <2>3 DEF NodeOK, Basis
    <3>2. p = [j EXCEPT !.attempt = 0]
      BY <2>1 DEF j
    <3> QED BY <2>3, <3>1, <3>2 DEF IsNode, Fields
  <2>5. NodeOK(p)
    BY <2>3, <2>4 DEF NodeOK, Basis, Stuck, ReceivedOK, OnWay
  <2>6. NetOK(p, net)
    <3>1. ASSUME NEW m \in net
          PROVE  m = <<m[1], m[2]>> /\ m[1] \in Nat /\ m[2] = 1 /\ m[1] < path
      <4>1. m = <<m[1], m[2]>> /\ m[1] \in Nat /\ m[2] = 1 /\ m[1] \in 1 .. path - 1
        BY <2>1, StatesOfOK
      <4> QED BY <2>2, <4>1
    <3>2. 1 \in DOMAIN p.ways /\ p.ways[1] = path
      BY <2>4
    <3> QED BY <3>1, <3>2 DEF NetOK, OnWay
  <2> QED BY <1>1, <2>5, <2>6 DEF IInv
<1>4. CASE config.start # << >>
  <2> DEFINE r == [Fresh EXCEPT !.state = "READY"]
  <2>1. p = MergeState(r, config.start, {}) /\ net = {}
    BY <1>4 DEF Init
  <2>2. r = JoinOverlay(Fresh, NoNode, 1)
    BY ZenonT(30) DEF JoinOverlay, Fresh
  <2>3. NodeOK(r)
    BY <2>2, FreshIsNode, JoinOverlayOK
  <2> HIDE DEF r
  <2>4. NodeOK(p)
    BY <2>1, <2>3, MergeOK
  <2> QED BY <1>1, <2>1, <2>4 DEF IInv, NetOK
<1> QED
  BY <1>3, <1>4
-----------------------------------------------------------------------------
(***************************************************************************)
(* Every step keeps the invariant                                          *)
(***************************************************************************)
LEMMA NetStays ==
    ASSUME IInv
    PROVE  NetOK(p, net)
BY DEF IInv

\* What an answer names.
LEMMA AnswerType ==
    ASSUME config \in Config, NEW a \in States, NEW n \in config.nodes
    PROVE  Append(a, n) \in Seq(Node)
<1>1. a \in Seq(Node) /\ n \in Node
  BY BoundsOK
<1> QED
  BY <1>1, AppendProperties

LEMMA HandleHopStateOK ==
    ASSUME IInv, NEW m \in net, NEW n \in config.nodes, NEW a \in States, NEW known,
           HandleHopState(m, n, a, known)
    PROVE  IInv'
<1> DEFINE nodes == Append(a, n)
           state == [hop |-> m[1], way |-> m[2], kind |-> "hop", nodes |-> nodes]
<1>1. nodes \in Seq(Node) /\ config' \in Config
  BY AnswerType DEF IInv, HandleHopState
<1>2. PICK boot \in Bootstraps, path \in Paths :
          Becomes(IF p.state = "JOIN" THEN ReceiveJoin(p, state, known, boot, path)
                  ELSE ReceiveState(p, nodes, known), net \ {m})
  BY DEF HandleHopState
<1> HIDE DEF nodes
<1>3. path \in Nat \ {0}
  BY BoundsOK DEF IInv
<1>4. NetOK(p, net \ {m})
  BY DEF IInv, NetOK
<1>5. CASE p.state = "JOIN"
  <2>1. state \in ReceivedType /\ state.kind # "last" /\ OnWay(p, state.hop, state.way)
    BY <1>1, <1>5 DEF IInv, NetOK, ReceivedType
  <2> DEFINE s == ReceiveJoin(p, state, known, boot, path)
  <2>2. Becomes(s, net \ {m})
    BY <1>2, <1>5
  <2> HIDE DEF state
  <2>3. /\ Basis(p) /\ ~Stuck(p) /\ (p.pending # {} => p.cached)
        /\ p.cached => p.hops # 0 /\ p.pending # {}
    BY <1>5 DEF IInv, NodeOK, Stuck
  <2>4. NodeOK(s) /\ Follows(p, s)
    BY <1>3, <1>5, <2>1, <2>3, ReceiveJoinOK
  <2> HIDE DEF s
  <2> QED BY <1>1, <1>4, <2>2, <2>4, BecomesOK
<1>6. CASE p.state # "JOIN"
  <2> DEFINE s == ReceiveState(p, nodes, known)
  <2>1. Becomes(s, net \ {m})
    BY <1>2, <1>6
  <2>2. NodeOK(s) /\ s.state = p.state
    BY <1>1, <1>6, ReceiveStateOK DEF IInv
  <2> HIDE DEF s
  <2>3. Follows(p, s)
    BY <1>6, <2>2 DEF Follows
  <2> QED BY <1>1, <1>4, <2>1, <2>2, <2>3, BecomesOK
<1> QED
  BY <1>5, <1>6

LEMMA HandlePastryJoinResponseOK ==
    ASSUME IInv, NEW n \in config.nodes, NEW a \in States, NEW known, HandlePastryJoinResponse(n, a, known)
    PROVE  IInv'
<1> DEFINE nodes == Append(a, n)
           q == [p EXCEPT !.joinCall = FALSE]
<1>1. nodes \in Seq(Node) /\ config' \in Config
  BY AnswerType DEF IInv, HandlePastryJoinResponse
<1>2. PICK boot \in Bootstraps, path \in Paths, way \in DOMAIN p.ways :
          Becomes(ReceiveJoin(q, [hop |-> p.ways[way], way |-> way, kind |-> "last", nodes |-> nodes],
                              known, boot, path), net)
  BY DEF HandlePastryJoinResponse
<1> DEFINE state == [hop |-> p.ways[way], way |-> way, kind |-> "last", nodes |-> nodes]
<1> HIDE DEF nodes
<1>3. path \in Nat \ {0}
  BY BoundsOK DEF IInv
<1>4. p.joinCall /\ IsNode(p) /\ p.state = "JOIN" /\ p.hops = 0 /\ ~p.cached /\ p.pending = {}
  BY DEF IInv, HandlePastryJoinResponse, NodeOK, Basis, ReceivedOK, IsNode
<1>5. /\ IsNode(q) /\ q.state = p.state /\ q.ways = p.ways /\ q.received = p.received /\ q.hops = p.hops
      /\ ~q.joinCall /\ q.cached = p.cached /\ q.pending = p.pending /\ q.queue = p.queue
      /\ q.repairs = p.repairs /\ q.attempt = p.attempt /\ q.basis = p.basis
  BY <1>4 DEF IsNode, Fields
<1> HIDE DEF q
<1>6. Basis(q)
  BY <1>5 DEF IInv, NodeOK, Basis, ReceivedOK, OnWay
<1>7. way \in Nat /\ p.ways[way] \in Nat \ {0}
  <2>1. p.ways \in Seq(Nat \ {0})
    BY <1>4 DEF IsNode
  <2> QED BY <2>1
<1>8. state \in ReceivedType /\ state.kind = "last" /\ state.hop # 0
  BY <1>1, <1>7 DEF ReceivedType
<1> HIDE DEF state
<1> DEFINE s == ReceiveJoin(q, state, known, boot, path)
<1>9. NodeOK(s) /\ Follows(q, s)
  BY <1>3, <1>4, <1>5, <1>6, <1>8, ReceiveJoinOK
<1>10. Becomes(s, net)
  BY <1>2 DEF state
<1> HIDE DEF s
<1>11. Follows(p, s)
  BY <1>4, <1>5, <1>9 DEF Follows
<1> QED
  BY <1>1, <1>9, <1>10, <1>11, NetStays, BecomesOK

\* The node joins once more.
LEMMA RestartOK ==
    ASSUME IInv, config' \in Config, NEW boot, NEW path \in Paths, NEW states, NetOK(p, states),
           Becomes(JoinOverlay(p, boot, path), states)
    PROVE  IInv'
<1> DEFINE s == JoinOverlay(p, boot, path)
<1>1. path \in Nat \ {0} /\ IsNode(p)
  BY BoundsOK DEF IInv, NodeOK, Basis
<1>2. NodeOK(s) /\ Follows(p, s) /\ Becomes(s, states)
  BY <1>1, JoinOverlayOK
<1> HIDE DEF s
<1> QED
  BY <1>2, BecomesOK

LEMMA HandleTimersOK ==
    ASSUME IInv, HandleJoinTimeout \/ HandleReadyWait
    PROVE  IInv'
<1>1. config' \in Config
  BY BoundsOK DEF IInv, HandleJoinTimeout, HandleReadyWait
<1>2. CASE HandleJoinTimeout
  <2>1. PICK boot \in Bootstraps, path, given \in Paths :
            Becomes(JoinOverlay(p, boot, path), net \cup StatesOf(1 .. given - 1, 0))
    BY <1>2 DEF HandleJoinTimeout
  <2> DEFINE sent == StatesOf(1 .. given - 1, 0)
  <2>2. \A m \in sent : m = <<m[1], m[2]>> /\ m[1] \in Nat /\ m[2] = 0
    BY StatesOfOK
  <2> HIDE DEF sent
  <2>3. NetOK(p, net \cup sent)
    BY <2>2 DEF IInv, NetOK, OnWay
  <2> QED BY <1>1, <2>1, <2>3, RestartOK DEF sent
<1>3. CASE HandleReadyWait
  <2>1. PICK boot \in Bootstraps, path \in Paths : Becomes(JoinOverlay(p, boot, path), net)
    BY <1>3 DEF HandleReadyWait
  <2> QED BY <1>1, <2>1, NetStays, RestartOK
<1> QED
  BY <1>2, <1>3

LEMMA HandleStateMessageOK ==
    ASSUME IInv, NEW n \in config.nodes, NEW a \in States, NEW known, HandleStateMessage(n, a, known)
    PROVE  IInv'
<1> DEFINE nodes == Append(a, n)
           s == ReceiveState(p, nodes, known)
<1>1. nodes \in Seq(Node) /\ config' \in Config /\ p.state = "READY" /\ Becomes(s, net)
  BY AnswerType DEF IInv, HandleStateMessage
<1> HIDE DEF nodes
<1>2. NodeOK(s) /\ s.state = p.state
  BY <1>1, ReceiveStateOK DEF IInv
<1> HIDE DEF s
<1>3. Follows(p, s)
  BY <1>1, <1>2 DEF Follows
<1> QED
  BY <1>1, <1>2, <1>3, NetStays, BecomesOK

\* An answer to a request for repair, or its timeout, ends the request.
LEMMA NoLongerAsked ==
    ASSUME NodeOK(p), p.state # "JOIN", NEW n
    PROVE  /\ NodeOK([p EXCEPT !.repairs = @ \ {n}])
           /\ [p EXCEPT !.repairs = @ \ {n}].state = p.state
           /\ [p EXCEPT !.repairs = @ \ {n}].attempt = p.attempt
<1> DEFINE b == p.repairs \ {n}
           t == [p EXCEPT !.repairs = b]
<1>1. t = [p EXCEPT !.repairs = @ \ {n}]
  OBVIOUS
<1> HIDE DEF b
<1>2. Alike(p, t)
  BY DEF NodeOK, Basis, IsNode, Fields, Alike
<1> HIDE DEF t
<1>3. NodeOK(t) /\ t.state = p.state /\ t.attempt = p.attempt
  BY <1>2, AlikeOK DEF Alike
<1> QED
  BY <1>1, <1>3

LEMMA HandleRequestRepairResponseOK ==
    ASSUME IInv, NEW n \in config.nodes, NEW a \in States, NEW known,
           HandleRequestRepairResponse(n, a, known)
    PROVE  IInv'
<1> DEFINE nodes == Append(a, n)
           t == [p EXCEPT !.repairs = @ \ {n}]
<1>1. nodes \in Seq(Node) /\ config' \in Config /\ p.state # "JOIN"
  BY AnswerType DEF IInv, HandleRequestRepairResponse, NodeOK, Basis
<1>2. PICK outdated \in {{}, {x.node : x \in p.awaiting} \ p.repairs} :
          Becomes(Process(Repair(t, n, nodes, known, outdated), nodes, known), net)
  BY DEF HandleRequestRepairResponse
<1>3. NodeOK(t) /\ t.state = p.state
  BY <1>1, NoLongerAsked DEF IInv
<1> HIDE DEF nodes, t
<1> DEFINE u == Repair(t, n, nodes, known, outdated)
           s == Process(u, nodes, known)
<1>4. NodeOK(u) /\ u.state = p.state
  BY <1>1, <1>3, RepairOK
<1> HIDE DEF u
<1>5. NodeOK(s) /\ s.state = p.state
  BY <1>1, <1>4, ProcessOK
<1>6. Becomes(s, net)
  BY <1>2 DEF u
<1> HIDE DEF s
<1>7. Follows(p, s)
  BY <1>1, <1>5 DEF Follows
<1> QED
  BY <1>1, <1>5, <1>6, <1>7, NetStays, BecomesOK

LEMMA HandleRpcTimeoutOK ==
    ASSUME IInv, NEW n \in config.nodes, HandleRpcTimeout(n)
    PROVE  IInv'
<1> DEFINE t == [p EXCEPT !.repairs = @ \ {n}]
<1>1. config' \in Config /\ p.state = "READY"
  BY BoundsOK DEF IInv, HandleRpcTimeout, Unanswered
<1>2. PICK boot \in Bootstraps, path \in Paths : Becomes(HandleFailedNode(t, n, boot, path), net)
  BY DEF HandleRpcTimeout
<1>3. path \in Nat \ {0}
  BY BoundsOK DEF IInv
<1>4. NodeOK(t) /\ t.state = p.state /\ t.attempt = p.attempt
  BY <1>1, NoLongerAsked DEF IInv
<1> HIDE DEF t
<1> DEFINE s == HandleFailedNode(t, n, boot, path)
<1>5. NodeOK(s) /\ Follows(t, s)
  BY <1>3, <1>4, HandleFailedNodeOK
<1>6. Becomes(s, net)
  BY <1>2
<1> HIDE DEF s
<1>7. Follows(p, s)
  BY <1>1, <1>4, <1>5 DEF Follows
<1> QED
  BY <1>1, <1>5, <1>6, <1>7, NetStays, BecomesOK

LEMMA HandlePastryJoinCallOK ==
    ASSUME IInv, NEW n \in config.nodes, HandlePastryJoinCall(n)
    PROVE  IInv'
<1>1. config' \in Config
  BY BoundsOK DEF IInv, HandlePastryJoinCall
<1>2. PICK boot \in Bootstraps, path \in Paths : Becomes(HandleFailedNode(p, n, boot, path), net)
  BY DEF HandlePastryJoinCall
<1>3. path \in Nat \ {0}
  BY BoundsOK DEF IInv
<1> DEFINE s == HandleFailedNode(p, n, boot, path)
<1>4. NodeOK(s) /\ Follows(p, s)
  BY <1>3, HandleFailedNodeOK DEF IInv
<1>5. Becomes(s, net)
  BY <1>2
<1> HIDE DEF s
<1> QED
  BY <1>1, <1>4, <1>5, NetStays, BecomesOK

LEMMA ProxAnswerOK ==
    ASSUME IInv, NEW n \in config.nodes, NEW known, ProxAnswer(n, known)
    PROVE  IInv'
<1> DEFINE rest == p.pending \ {n}
           q == [p EXCEPT !.pending = rest]
<1>1. config' \in Config
  BY DEF IInv, ProxAnswer
<1>2. PICK boot \in Bootstraps, path \in Paths : Becomes(CheckProxCache(q, known, boot, path), net)
  BY DEF ProxAnswer
<1>3. path \in Nat \ {0}
  BY BoundsOK DEF IInv
<1>4. IsNode(p) /\ p.cached /\ (p.state = "JOIN" => p.hops # 0)
  BY DEF IInv, ProxAnswer, NodeOK, Basis
<1> HIDE DEF rest
<1>5. /\ IsNode(q) /\ q.state = p.state /\ q.ways = p.ways /\ q.received = p.received /\ q.hops = p.hops
      /\ q.joinCall = p.joinCall /\ q.cached = p.cached /\ q.queue = p.queue
      /\ q.repairs = p.repairs /\ q.attempt = p.attempt /\ q.basis = p.basis
  BY <1>4 DEF IsNode, Fields
<1> HIDE DEF q
<1>6. Basis(q)
  BY <1>5 DEF IInv, NodeOK, Basis, ReceivedOK, OnWay
<1> DEFINE s == CheckProxCache(q, known, boot, path)
<1>7. NodeOK(s) /\ Follows(q, s)
  BY <1>3, <1>4, <1>5, <1>6, CheckProxCacheOK
<1>8. Becomes(s, net)
  BY <1>2
<1> HIDE DEF s
<1>9. Follows(p, s)
  BY <1>5, <1>7 DEF Follows
<1> QED
  BY <1>1, <1>7, <1>8, <1>9, NetStays, BecomesOK

LEMMA ProxTimeoutOK ==
    ASSUME IInv, NEW n \in config.nodes, NEW known, ProxTimeout(n, known)
    PROVE  IInv'
<1>1. config' \in Config
  BY BoundsOK DEF IInv, ProxTimeout, Unanswered
<1>2. PICK boot \in Bootstraps, path \in Paths :
          LET s == HandleFailedNode(p, n, boot, path)
              t == [s EXCEPT !.pending = @ \ {n}, !.dead = IF s.state = "JOIN" THEN @ \cup {n} ELSE @]
          IN  Becomes(IF s.state # p.state THEN s
                      ELSE IF ~s.cached THEN [s EXCEPT !.state = "CRASH"]
                      ELSE CheckProxCache(t, known, boot, path), net)
  BY DEF ProxTimeout
<1>3. path \in Nat \ {0}
  BY BoundsOK DEF IInv
<1>4. p.cached /\ (p.state = "JOIN" => p.hops # 0)
  BY DEF IInv, ProxTimeout, NodeOK
<1> DEFINE s == HandleFailedNode(p, n, boot, path)
           rest == s.pending \ {n}
           found == IF s.state = "JOIN" THEN s.dead \cup {n} ELSE s.dead
           t == [s EXCEPT !.pending = rest, !.dead = found]
           c == [s EXCEPT !.state = "CRASH"]
           k == CheckProxCache(t, known, boot, path)
<1>5. /\ NodeOK(s) /\ Follows(p, s)
      /\ s.state = p.state => s = p \/ s.state # "JOIN"
      /\ s.state = p.state => s.attempt = p.attempt
  BY <1>3, HandleFailedNodeOK DEF IInv
<1>6. t = [s EXCEPT !.pending = @ \ {n}, !.dead = IF s.state = "JOIN" THEN @ \cup {n} ELSE @]
  OBVIOUS
<1>7. /\ s.state # p.state => Becomes(s, net)
      /\ s.state = p.state /\ ~s.cached => Becomes(c, net)
      /\ s.state = p.state /\ s.cached => Becomes(k, net)
  BY <1>2, <1>6
<1> HIDE DEF s, rest, found
<1>8. CASE s.state # p.state
  BY <1>1, <1>5, <1>7, <1>8, NetStays, BecomesOK
<1>9. CASE s.state = p.state /\ ~s.cached
  <2>1. s.state # "JOIN" /\ IsNode(s)
    BY <1>4, <1>5, <1>9 DEF NodeOK, Basis
  <2>2. /\ IsNode(c) /\ c.state = "CRASH" /\ c.joinCall = s.joinCall /\ c.basis = s.basis
        /\ c.hops = s.hops /\ c.ways = s.ways
        /\ c.cached = s.cached /\ c.pending = s.pending /\ c.queue = s.queue
    BY <2>1 DEF IsNode, Fields
  <2> HIDE DEF c
  <2>3. NodeOK(c) /\ Follows(p, c)
    BY <1>5, <2>1, <2>2 DEF NodeOK, Basis, Stuck, Follows, OnWay
  <2> QED BY <1>1, <1>7, <1>9, <2>3, NetStays, BecomesOK
<1>10. CASE s.state = p.state /\ s.cached
  <2>1. IsNode(s) /\ (s.state = "JOIN" => s = p)
    BY <1>5, <1>10 DEF NodeOK, Basis
  <2>2. /\ IsNode(t) /\ t.state = s.state /\ t.ways = s.ways /\ t.received = s.received /\ t.hops = s.hops
        /\ t.joinCall = s.joinCall /\ t.cached = s.cached /\ t.queue = s.queue
        /\ t.repairs = s.repairs /\ t.attempt = s.attempt /\ t.basis = s.basis
    BY <2>1 DEF IsNode, Fields
  <2> HIDE DEF t
  <2>3. Basis(t)
    BY <1>5, <2>2 DEF NodeOK, Basis, ReceivedOK, OnWay
  <2>4. t.cached /\ (t.state = "JOIN" => t.hops # 0)
    BY <1>4, <1>10, <2>1, <2>2
  <2>5. NodeOK(k) /\ Follows(t, k)
    BY <1>3, <2>3, <2>4, CheckProxCacheOK
  <2> HIDE DEF k
  <2>6. Follows(p, k)
    BY <1>5, <1>10, <2>1, <2>2, <2>5 DEF Follows
  <2> QED BY <1>1, <1>7, <1>10, <2>5, <2>6, NetStays, BecomesOK
<1> QED
  BY <1>8, <1>9, <1>10

\* A message that is routed again has one more way; what was of a way before still is.
LEMMA RerouteOK ==
    ASSUME IInv, NEW way \in {0} \cup DOMAIN p.ways, NEW hop \in Paths, NEW path \in Paths,
           Reroute(way, hop, path)
    PROVE  IInv'
<1>1. config' \in Config
  BY BoundsOK DEF IInv, Reroute
<1>2. hop \in Nat /\ path \in Nat \ {0}
  BY BoundsOK DEF IInv
<1>3. IsNode(p) /\ p.ways \in Seq(Nat \ {0}) /\ Len(p.ways) \in Nat
  BY LenProperties DEF IInv, NodeOK, Basis, IsNode
<1>4. ASSUME NEW w \in Nat, NEW m \in StatesOf(hop + 1 .. path - 1, w)
      PROVE  m = <<m[1], m[2]>> /\ m[1] \in Nat /\ m[2] = w /\ m[1] < path
  BY <1>2 DEF StatesOf
<1>5. CASE way = 0
  <2> DEFINE sent == StatesOf(hop + 1 .. path - 1, 0)
  <2>1. p' = p /\ net' = net \cup sent
    BY <1>5 DEF Reroute
  <2>2. \A m \in sent : m = <<m[1], m[2]>> /\ m[1] \in Nat /\ m[2] = 0
    BY <1>4
  <2> HIDE DEF sent
  <2>3. NetOK(p, net)'
    BY <2>1, <2>2 DEF IInv, NetOK, OnWay
  <2> QED BY <1>1, <2>1, <2>3 DEF IInv
<1>6. CASE way # 0
  <2> DEFINE new  == Len(p.ways) + 1
             ways == Append(p.ways, path)
             q    == [p EXCEPT !.ways = ways]
             sent == StatesOf(hop + 1 .. path - 1, new)
  <2>1. p' = q /\ net' = net \cup sent
    BY <1>6 DEF Reroute
  <2>2. /\ ways \in Seq(Nat \ {0}) /\ new \in DOMAIN ways /\ ways[new] = path
        /\ \A i \in DOMAIN p.ways : i \in DOMAIN ways /\ ways[i] = p.ways[i]
    BY <1>2, <1>3
  <2>3. \A m \in sent : m = <<m[1], m[2]>> /\ m[1] \in Nat /\ m[2] = new /\ m[1] < path
    BY <1>3, <1>4
  <2>4. new \in Nat
    BY <1>3
  <2> HIDE DEF new, ways, sent
  <2>5. /\ IsNode(q) /\ q.state = p.state /\ q.ways = ways /\ q.received = p.received /\ q.hops = p.hops
        /\ q.joinCall = p.joinCall /\ q.readyWait = p.readyWait /\ q.cached = p.cached
        /\ q.pending = p.pending /\ q.queue = p.queue /\ q.repairs = p.repairs /\ q.basis = p.basis
    BY <1>3, <2>2 DEF IsNode, Fields
  <2> HIDE DEF q
  <2>6. \A h, w : OnWay(p, h, w) => OnWay(q, h, w)
    BY <2>2, <2>5 DEF OnWay
  <2>7. NodeOK(q)
    <3>1. p.state = "JOIN" => ReceivedOK(q)
      BY <2>5, <2>6 DEF IInv, NodeOK, Basis, ReceivedOK
    <3>2. q.basis.kind = "hop" => q.basis.hop \in Nat /\ q.basis.hop >= q.hops /\ OnWay(q, q.basis.hop, q.basis.way)
      BY <2>5, <2>6 DEF IInv, NodeOK, Basis
    <3> QED BY <2>5, <3>1, <3>2 DEF IInv, NodeOK, Basis, Stuck
  <2>8. NetOK(q, net \cup sent)
    <3>1. ASSUME NEW m \in net
          PROVE  /\ m = <<m[1], m[2]>> /\ m[1] \in Nat /\ m[2] \in Nat
                 /\ q.state = "JOIN" => OnWay(q, m[1], m[2])
      BY <2>5, <2>6 DEF IInv, NetOK
    <3>2. ASSUME NEW m \in sent
          PROVE  /\ m = <<m[1], m[2]>> /\ m[1] \in Nat /\ m[2] \in Nat /\ OnWay(q, m[1], m[2])
      BY <2>2, <2>3, <2>4, <2>5 DEF OnWay
    <3> QED BY <3>1, <3>2 DEF NetOK
  <2>9. NodeOK(p)' /\ NetOK(p, net)'
    BY <2>1, <2>7, <2>8
  <2> QED BY <1>1, <2>9 DEF IInv
<1> QED
  BY <1>5, <1>6

\* Nothing happens to this node.
LEMMA OthersStepOK ==
    ASSUME IInv, (\E m \in net : Lose(m)) \/ (\E n \in config.nodes : Die(n))
    PROVE  IInv'
<1>1. config' \in Config /\ p' = p /\ net' \subseteq net
  BY BoundsOK DEF IInv, Lose, Die
<1>2. NetOK(p, net)'
  BY <1>1 DEF IInv, NetOK
<1> QED
  BY <1>1, <1>2 DEF IInv

\* The invariant is inductive.
THEOREM Invariance == Spec => []IInv
<1>1. IInv /\ [Next]_vars => IInv'
  <2> SUFFICES ASSUME IInv, [Next]_vars
               PROVE  IInv'
    OBVIOUS
  <2>1. CASE \E n \in config.nodes, a \in States, known \in Knowledge :
                \E m \in net : HandleHopState(m, n, a, known)
    BY <2>1, HandleHopStateOK
  <2>2. CASE \E n \in config.nodes, a \in States, known \in Knowledge : HandlePastryJoinResponse(n, a, known)
    BY <2>2, HandlePastryJoinResponseOK
  <2>3. CASE \E n \in config.nodes, a \in States, known \in Knowledge : HandleStateMessage(n, a, known)
    BY <2>3, HandleStateMessageOK
  <2>4. CASE \E n \in config.nodes, a \in States, known \in Knowledge : HandleRequestRepairResponse(n, a, known)
    BY <2>4, HandleRequestRepairResponseOK
  <2>5. CASE \E n \in config.nodes, known \in Knowledge : ProxAnswer(n, known)
    BY <2>5, ProxAnswerOK
  <2>6. CASE \E n \in config.nodes, known \in Knowledge : ProxTimeout(n, known)
    BY <2>6, ProxTimeoutOK
  <2>7. CASE \E n \in config.nodes : HandleRpcTimeout(n)
    BY <2>7, HandleRpcTimeoutOK
  <2>8. CASE \E n \in config.nodes : HandlePastryJoinCall(n)
    BY <2>8, HandlePastryJoinCallOK
  <2>9. CASE HandleJoinTimeout \/ HandleReadyWait
    BY <2>9, HandleTimersOK
  <2>10. CASE (\E m \in net : Lose(m)) \/ (\E n \in config.nodes : Die(n))
    BY <2>10, OthersStepOK
  <2>11. CASE \E way \in {0} \cup DOMAIN p.ways, hop, path \in Paths : Reroute(way, hop, path)
    BY <2>11, RerouteOK
  <2>12. CASE UNCHANGED vars
    BY <2>12 DEF vars, IInv, NodeOK, Basis, Stuck, NetOK, ReceivedOK, IsNode, LastIsHighest, OnWay
  <2> QED
    BY <2>1, <2>2, <2>3, <2>4, <2>5, <2>6, <2>7, <2>8, <2>9, <2>10, <2>11, <2>12 DEF Next
<1> QED
  BY <1>1, InitOK, PTL DEF Spec

\* A node becomes ready with the leaf set of the last hop of its join message, in whatever order
\* states arrive and whatever of them is lost, late or repeated; only the state of a hop of a
\* longer way of the message, or of an earlier attempt's, with as high a hop count can take its
\* place (recursiveRoutingHook(), internalHandleRpcTimeout(), handleStateMessage(), mergeState()).
THEOREM LastHop == Spec => []LeafSetFromLastHop
<1>1. IInv => LeafSetFromLastHop
  <2> SUFFICES ASSUME IInv, p.basis.kind = "hop"
                PROVE  /\ p.basis.hop >= p.hops
                       /\ p.basis.way = 0 \/ p.ways[p.basis.way] > p.hops
    BY DEF LeafSetFromLastHop
  <2>1. p.basis.hop \in Nat /\ p.basis.hop >= p.hops /\ OnWay(p, p.basis.hop, p.basis.way) /\ p.hops \in Nat
    BY DEF IInv, NodeOK, Basis, IsNode
  <2>2. p.ways \in Seq(Nat \ {0})
    BY DEF IInv, NodeOK, Basis, IsNode
  <2> QED BY <2>1, <2>2 DEF OnWay
<1> QED
  BY <1>1, Invariance, PTL

\* The node never waits for what does not come: to join it has a call, a timer or a ping under
\* way, and what it processes or has queued waits for a ping (checkProxCache(), processState()).
THEOREM NeverStuck == Spec => []NothingStuck
<1>1. IInv => NothingStuck
  BY DEF IInv, NodeOK, Stuck, NothingStuck
<1> QED
  BY <1>1, Invariance, PTL
-----------------------------------------------------------------------------
LEMMA Greatest ==
    ASSUME NEW n \in Nat, NEW S \in SUBSET (1 .. n), S # {}
    PROVE  Max(S) \in S /\ \A x \in S : x <= Max(S)
<1> DEFINE T == {n - x : x \in S}
<1>0. \A x \in S : x \in Int /\ x <= n
  OBVIOUS
<1>1. T \in SUBSET Nat /\ T # {}
  <2>1. \A x \in S : n - x \in Nat
    BY <1>0
  <2> QED BY <2>1
<1>2. Min(T) \in T
  BY <1>1, Least
<1>3. \A y \in T : Min(T) <= y
  <2>1. \E m \in T : \A y \in T : m <= y
    <3> DEFINE R == OpToRel(<, Nat)
    <3>1. PICK m \in T : \A y \in T : ~ (<<y, m>> \in R)
      BY <1>1, NatLessThanWellFounded, WFMin
    <3>2. \A x, y \in Nat : x < y => <<x, y>> \in R
      BY DEF OpToRel
    <3> HIDE DEF R
    <3>3. \A y \in T : ~(y < m) /\ y \in Nat /\ m \in Nat
      BY <1>1, <3>1, <3>2
    <3>4. \A y \in T : m <= y
      BY <3>3
    <3> HIDE DEF T
    <3> QED BY <3>1, <3>4
  <2> QED BY <2>1 DEF Min
<1>4. PICK m \in S : n - m = Min(T)
  BY <1>2
<1>5. \A x \in S : n - x \in T /\ x \in Int
  OBVIOUS
<1> HIDE DEF T
<1>6. \A x \in S : x <= m
  BY <1>3, <1>4, <1>5
<1> QED
  BY <1>4, <1>6 DEF Max

LEMMA HalfOK == Half \in Nat \ {0} /\ numberOfLeaves = 2 * Half /\ numberOfLeaves \in Nat
<1>1. numberOfLeaves \in Nat \ {0} /\ numberOfLeaves % 2 = 0
  BY PastryAssumption
<1> QED
  BY <1>1 DEF Half

LEMMA NodeType == NoNode = -1 /\ Self = 0 /\ \A n \in Node : n \in Nat /\ n > 0 /\ n # NoNode /\ n # Self
BY PastryAssumption DEF NoNode, Self

(***************************************************************************)
(* The leaf set                                                            *)
(***************************************************************************)
\* Slot i comes before slot j on the ring, from this node on.
Before(i, j) == IF i <= Half THEN j <= Half /\ i < j ELSE j <= Half \/ i < j

\* The slots taken are the l and r in the middle, in the order of the ring.
Slots(leaves, l, r) ==
    /\ leaves \in [1 .. numberOfLeaves -> Node \cup {NoNode}]
    /\ l \in 0 .. Half /\ r \in 0 .. Half
    /\ \A i \in 1 .. numberOfLeaves : leaves[i] # NoNode <=> Half - l < i /\ i <= Half + r
    /\ \A i, j \in 1 .. numberOfLeaves :
          leaves[i] # NoNode /\ leaves[j] # NoNode /\ Before(i, j) => leaves[i] < leaves[j]

Balance(l, r, d) == l - r <= d /\ r - l <= d

LEMMA SlotsOK ==
    ASSUME NEW leaves, NEW l, NEW r, Slots(leaves, l, r)
    PROVE  /\ \A i \in 1 .. numberOfLeaves : leaves[i] = NoNode \/ (leaves[i] \in Node /\ leaves[i] \in Nat /\ leaves[i] > 0)
           /\ \A i, j \in 1 .. numberOfLeaves : leaves[i] = leaves[j] /\ leaves[i] # NoNode => i = j
           /\ \A n : n \in Leaves(leaves) <=> n # NoNode /\ \E i \in 1 .. numberOfLeaves : leaves[i] = n
           /\ Leaves(leaves) \subseteq Node
<1>1. numberOfLeaves \in Nat /\ Half \in Nat
  BY HalfOK
<1>2. \A i \in 1 .. numberOfLeaves : leaves[i] = NoNode \/ (leaves[i] \in Node /\ leaves[i] \in Nat /\ leaves[i] > 0)
  BY NodeType DEF Slots
<1>3. DOMAIN leaves = 1 .. numberOfLeaves
  BY DEF Slots
<1>4. \A n : n \in Leaves(leaves) <=> n # NoNode /\ \E i \in 1 .. numberOfLeaves : leaves[i] = n
  BY <1>3 DEF Leaves, Range
<1>5. \A i, j \in 1 .. numberOfLeaves : i # j => Before(i, j) \/ Before(j, i)
  BY <1>1 DEF Before
<1>6. \A i, j \in 1 .. numberOfLeaves : leaves[i] = leaves[j] /\ leaves[i] # NoNode => i = j
  BY <1>1, <1>2, <1>5, NodeType DEF Slots
<1> QED
  BY <1>2, <1>4, <1>6

LEMMA EndsOK ==
    ASSUME NEW leaves, NEW l, NEW r, Slots(leaves, l, r)
    PROVE  /\ Smallest(leaves) = IF l = 0 THEN Half ELSE Half - l + 1
           /\ Biggest(leaves) = IF r = 0 THEN Half + 1 ELSE Half + r
<1>1. numberOfLeaves = 2 * Half /\ Half \in Nat \ {0} /\ l \in 0 .. Half /\ r \in 0 .. Half
  BY HalfOK DEF Slots
<1> DEFINE S == {i \in 1 .. Half : ~Free(leaves, i)} \cup {Half}
           B == {i \in Half + 1 .. numberOfLeaves : ~Free(leaves, i)} \cup {Half + 1}
<1>2. \A i \in S : i \in Nat /\ (i = Half \/ (Half - l < i /\ i <= Half))
  BY <1>1 DEF Slots, Free
<1>3. l # 0 => Half - l + 1 \in S
  BY <1>1 DEF Slots, Free
<1>4. \A i \in B : i \in Nat /\ i >= 1 /\ i <= numberOfLeaves /\ (i = Half + 1 \/ (i <= Half + r /\ i > Half))
  BY <1>1 DEF Slots, Free
<1>5. r # 0 => Half + r \in B
  BY <1>1 DEF Slots, Free
<1>6. Half \in S /\ Half + 1 \in B
  OBVIOUS
<1> DEFINE c == IF l = 0 THEN Half ELSE Half - l + 1
<1>7. c \in S /\ (\A x \in S : c <= x) /\ c \in Nat
  BY <1>1, <1>2, <1>3, <1>6
<1>8. Max(B) \in B /\ \A x \in B : x <= Max(B)
  <2>1. B \in SUBSET (1 .. numberOfLeaves) /\ B # {} /\ numberOfLeaves \in Nat
    BY <1>1, <1>4, <1>6
  <2> HIDE DEF B
  <2> QED BY <2>1, Greatest
<1>9. Smallest(leaves) = Min(S) /\ Biggest(leaves) = Max(B)
  BY DEF Smallest, Biggest
<1> HIDE DEF S, B
<1>10. Min(S) = c
  <2> HIDE DEF c
  <2>1. Min(S) \in S /\ \A x \in S : Min(S) <= x
    BY <1>7 DEF Min
  <2>2. Min(S) <= c /\ c <= Min(S) /\ Min(S) \in Nat
    BY <1>2, <1>7, <2>1
  <2> QED BY <1>7, <2>2
<1>11. Max(B) = IF r = 0 THEN Half + 1 ELSE Half + r
  BY <1>1, <1>4, <1>5, <1>6, <1>8
<1> QED
  BY <1>9, <1>10, <1>11

LEMMA Removed ==
    ASSUME NEW T, NEW s \in Seq(T), NEW i \in 1 .. Len(s)
    PROVE  /\ RemoveAt(s, i) \in Seq(T) /\ Len(s) \in Nat /\ Len(RemoveAt(s, i)) = Len(s) - 1
           /\ \A j \in 1 .. Len(s) - 1 : RemoveAt(s, i)[j] = IF j < i THEN s[j] ELSE s[j + 1]
<1> DEFINE a == SubSeq(s, 1, i - 1)
           b == SubSeq(s, i + 1, Len(s))
<1>1. Len(s) \in Nat /\ i \in Int /\ i - 1 \in Int /\ i + 1 \in Int /\ Len(s) \in Int
  BY LenProperties
<1>2. \A j \in 1 .. Len(s) : s[j] \in T
  BY ElementOfSeq
<1>3. /\ a \in Seq(T) /\ Len(a) = i - 1
      /\ \A j \in 1 .. i - 1 : a[j] = s[j]
  <2>1. \A j \in 1 .. i - 1 : s[j] \in T
    BY <1>1, <1>2
  <2>2. /\ a \in Seq(T) /\ Len(a) = IF 1 <= i - 1 THEN i - 1 - 1 + 1 ELSE 0
        /\ \A j \in 1 .. i - 1 - 1 + 1 : a[j] = s[1 + j - 1]
    BY <1>1, <2>1, SubSeqProperties
  <2> QED BY <1>1, <2>2
<1>4. /\ b \in Seq(T) /\ Len(b) = Len(s) - i
      /\ \A j \in 1 .. Len(s) - i : b[j] = s[i + j]
  <2>1. \A j \in i + 1 .. Len(s) : s[j] \in T
    BY <1>1, <1>2
  <2>2. /\ b \in Seq(T) /\ Len(b) = IF i + 1 <= Len(s) THEN Len(s) - (i + 1) + 1 ELSE 0
        /\ \A j \in 1 .. Len(s) - (i + 1) + 1 : b[j] = s[i + 1 + j - 1]
    BY <1>1, <2>1, SubSeqProperties
  <2>3. Len(s) - (i + 1) + 1 = Len(s) - i /\ \A j \in 1 .. Len(s) - i : i + 1 + j - 1 = i + j
    BY <1>1
  <2>4. (IF i + 1 <= Len(s) THEN Len(s) - (i + 1) + 1 ELSE 0) = Len(s) - i
    BY <1>1
  <2> HIDE DEF b
  <2>5. \A j \in 1 .. Len(s) - i : b[j] = s[i + 1 + j - 1]
    BY <2>2, <2>3
  <2> QED BY <2>2, <2>3, <2>4, <2>5
<1> HIDE DEF a, b
<1>5. /\ a \o b \in Seq(T) /\ Len(a \o b) = Len(s) - 1
      /\ \A j \in 1 .. Len(s) - 1 : (a \o b)[j] = IF j <= i - 1 THEN a[j] ELSE b[j - (i - 1)]
  <2>1. /\ a \o b \in Seq(T) /\ Len(a \o b) = Len(a) + Len(b)
        /\ \A j \in 1 .. Len(a) + Len(b) : (a \o b)[j] = IF j <= Len(a) THEN a[j] ELSE b[j - Len(a)]
    BY <1>3, <1>4, ConcatProperties
  <2>2. Len(a) + Len(b) = Len(s) - 1
    BY <1>1, <1>3, <1>4
  <2> QED BY <1>3, <2>1, <2>2
<1>6. RemoveAt(s, i) = a \o b
  BY DEF RemoveAt, a, b
<1>7. ASSUME NEW j \in 1 .. Len(s) - 1
      PROVE  (a \o b)[j] = IF j < i THEN s[j] ELSE s[j + 1]
  <2>1. CASE j <= i - 1
    <3>1. j \in 1 .. i - 1 /\ j < i
      BY <1>1, <2>1
    <3> QED BY <1>3, <1>5, <2>1, <3>1
  <2>2. CASE ~ (j <= i - 1)
    <3>1. j - (i - 1) \in 1 .. Len(s) - i /\ ~ (j < i) /\ i + (j - (i - 1)) = j + 1
      BY <1>1, <2>2
    <3> QED BY <1>4, <1>5, <2>2, <3>1
  <2> QED BY <2>1, <2>2
<1> QED
  BY <1>1, <1>5, <1>6, <1>7

\* The slots as a sequence.
LEMMA LeavesSeq ==
    ASSUME NEW T, NEW n \in Nat, NEW f
    PROVE  f \in Seq(T) /\ Len(f) = n <=> f \in [1 .. n -> T]
<1>1. ASSUME f \in Seq(T), Len(f) = n
      PROVE  f \in [1 .. n -> T]
  BY <1>1, LenProperties
<1>2. ASSUME f \in [1 .. n -> T]
      PROVE  f \in Seq(T) /\ Len(f) = n
  <2>1. f \in Seq(T) /\ DOMAIN f = 1 .. n
    BY <1>2, SeqDef
  <2> QED BY <2>1, LenProperties
<1> QED
  BY <1>1, <1>2

\* The slots of g are those of f after an insertion, or a removal.
IsInserted(g, f, n, i, e) ==
    \A j \in 1 .. n + 1 : g[j] = IF j < i THEN f[j] ELSE IF j = i THEN e ELSE f[j - 1]
IsRemoved(g, f, n, i) == \A j \in 1 .. n : g[j] = IF j < i THEN f[j] ELSE f[j + 1]

LEMMA SlotInserted ==
    ASSUME NEW T, NEW n \in Nat, NEW f, f \in [1 .. n -> T], NEW i, i \in 1 .. n + 1, NEW e \in T
    PROVE  /\ InsertAt(f, i, e) \in [1 .. n + 1 -> T]
           /\ IsInserted(InsertAt(f, i, e), f, n, i, e)
<1>1. f \in Seq(T) /\ Len(f) = n
  BY LeavesSeq
<1> DEFINE g == InsertAt(f, i, e)
<1>2. ASSUME NEW s \in Seq(T), NEW k \in 1 .. Len(s) + 1
      PROVE  /\ InsertAt(s, k, e) \in Seq(T) /\ Len(InsertAt(s, k, e)) = Len(s) + 1
             /\ \A j \in 1 .. Len(s) + 1 :
                   InsertAt(s, k, e)[j] = IF j < k THEN s[j] ELSE IF j = k THEN e ELSE s[j - 1]
  BY Inserted
<1>3. g \in Seq(T) /\ Len(g) = n + 1
  BY <1>1, <1>2
<1>4. \A j \in 1 .. n + 1 : g[j] = IF j < i THEN f[j] ELSE IF j = i THEN e ELSE f[j - 1]
  BY <1>1, <1>2
<1> HIDE DEF g
<1>5. g \in [1 .. n + 1 -> T]
  BY <1>3, LeavesSeq
<1> QED
  BY <1>4, <1>5 DEF g, IsInserted

LEMMA SlotRemoved ==
    ASSUME NEW T, NEW n \in Nat, NEW f, f \in [1 .. n + 1 -> T], NEW i, i \in 1 .. n + 1
    PROVE  /\ RemoveAt(f, i) \in [1 .. n -> T]
           /\ IsRemoved(RemoveAt(f, i), f, n, i)
<1>1. f \in Seq(T) /\ Len(f) = n + 1
  BY LeavesSeq
<1> DEFINE g == RemoveAt(f, i)
<1>2. ASSUME NEW s \in Seq(T), NEW k \in 1 .. Len(s)
      PROVE  /\ RemoveAt(s, k) \in Seq(T) /\ Len(RemoveAt(s, k)) = Len(s) - 1
             /\ \A j \in 1 .. Len(s) - 1 : RemoveAt(s, k)[j] = IF j < k THEN s[j] ELSE s[j + 1]
  BY Removed
<1>3. n + 1 - 1 = n
  OBVIOUS
<1>4. g \in Seq(T) /\ Len(g) = n
  BY <1>1, <1>2, <1>3
<1>5. \A j \in 1 .. n : g[j] = IF j < i THEN f[j] ELSE f[j + 1]
  <2>1. \A j \in 1 .. Len(f) - 1 : g[j] = IF j < i THEN f[j] ELSE f[j + 1]
    BY <1>1, <1>2
  <2> HIDE DEF g
  <2> QED BY <1>1, <1>3, <2>1
<1> HIDE DEF g
<1>6. g \in [1 .. n -> T]
  BY <1>4, LeavesSeq
<1> QED
  BY <1>5, <1>6 DEF g, IsRemoved

\* The slots after a node has been put into slot i, before they are balanced.
Inserting(leaves, i, n) ==
    LET grown == IF i <= Half THEN InsertAt(leaves, i + 1, n) ELSE InsertAt(leaves, i, n)
        out   == IF i <= Half THEN 1 ELSE numberOfLeaves + 1
        end   == numberOfLeaves + 2 - out
        moved == IF grown[out] # NoNode /\ grown[end] = NoNode
                 THEN [grown EXCEPT ![end] = grown[out]] ELSE grown
    IN  RemoveAt(moved, out)

LEMMA InsertingOK ==
    ASSUME NEW leaves \in [1 .. numberOfLeaves -> Node \cup {NoNode}], NEW i \in 1 .. numberOfLeaves, NEW n \in Node
    PROVE  LET new == Inserting(leaves, i, n)
           IN  /\ new \in [1 .. numberOfLeaves -> Node \cup {NoNode}]
               /\ i <= Half => \A k \in 1 .. numberOfLeaves :
                      new[k] = IF k < i THEN leaves[k + 1]
                               ELSE IF k = i THEN n
                               ELSE IF k = numberOfLeaves /\ leaves[1] # NoNode /\ leaves[k] = NoNode THEN leaves[1]
                               ELSE leaves[k]
               /\ i > Half => \A k \in 1 .. numberOfLeaves :
                      new[k] = IF k = 1 /\ leaves[1] = NoNode /\ leaves[numberOfLeaves] # NoNode
                                  THEN leaves[numberOfLeaves]
                               ELSE IF k < i THEN leaves[k]
                               ELSE IF k = i THEN n
                               ELSE leaves[k - 1]
<1> DEFINE T == Node \cup {NoNode}
           N == numberOfLeaves
           at == IF i <= Half THEN i + 1 ELSE i
           grown == InsertAt(leaves, at, n)
           out   == IF i <= Half THEN 1 ELSE N + 1
           end   == N + 2 - out
           moved == IF grown[out] # NoNode /\ grown[end] = NoNode
                    THEN [grown EXCEPT ![end] = grown[out]] ELSE grown
           new == RemoveAt(moved, out)
<1>1. Half \in Nat \ {0} /\ N = 2 * Half /\ N \in Nat /\ N >= 2
  BY HalfOK
<1>3. at \in 1 .. N + 1 /\ n \in T /\ at \in Int
  BY <1>1
<1>4. /\ grown \in [1 .. N + 1 -> T]
      /\ \A j \in 1 .. N + 1 : grown[j] = IF j < at THEN leaves[j] ELSE IF j = at THEN n ELSE leaves[j - 1]
  <2> HIDE DEF at, T
  <2>1. leaves \in [1 .. N -> T]
    BY DEF T
  <2> HIDE DEF N
  <2>2. N \in Nat /\ at \in 1 .. N + 1 /\ n \in T
    BY <1>1, <1>3
  <2>3. grown \in [1 .. N + 1 -> T]
    BY <2>1, <2>2, SlotInserted
  <2>4. IsInserted(grown, leaves, N, at, n)
    BY <2>1, <2>2, SlotInserted
  <2> HIDE DEF grown
  <2> QED BY <2>3, <2>4 DEF IsInserted
<1>5. new = Inserting(leaves, i, n)
  BY DEF Inserting
<1>6. /\ out \in 1 .. N + 1 /\ end \in 1 .. N + 1 /\ out # end
      /\ out = IF i <= Half THEN 1 ELSE N + 1
      /\ end = IF i <= Half THEN N + 1 ELSE 1
      /\ at = IF i <= Half THEN i + 1 ELSE i
  BY <1>1
<1> HIDE DEF grown, out, end, at
<1>8. moved \in [1 .. N + 1 -> T]
  BY <1>4, <1>6
<1>9. \A j \in 1 .. N + 1 : moved[j] = IF j = end /\ grown[out] # NoNode /\ grown[end] = NoNode
                                       THEN grown[out] ELSE grown[j]
  BY <1>4, <1>6
<1> HIDE DEF moved
<1>11. /\ new \in [1 .. N -> T]
       /\ \A j \in 1 .. N : new[j] = IF j < out THEN moved[j] ELSE moved[j + 1]
  <2> HIDE DEF N, T
  <2>1. N \in Nat /\ out \in 1 .. N + 1
    BY <1>1, <1>6
  <2>2. new \in [1 .. N -> T]
    BY <1>8, <2>1, SlotRemoved
  <2>3. IsRemoved(new, moved, N, out)
    BY <1>8, <2>1, SlotRemoved
  <2> HIDE DEF new
  <2> QED BY <2>2, <2>3 DEF IsRemoved
<1> HIDE DEF new
<1>13. ASSUME i <= Half, NEW k \in 1 .. N
       PROVE  new[k] = IF k < i THEN leaves[k + 1]
                       ELSE IF k = i THEN n
                       ELSE IF k = N /\ leaves[1] # NoNode /\ leaves[k] = NoNode THEN leaves[1]
                       ELSE leaves[k]
  <2>1. new[k] = moved[k + 1] /\ out = 1 /\ end = N + 1 /\ at = i + 1 /\ k + 1 \in 1 .. N + 1
    BY <1>1, <1>6, <1>11, <1>13
  <2>2. grown[1] = leaves[1] /\ grown[N + 1] = leaves[N]
    <3>1. 1 < i + 1 /\ ~(N + 1 < i + 1) /\ N + 1 # i + 1 /\ N + 1 - 1 = N /\ 1 \in 1 .. N + 1 /\ N + 1 \in 1 .. N + 1
      BY <1>1, <1>13
    <3>2. grown[1] = IF 1 < at THEN leaves[1] ELSE IF 1 = at THEN n ELSE leaves[1 - 1]
      BY <1>4, <3>1
    <3> DEFINE q == N + 1
    <3>3. q \in 1 .. N + 1 /\ ~(q < at) /\ q # at /\ q - 1 = N
      BY <1>1, <2>1, <3>1
    <3> HIDE DEF q
    <3>4. grown[q] = leaves[q - 1]
      BY <1>4, <3>3
    <3>5. grown[q] = leaves[N]
      BY <3>3, <3>4
    <3> QED BY <2>1, <3>1, <3>2, <3>5 DEF q
  <2>3. grown[k + 1] = IF k < i THEN leaves[k + 1] ELSE IF k = i THEN n ELSE leaves[k]
    <3>1. (k + 1 < i + 1 <=> k < i) /\ (k + 1 = i + 1 <=> k = i) /\ k + 1 - 1 = k
      BY <1>1
    <3> QED BY <1>4, <2>1, <3>1
  <2>4. (k + 1 = N + 1 <=> k = N) /\ (k = N => ~(k < i) /\ k # i)
    BY <1>1, <1>13
  <2> QED BY <1>9, <2>1, <2>2, <2>3, <2>4
<1>14. ASSUME i > Half, NEW k \in 1 .. N
       PROVE  new[k] = IF k = 1 /\ leaves[1] = NoNode /\ leaves[N] # NoNode THEN leaves[N]
                       ELSE IF k < i THEN leaves[k]
                       ELSE IF k = i THEN n
                       ELSE leaves[k - 1]
  <2>1. new[k] = moved[k] /\ out = N + 1 /\ end = 1 /\ at = i /\ k \in 1 .. N + 1
    BY <1>1, <1>6, <1>11, <1>14
  <2>2. grown[1] = leaves[1] /\ grown[N + 1] = leaves[N]
    <3>1. 1 < i /\ ~(N + 1 < i) /\ N + 1 # i /\ N + 1 - 1 = N /\ 1 \in 1 .. N + 1 /\ N + 1 \in 1 .. N + 1
      BY <1>1, <1>14
    <3>2. grown[1] = IF 1 < at THEN leaves[1] ELSE IF 1 = at THEN n ELSE leaves[1 - 1]
      BY <1>4, <3>1
    <3> DEFINE q == N + 1
    <3>3. q \in 1 .. N + 1 /\ ~(q < at) /\ q # at /\ q - 1 = N
      BY <1>1, <2>1, <3>1
    <3> HIDE DEF q
    <3>4. grown[q] = leaves[q - 1]
      BY <1>4, <3>3
    <3>5. grown[q] = leaves[N]
      BY <3>3, <3>4
    <3> QED BY <2>1, <3>1, <3>2, <3>5 DEF q
  <2>3. grown[k] = IF k < i THEN leaves[k] ELSE IF k = i THEN n ELSE leaves[k - 1]
    BY <1>4, <2>1
  <2> QED BY <1>9, <2>1, <2>2, <2>3
<1> QED
  BY <1>5, <1>11, <1>13, <1>14

\* Balancing moves a leaf if one half has two more than the other.
LEMMA GapsOK ==
    ASSUME NEW leaves, NEW l, NEW r, Slots(leaves, l, r), ~IsFull(leaves)
    PROVE  Max({i \in 1 .. Half : Free(leaves, i) \/ Free(leaves, numberOfLeaves + 1 - i)})
               = IF l <= r THEN Half - l ELSE Half - r
<1>1. numberOfLeaves = 2 * Half /\ Half \in Nat \ {0} /\ l \in 0 .. Half /\ r \in 0 .. Half
  BY HalfOK DEF Slots
<1> DEFINE S == {i \in 1 .. Half : Free(leaves, i) \/ Free(leaves, numberOfLeaves + 1 - i)}
           g == IF l <= r THEN Half - l ELSE Half - r
<1>2. \A i \in 1 .. Half : i \in S <=> i <= g
  <2> SUFFICES ASSUME NEW i \in 1 .. Half
               PROVE  i \in S <=> i <= g
    OBVIOUS
  <2>1. i \in 1 .. numberOfLeaves /\ numberOfLeaves + 1 - i \in 1 .. numberOfLeaves
    BY <1>1
  <2>2. /\ Free(leaves, i) <=> ~(Half - l < i /\ i <= Half + r)
        /\ Free(leaves, numberOfLeaves + 1 - i) <=>
               ~(Half - l < numberOfLeaves + 1 - i /\ numberOfLeaves + 1 - i <= Half + r)
    BY <2>1 DEF Slots, Free
  <2> QED BY <1>1, <2>2
<1>3. g \in 1 .. Half
  <2>1. ~(l = Half /\ r = Half)
    BY <1>1 DEF Slots, IsFull, Free
  <2> QED BY <1>1, <2>1
<1>4. S \in SUBSET (1 .. Half) /\ g \in S
  BY <1>2, <1>3
<1> HIDE DEF S, g
<1>5. Max(S) \in S /\ g <= Max(S)
  BY <1>1, <1>4, Greatest
<1>6. Max(S) <= g /\ Max(S) \in Int /\ g \in Int
  <2>1. Max(S) \in 1 .. Half /\ g \in 1 .. Half
    BY <1>3, <1>4, <1>5
  <2> QED BY <1>1, <1>2, <1>5, <2>1
<1>7. Max(S) = g
  BY <1>5, <1>6
<1> QED
  BY <1>7 DEF S, g

LEMMA BalancedOK ==
    ASSUME NEW leaves, NEW l, NEW r, Slots(leaves, l, r), Balance(l, r, 2)
    PROVE  LET x == IF l = r + 2 THEN l - 1 ELSE IF r = l + 2 THEN l + 1 ELSE l
               y == IF l = r + 2 THEN r + 1 ELSE IF r = l + 2 THEN r - 1 ELSE r
           IN  /\ Slots(Balanced(leaves), x, y) /\ Balance(x, y, 1)
               /\ Leaves(Balanced(leaves)) = Leaves(leaves)
<1> DEFINE N == numberOfLeaves
           S == {i \in 1 .. Half : Free(leaves, i) \/ Free(leaves, N + 1 - i)}
           g == Max(S)
           o == N + 1 - g
           moved(to, from) == [leaves EXCEPT ![to] = leaves[from], ![from] = NoNode]
           x == IF l = r + 2 THEN l - 1 ELSE IF r = l + 2 THEN l + 1 ELSE l
           y == IF l = r + 2 THEN r + 1 ELSE IF r = l + 2 THEN r - 1 ELSE r
           new == Balanced(leaves)
<1>1. /\ N = 2 * Half /\ Half \in Nat \ {0} /\ l \in 0 .. Half /\ r \in 0 .. Half /\ N \in Nat
      /\ l - r <= 2 /\ r - l <= 2
      /\ leaves \in [1 .. N -> Node \cup {NoNode}]
  BY HalfOK DEF Slots, Balance
<1>2. /\ x \in 0 .. Half /\ y \in 0 .. Half /\ Balance(x, y, 1)
  BY <1>1 DEF Balance
<1>3. \A i \in 1 .. N : leaves[i] # NoNode <=> Half - l < i /\ i <= Half + r
  BY DEF Slots
<1>4. \A i, j \in 1 .. N : leaves[i] # NoNode /\ leaves[j] # NoNode /\ Before(i, j) => leaves[i] < leaves[j]
  BY DEF Slots
<1>5. \A i \in 1 .. N : Free(leaves, i) <=> leaves[i] = NoNode
  BY DEF Free
<1>6. ~IsFull(leaves) => g = IF l <= r THEN Half - l ELSE Half - r
  BY GapsOK
<1>7. IsFull(leaves) <=> l = Half /\ r = Half
  BY <1>1 DEF Slots, IsFull, Free
<1>8. new = IF \/ IsFull(leaves)
               \/ ~Free(leaves, 1) /\ ~Free(leaves, N - 1)
               \/ ~Free(leaves, N) /\ ~Free(leaves, 2)
            THEN leaves
            ELSE IF Free(leaves, g)
            THEN IF Free(leaves, o) \/ o = N \/ Free(leaves, o + 1) THEN leaves
                 ELSE moved(g, o + 1)
            ELSE IF g = 1 \/ Free(leaves, g - 1) THEN leaves ELSE moved(o, g - 1)
  BY DEF Balanced
<1> HIDE DEF S, new, g
<1>9. CASE l - r <= 1 /\ r - l <= 1
  <2>1. x = l /\ y = r
    BY <1>1, <1>9
  <2>2. new = leaves
    <3>1. CASE IsFull(leaves)
      BY <1>8, <3>1
    <3>2. CASE ~IsFull(leaves) /\ l <= r
      <4>1. g = Half - l /\ o = Half + 1 + l /\ l < Half
        BY <1>1, <1>6, <1>7, <1>9, <3>2
      <4>2. g \in 1 .. N /\ o \in 1 .. N /\ (o # N => o + 1 \in 1 .. N)
        BY <1>1, <4>1
      <4>3. Free(leaves, g) /\ (Free(leaves, o) \/ o = N \/ Free(leaves, o + 1))
        BY <1>1, <1>3, <1>5, <1>9, <4>1, <4>2
      <4> QED BY <1>8, <4>3
    <3>3. CASE ~IsFull(leaves) /\ ~(l <= r)
      <4>1. g = Half - r /\ r < Half
        BY <1>1, <1>6, <1>7, <1>9, <3>3
      <4>2. g \in 1 .. N /\ (g # 1 => g - 1 \in 1 .. N)
        BY <1>1, <4>1
      <4>3. ~Free(leaves, g) /\ (g = 1 \/ Free(leaves, g - 1))
        BY <1>1, <1>3, <1>5, <1>9, <3>3, <4>1, <4>2
      <4> QED BY <1>8, <4>3
    <3> QED BY <3>1, <3>2, <3>3
  <2> QED BY <1>2, <2>1, <2>2 DEF new
<1>10. ASSUME NEW to \in 1 .. N, NEW from \in 1 .. N, to # from, leaves[to] = NoNode, leaves[from] # NoNode,
             new = moved(to, from),
             \A i \in 1 .. N : i # to /\ i # from =>
                 /\ Half - l < i /\ i <= Half + r <=> Half - x < i /\ i <= Half + y
                 /\ leaves[i] # NoNode => (Before(i, to) => Before(i, from)) /\ (Before(to, i) => Before(from, i)),
             Half - x < to /\ to <= Half + y, ~(Half - x < from /\ from <= Half + y),
             ~Before(to, to)
       PROVE  Slots(new, x, y) /\ Leaves(new) = Leaves(leaves)
  <2>1. /\ new \in [1 .. N -> Node \cup {NoNode}]
        /\ \A i \in 1 .. N : new[i] = IF i = from THEN NoNode ELSE IF i = to THEN leaves[from] ELSE leaves[i]
    BY <1>1, <1>10
  <2> HIDE DEF x, y
  <2>2. \A i \in 1 .. N : new[i] # NoNode <=> Half - x < i /\ i <= Half + y
    BY <1>3, <1>10, <2>1
  <2>3. \A i, j \in 1 .. N : new[i] # NoNode /\ new[j] # NoNode /\ Before(i, j) => new[i] < new[j]
    BY <1>4, <1>10, <2>1
  <2>4. Slots(new, x, y)
    BY <1>2, <2>1, <2>2, <2>3 DEF Slots
  <2>5. Leaves(new) = Leaves(leaves)
    <3>1. \A n : n \in Leaves(leaves) <=> n # NoNode /\ \E i \in 1 .. N : leaves[i] = n
      BY SlotsOK
    <3>2. \A n : n \in Leaves(new) <=> n # NoNode /\ \E i \in 1 .. N : new[i] = n
      BY <2>4, SlotsOK
    <3>3. ASSUME NEW n, n # NoNode
          PROVE  (\E i \in 1 .. N : leaves[i] = n) <=> (\E i \in 1 .. N : new[i] = n)
      BY <1>10, <2>1, <3>3
    <3> QED BY <3>1, <3>2, <3>3
  <2> QED BY <2>4, <2>5
<1>11. CASE r = l + 2
  <2>1. x = l + 1 /\ y = l + 1 /\ ~IsFull(leaves) /\ g = Half - l /\ o = Half + 1 + l /\ l + 2 <= Half
    BY <1>1, <1>6, <1>7, <1>11
  <2>2. g \in 1 .. N /\ o \in 1 .. N /\ o + 1 \in 1 .. N /\ o # N /\ 1 \in 1 .. N /\ 2 \in 1 .. N
    BY <1>1, <2>1
  <2>3. leaves[g] = NoNode /\ leaves[o] # NoNode /\ leaves[o + 1] # NoNode /\ leaves[1] = NoNode /\ leaves[2] = NoNode
    BY <1>1, <1>3, <1>11, <2>1, <2>2
  <2>4. new = moved(g, o + 1)
    BY <1>5, <1>8, <2>1, <2>2, <2>3
  <2>5. \A i \in 1 .. N : i # g /\ i # o + 1 =>
                 /\ Half - l < i /\ i <= Half + r <=> Half - x < i /\ i <= Half + y
                 /\ leaves[i] # NoNode => (Before(i, g) => Before(i, o + 1)) /\ (Before(g, i) => Before(o + 1, i))
    BY <1>1, <1>3, <1>11, <2>1 DEF Before
  <2>6. Half - x < g /\ g <= Half + y /\ ~(Half - x < o + 1 /\ o + 1 <= Half + y) /\ g # o + 1 /\ ~Before(g, g)
    BY <1>1, <1>11, <2>1 DEF Before
  <2> QED BY <1>2, <1>10, <2>2, <2>3, <2>4, <2>5, <2>6 DEF new
<1>12. CASE l = r + 2
  <2>1. x = r + 1 /\ y = r + 1 /\ ~IsFull(leaves) /\ g = Half - r /\ o = Half + 1 + r /\ r + 2 <= Half
    BY <1>1, <1>6, <1>7, <1>12
  <2>2. g \in 1 .. N /\ g - 1 \in 1 .. N /\ o \in 1 .. N /\ g # 1 /\ N \in 1 .. N /\ N - 1 \in 1 .. N
    BY <1>1, <2>1
  <2>3. leaves[g] # NoNode /\ leaves[g - 1] # NoNode /\ leaves[o] = NoNode /\ leaves[N] = NoNode /\ leaves[N - 1] = NoNode
    BY <1>1, <1>3, <1>12, <2>1, <2>2
  <2>4. new = moved(o, g - 1)
    BY <1>5, <1>8, <2>1, <2>2, <2>3
  <2>5. \A i \in 1 .. N : i # o /\ i # g - 1 =>
                 /\ Half - l < i /\ i <= Half + r <=> Half - x < i /\ i <= Half + y
                 /\ leaves[i] # NoNode => (Before(i, o) => Before(i, g - 1)) /\ (Before(o, i) => Before(g - 1, i))
    BY <1>1, <1>3, <1>12, <2>1 DEF Before
  <2>6. Half - x < o /\ o <= Half + y /\ ~(Half - x < g - 1 /\ g - 1 <= Half + y) /\ o # g - 1 /\ ~Before(o, o)
    BY <1>1, <1>12, <2>1 DEF Before
  <2> QED BY <1>2, <1>10, <2>2, <2>3, <2>4, <2>5, <2>6 DEF new
<1>13. (l - r <= 1 /\ r - l <= 1) \/ r = l + 2 \/ l = r + 2
  BY <1>1
<1> QED
  BY <1>9, <1>11, <1>12, <1>13

\* Where a node belongs: between the leaves before and after it, in either half, or nowhere.
Fits(leaves, l, r, n, q) ==
    /\ q = 0 => l = Half /\ r = Half /\ leaves[numberOfLeaves] < n /\ n < leaves[1]
    /\ q \in 0 .. numberOfLeaves
    /\ q # 0 => Half - l <= q /\ q <= Half + r + 1
    /\ q # 0 => \A k \in 1 .. numberOfLeaves : leaves[k] # NoNode =>
          IF q <= Half THEN IF k <= q \/ k > Half THEN leaves[k] < n ELSE n < leaves[k]
          ELSE IF k >= q \/ k <= Half THEN n < leaves[k] ELSE leaves[k] < n

LEMMA PlaceOK ==
    ASSUME NEW leaves, NEW l, NEW r, Slots(leaves, l, r), Balance(l, r, 1), NEW n \in Node, n \notin Leaves(leaves)
    PROVE  Fits(leaves, l, r, n, Place(leaves, n))
<1> DEFINE N == numberOfLeaves
           right(i)  == N + 1 - i
           lastL(i)  == IF i = Half THEN Self ELSE leaves[i + 1]
           lastR(i)  == IF i = Half THEN Self ELSE leaves[right(i) - 1]
           onLeft(i) == \/ IsBetween(n, leaves[i], lastL(i))
                        \/ Free(leaves, i) /\ ~IsBetween(n, lastR(i), leaves[right(i)])
           onRight(i) == \/ IsBetween(n, lastR(i), leaves[right(i)])
                         \/ Free(leaves, right(i)) /\ ~IsBetween(n, leaves[i], lastL(i))
           fits == {i \in 1 .. Half : onLeft(i) \/ onRight(i)}
           g == IF fits = {} THEN 0 ELSE Max(fits)
<1>1. /\ N = 2 * Half /\ Half \in Nat \ {0} /\ l \in 0 .. Half /\ r \in 0 .. Half /\ N \in Nat
      /\ l - r <= 1 /\ r - l <= 1 /\ n \in Nat /\ n > 0 /\ n # NoNode /\ NoNode = -1 /\ Self = 0
  BY HalfOK, NodeType DEF Slots, Balance
<1>2. \A i \in 1 .. N : leaves[i] # NoNode <=> Half - l < i /\ i <= Half + r
  BY DEF Slots
<1>3. \A i, j \in 1 .. N : leaves[i] # NoNode /\ leaves[j] # NoNode /\ Before(i, j) => leaves[i] < leaves[j]
  BY DEF Slots
<1>4. \A i \in 1 .. N : leaves[i] = NoNode \/ (leaves[i] \in Nat /\ leaves[i] > 0)
  BY SlotsOK
<1>5. \A i \in 1 .. N : leaves[i] # n
  BY <1>1, SlotsOK
<1>6. g \in 0 .. Half /\ (g # 0 => g \in fits) /\ \A i \in fits : i <= g
  <2>1. fits \in SUBSET (1 .. Half)
    OBVIOUS
  <2> HIDE DEF fits
  <2>2. fits # {} => Max(fits) \in fits /\ \A i \in fits : i <= Max(fits)
    BY <1>1, <2>1, Greatest
  <2>3. CASE fits = {}
    BY <1>1, <2>3
  <2>4. CASE fits # {}
    <3>1. g = Max(fits)
      BY <2>4
    <3> HIDE DEF g
    <3>2. g \in 1 .. Half
      BY <2>1, <2>2, <2>4, <3>1
    <3> QED BY <1>1, <2>2, <2>4, <3>1, <3>2
  <2> QED BY <2>3, <2>4
<1>7. \A i \in 1 .. Half : i > g => ~onLeft(i) /\ ~onRight(i)
  <2>1. \A i \in 1 .. Half : i > g => i \notin fits
    <3> HIDE DEF fits, g
    <3> QED BY <1>1, <1>6
  <2> QED BY <2>1
<1>8. Place(leaves, n) = IF g = 0 THEN 0 ELSE IF onLeft(g) THEN g ELSE right(g)
  <2>1. Place(leaves, n) = IF fits = {} THEN 0 ELSE IF onLeft(Max(fits)) THEN Max(fits) ELSE right(Max(fits))
    BY DEF Place
  <2>2. fits # {} => g # 0
    <3> HIDE DEF fits
    <3>1. fits # {} => Max(fits) \in 1 .. Half
      BY <1>1, Greatest DEF fits
    <3> QED BY <1>1, <3>1
  <2>3. fits # {} => g = Max(fits)
    OBVIOUS
  <2>4. fits = {} => g = 0
    OBVIOUS
  <2> HIDE DEF fits, g
  <2> QED BY <2>1, <2>2, <2>3, <2>4
<1> HIDE DEF g, fits
\* All slots nearer to the middle than g are taken, and n belongs beyond them.
<1>9. \A i \in 1 .. Half : i > g /\ leaves[i] # NoNode => n < leaves[i]
  <2> DEFINE S == {i \in 1 .. Half : i > g /\ leaves[i] # NoNode /\ leaves[i] < n}
  <2>1. ASSUME S # {}
        PROVE  FALSE
    <3>1. S \in SUBSET (1 .. Half)
      OBVIOUS
    <3>2. PICK k \in S : \A i \in S : i <= k
      <4> HIDE DEF S
      <4> QED BY <1>1, <2>1, <3>1, Greatest
    <3>3. k \in 1 .. Half /\ k > g /\ leaves[k] # NoNode /\ leaves[k] < n /\ leaves[k] \in Nat /\ k \in 1 .. N
      BY <1>1, <1>4, <3>2
    <3>4. ~IsBetween(n, leaves[k], lastL(k))
      BY <1>7, <3>3
    <3>5. CASE k = Half
      BY <1>1, <3>3, <3>4, <3>5 DEF IsBetween
    <3>6. CASE k # Half
      <4>1. k + 1 \in 1 .. Half /\ k + 1 > g /\ k + 1 \in 1 .. N
        BY <1>1, <1>6, <3>3, <3>6
      <4>2. leaves[k + 1] # NoNode /\ leaves[k + 1] \in Nat
        BY <1>1, <1>2, <1>4, <3>3, <4>1
      <4>3. k + 1 \notin S
        <5> HIDE DEF S
        <5> QED BY <3>2, <3>3
      <4>4. leaves[k + 1] > n
        BY <1>1, <1>5, <4>1, <4>2, <4>3
      <4> QED BY <1>1, <3>3, <3>4, <3>6, <4>2, <4>4 DEF IsBetween
    <3> QED BY <3>3, <3>5, <3>6
  <2>2. \A i \in 1 .. Half : leaves[i] # NoNode => leaves[i] \in Nat /\ leaves[i] # n
    BY <1>1, <1>4, <1>5
  <2> QED BY <1>1, <2>1, <2>2
<1>10. \A i \in 1 .. Half : i > g /\ leaves[right(i)] # NoNode => leaves[right(i)] < n
  <2> DEFINE S == {i \in 1 .. Half : i > g /\ leaves[right(i)] # NoNode /\ n < leaves[right(i)]}
  <2>1. ASSUME S # {}
        PROVE  FALSE
    <3>1. S \in SUBSET (1 .. Half)
      OBVIOUS
    <3>2. PICK k \in S : \A i \in S : i <= k
      <4> HIDE DEF S
      <4> QED BY <1>1, <2>1, <3>1, Greatest
    <3>3. k \in 1 .. Half /\ k > g /\ right(k) \in 1 .. N
      BY <1>1, <3>2
    <3>4. leaves[right(k)] # NoNode /\ n < leaves[right(k)] /\ leaves[right(k)] \in Nat
      BY <1>1, <1>4, <3>2, <3>3
    <3>5. ~IsBetween(n, lastR(k), leaves[right(k)])
      BY <1>7, <3>3
    <3>6. CASE k = Half
      BY <1>1, <3>3, <3>4, <3>5, <3>6 DEF IsBetween
    <3>7. CASE k # Half
      <4>1. k + 1 \in 1 .. Half /\ k + 1 > g /\ right(k) - 1 \in 1 .. N /\ right(k + 1) = right(k) - 1
        BY <1>1, <1>6, <3>3, <3>7
      <4>2. leaves[right(k) - 1] # NoNode /\ leaves[right(k) - 1] \in Nat
        BY <1>1, <1>2, <1>4, <3>3, <3>4, <4>1
      <4>3. k + 1 \notin S
        <5> HIDE DEF S
        <5> QED BY <3>2, <3>3
      <4>4. ~(n < leaves[right(k + 1)])
        BY <4>1, <4>2, <4>3
      <4>5. leaves[right(k) - 1] < n
        BY <1>1, <1>5, <4>1, <4>2, <4>4
      <4> QED BY <1>1, <3>3, <3>4, <3>5, <3>7, <4>2, <4>5 DEF IsBetween
    <3> QED BY <3>6, <3>7
  <2>2. \A i \in 1 .. Half : leaves[right(i)] # NoNode => leaves[right(i)] \in Nat /\ leaves[right(i)] # n
    <3>1. \A i \in 1 .. Half : right(i) \in 1 .. N
      BY <1>1
    <3> QED BY <1>1, <1>4, <1>5, <3>1
  <2> QED BY <1>1, <2>1, <2>2
<1>11. ASSUME NEW i \in 1 .. Half, i > g
       PROVE  leaves[i] # NoNode /\ leaves[right(i)] # NoNode
  <2>1. ~onLeft(i) /\ ~onRight(i)
    BY <1>7, <1>11
  <2> QED BY <2>1 DEF Free

<1>12. Half - l <= g /\ Half - r <= g
  <2>1. CASE g = Half
    BY <1>1, <2>1
  <2>2. CASE g # Half
    <3>1. g + 1 \in 1 .. Half /\ g + 1 > g /\ g + 1 \in 1 .. N /\ right(g + 1) \in 1 .. N
      BY <1>1, <1>6, <2>2
    <3>2. leaves[g + 1] # NoNode /\ leaves[right(g + 1)] # NoNode
      BY <1>11, <3>1
    <3> QED BY <1>1, <1>2, <1>6, <3>1, <3>2
  <2> QED BY <2>1, <2>2
<1>13. CASE g = 0
  <2>1. Place(leaves, n) = 0 /\ l = Half /\ r = Half
    BY <1>1, <1>8, <1>12, <1>13
  <2>2. 1 \in 1 .. Half /\ right(1) = N /\ 1 > g
    BY <1>1, <1>13
  <2>3. leaves[N] < n /\ n < leaves[1]
    BY <1>9, <1>10, <1>11, <2>2
  <2> QED BY <1>1, <2>1, <2>3 DEF Fits
<1>14. CASE g # 0
  <2>1. g \in 1 .. Half /\ g \in 1 .. N /\ right(g) \in 1 .. N /\ g \in Int /\ right(g) > Half
    BY <1>1, <1>6, <1>14
  <2>2. onLeft(g) \/ onRight(g)
    BY <1>6, <1>14 DEF fits
  <2>3. g # Half => /\ leaves[g + 1] # NoNode /\ leaves[right(g) - 1] # NoNode
                    /\ n < leaves[g + 1] /\ leaves[right(g) - 1] < n
                    /\ g + 1 \in 1 .. N /\ right(g) - 1 \in 1 .. N
                    /\ leaves[g + 1] \in Nat /\ leaves[right(g) - 1] \in Nat
    <3> SUFFICES ASSUME g # Half
                 PROVE  /\ leaves[g + 1] # NoNode /\ leaves[right(g) - 1] # NoNode
                        /\ n < leaves[g + 1] /\ leaves[right(g) - 1] < n
                        /\ g + 1 \in 1 .. N /\ right(g) - 1 \in 1 .. N
                        /\ leaves[g + 1] \in Nat /\ leaves[right(g) - 1] \in Nat
      OBVIOUS
    <3>1. /\ g + 1 \in 1 .. Half /\ g + 1 > g /\ right(g + 1) = right(g) - 1
          /\ g + 1 \in 1 .. N /\ right(g) - 1 \in 1 .. N
      BY <1>1, <2>1
    <3>2. leaves[g + 1] # NoNode /\ leaves[right(g + 1)] # NoNode
      BY <1>11, <3>1
    <3>3. n < leaves[g + 1] /\ leaves[right(g + 1)] < n
      BY <1>9, <1>10, <3>1, <3>2
    <3> QED BY <1>1, <1>4, <3>1, <3>2, <3>3
  <2>4. CASE onLeft(g)
    <3>1. Place(leaves, n) = g
      BY <1>8, <1>14, <2>4
    <3>2. leaves[g] # NoNode => leaves[g] < n
      <4> SUFFICES ASSUME leaves[g] # NoNode
                   PROVE  leaves[g] < n
        OBVIOUS
      <4>1. IsBetween(n, leaves[g], lastL(g)) /\ leaves[g] \in Nat
        BY <1>4, <1>1, <2>1, <2>4 DEF Free
      <4>2. CASE g = Half
        BY <1>1, <4>1, <4>2 DEF IsBetween
      <4>3. CASE g # Half
        <5>1. Before(g, g + 1)
          BY <1>1, <2>1, <4>3 DEF Before
        <5>2. leaves[g] < leaves[g + 1]
          BY <1>3, <2>1, <2>3, <4>3, <5>1
        <5> QED BY <1>1, <2>3, <4>1, <4>3, <5>2 DEF IsBetween
      <4> QED BY <4>2, <4>3
    <3>3. leaves[g] = NoNode /\ leaves[right(g)] # NoNode => leaves[right(g)] < n
      <4> SUFFICES ASSUME leaves[g] = NoNode, leaves[right(g)] # NoNode
                   PROVE  leaves[right(g)] < n
        OBVIOUS
      <4>1. ~IsBetween(n, lastR(g), leaves[right(g)]) /\ leaves[right(g)] \in Nat /\ leaves[right(g)] > 0 /\ leaves[right(g)] # n
        BY <1>1, <1>4, <1>5, <2>1, <2>4 DEF IsBetween, Free
      <4>2. CASE g = Half
        BY <1>1, <4>1, <4>2 DEF IsBetween
      <4>3. CASE g # Half
        <5>1. Before(right(g) - 1, right(g))
          BY <1>1, <2>1, <4>3 DEF Before
        <5>2. leaves[right(g) - 1] < leaves[right(g)]
          BY <1>3, <2>1, <2>3, <4>3, <5>1
        <5> QED BY <1>1, <2>3, <4>1, <4>3, <5>2 DEF IsBetween
      <4> QED BY <4>2, <4>3
    <3>4. ASSUME NEW k \in 1 .. N, leaves[k] # NoNode
          PROVE  IF k <= g \/ k > Half THEN leaves[k] < n ELSE n < leaves[k]
      <4>1. CASE k = g
        <5>1. k <= g /\ leaves[k] < n
          BY <2>1, <3>2, <3>4, <4>1
        <5> QED BY <5>1
      <4>2. CASE k < g
        <5>1. leaves[g] # NoNode /\ Before(k, g)
          BY <1>1, <1>2, <2>1, <3>4, <4>2 DEF Before
        <5>2. leaves[k] < leaves[g] /\ leaves[g] < n /\ leaves[k] \in Nat /\ leaves[g] \in Nat
          BY <1>1, <1>3, <1>4, <2>1, <3>2, <3>4, <5>1
        <5> QED BY <1>1, <2>1, <4>2, <5>2
      <4>3. CASE k > g /\ k <= Half
        <5>1. k \in 1 .. Half /\ ~(k <= g) /\ ~(k > Half) /\ k \in Int
          BY <1>1, <2>1, <4>3
        <5>2. n < leaves[k]
          BY <1>9, <3>4, <4>3, <5>1
        <5> QED BY <5>1, <5>2
      <4>4. CASE k > Half
        <5>1. CASE leaves[g] # NoNode
          <6>1. Before(k, g)
            BY <1>1, <2>1, <4>4 DEF Before
          <6>2. leaves[k] < leaves[g] /\ leaves[g] < n /\ leaves[k] \in Nat /\ leaves[g] \in Nat
            BY <1>1, <1>3, <1>4, <2>1, <3>2, <3>4, <5>1, <6>1
          <6> QED BY <1>1, <4>4, <6>2
        <5>2. CASE leaves[g] = NoNode
          <6>1. l = Half - g /\ k <= right(g)
            BY <1>1, <1>2, <1>12, <2>1, <3>4, <5>2
          <6>2. CASE k = right(g)
            BY <3>3, <3>4, <4>4, <5>2, <6>2
          <6>3. CASE k < right(g)
            <7>1. right(k) \in 1 .. Half /\ right(k) > g /\ right(right(k)) = k
              BY <1>1, <2>1, <4>4, <6>3
            <7>2. ASSUME NEW i \in 1 .. Half, i > g, right(i) = k
                  PROVE  leaves[k] < n
              BY <1>10, <3>4, <7>2
            <7>3. leaves[k] < n
              BY <7>1, <7>2
            <7> QED BY <4>4, <7>3
          <6>4. right(g) \in Int
            BY <1>1, <2>1
          <6> QED BY <6>1, <6>2, <6>3, <6>4
        <5> QED BY <5>1, <5>2
      <4> QED BY <1>1, <2>1, <4>1, <4>2, <4>3, <4>4
    <3> HIDE DEF right
    <3> QED BY <1>1, <1>12, <1>14, <2>1, <3>1, <3>4 DEF Fits
  <2>5. CASE ~onLeft(g)
    <3>1. Place(leaves, n) = right(g) /\ onRight(g)
      BY <1>8, <1>14, <2>2, <2>5
    <3>2. leaves[right(g)] # NoNode => n < leaves[right(g)]
      <4> SUFFICES ASSUME leaves[right(g)] # NoNode
                   PROVE  n < leaves[right(g)]
        OBVIOUS
      <4>1. IsBetween(n, lastR(g), leaves[right(g)]) /\ leaves[right(g)] \in Nat /\ leaves[right(g)] > 0
        BY <1>4, <1>1, <2>1, <3>1 DEF Free
      <4>2. CASE g = Half
        BY <1>1, <4>1, <4>2 DEF IsBetween
      <4>3. CASE g # Half
        <5>1. Before(right(g) - 1, right(g))
          BY <1>1, <2>1, <4>3 DEF Before
        <5>2. leaves[right(g) - 1] < leaves[right(g)]
          BY <1>3, <2>1, <2>3, <4>3, <5>1
        <5> QED BY <1>1, <2>3, <4>1, <4>3, <5>2 DEF IsBetween
      <4> QED BY <4>2, <4>3
    <3>3. leaves[right(g)] = NoNode /\ leaves[g] # NoNode => n < leaves[g]
      <4> SUFFICES ASSUME leaves[right(g)] = NoNode, leaves[g] # NoNode
                   PROVE  n < leaves[g]
        OBVIOUS
      <4>1. ~IsBetween(n, leaves[g], lastL(g)) /\ leaves[g] \in Nat /\ leaves[g] > 0 /\ leaves[g] # n
        BY <1>1, <1>4, <1>5, <2>1, <2>5, <3>1 DEF IsBetween, Free
      <4>2. CASE g = Half
        BY <1>1, <4>1, <4>2 DEF IsBetween
      <4>3. CASE g # Half
        <5>1. Before(g, g + 1)
          BY <1>1, <2>1, <4>3 DEF Before
        <5>2. leaves[g] < leaves[g + 1]
          BY <1>3, <2>1, <2>3, <4>3, <5>1
        <5> QED BY <1>1, <2>3, <4>1, <4>3, <5>2 DEF IsBetween
      <4> QED BY <4>2, <4>3
    <3>4. ASSUME NEW k \in 1 .. N, leaves[k] # NoNode
          PROVE  IF k >= right(g) \/ k <= Half THEN n < leaves[k] ELSE leaves[k] < n
      <4>1. CASE k = right(g)
        <5>1. k >= right(g) /\ n < leaves[k]
          BY <2>1, <3>2, <3>4, <4>1
        <5> QED BY <5>1
      <4>2. CASE k > right(g)
        <5>1. leaves[right(g)] # NoNode /\ Before(right(g), k)
          BY <1>1, <1>2, <2>1, <3>4, <4>2 DEF Before
        <5>2. leaves[right(g)] < leaves[k] /\ n < leaves[right(g)] /\ leaves[k] \in Nat /\ leaves[right(g)] \in Nat
          BY <1>1, <1>3, <1>4, <2>1, <3>2, <3>4, <5>1
        <5> QED BY <1>1, <2>1, <4>2, <5>2
      <4>3. CASE k < right(g) /\ k > Half
        <5>1. right(k) \in 1 .. Half /\ right(k) > g /\ right(right(k)) = k
          BY <1>1, <2>1, <4>3
        <5>2. ASSUME NEW i \in 1 .. Half, i > g, right(i) = k
              PROVE  leaves[k] < n
          BY <1>10, <3>4, <5>2
        <5>3. leaves[k] < n
          BY <5>1, <5>2
        <5>4. ~(k >= right(g)) /\ ~(k <= Half)
          BY <1>1, <2>1, <4>3
        <5> QED BY <5>3, <5>4
      <4>4. CASE k <= Half
        <5>1. CASE leaves[right(g)] # NoNode
          <6>1. Before(right(g), k)
            BY <1>1, <2>1, <4>4 DEF Before
          <6>2. leaves[right(g)] < leaves[k] /\ n < leaves[right(g)] /\ leaves[k] \in Nat /\ leaves[right(g)] \in Nat
            BY <1>1, <1>3, <1>4, <2>1, <3>2, <3>4, <5>1, <6>1
          <6> QED BY <1>1, <4>4, <6>2
        <5>2. CASE leaves[right(g)] = NoNode
          <6>1. r = Half - g /\ k >= g
            BY <1>1, <1>2, <1>12, <2>1, <3>4, <5>2
          <6>2. CASE k = g
            BY <3>3, <3>4, <4>4, <5>2, <6>2
          <6>3. CASE k > g
            BY <1>9, <3>4, <4>4, <6>3
          <6> QED BY <1>1, <2>1, <6>1, <6>2, <6>3
        <5> QED BY <5>1, <5>2
      <4> QED BY <1>1, <2>1, <4>1, <4>2, <4>3, <4>4
    <3>5. right(g) \in 0 .. N /\ right(g) # 0 /\ Half - l <= right(g) /\ right(g) <= Half + r + 1 /\ ~(right(g) <= Half)
      BY <1>1, <1>12, <2>1
    <3> HIDE DEF right
    <3> QED BY <1>1, <3>1, <3>4, <3>5 DEF Fits
  <2> QED BY <2>4, <2>5
<1> QED
  BY <1>13, <1>14

Good(leaves) == \E l, r : Slots(leaves, l, r) /\ Balance(l, r, 1)

\* A node is put into slot q and the others move on: the slots that are taken then, and what
\* they hold.  from: the slot that a leaf comes from.
LEMMA Shifted ==
    ASSUME NEW leaves, NEW l, NEW r, Slots(leaves, l, r), NEW n \in Node, NEW q \in 1 .. numberOfLeaves,
           Fits(leaves, l, r, n, q),
           NEW new \in [1 .. numberOfLeaves -> Node \cup {NoNode}],
           NEW from \in [1 .. numberOfLeaves -> 1 .. numberOfLeaves], NEW x \in 0 .. Half, NEW y \in 0 .. Half,
           \A k \in 1 .. numberOfLeaves : new[k] = IF k = q THEN n ELSE leaves[from[k]],
           \A k \in 1 .. numberOfLeaves : k # q =>
               (Half - l < from[k] /\ from[k] <= Half + r <=> Half - x < k /\ k <= Half + y),
           Half - x < q, q <= Half + y,
           \A i, j \in 1 .. numberOfLeaves : i # q /\ j # q /\ Before(i, j) /\ new[i] # NoNode /\ new[j] # NoNode =>
               Before(from[i], from[j]),
           \A i \in 1 .. numberOfLeaves : i # q /\ new[i] # NoNode =>
               (Before(i, q) => leaves[from[i]] < n) /\ (Before(q, i) => n < leaves[from[i]])
    PROVE  Slots(new, x, y)
<1>1. /\ numberOfLeaves = 2 * Half /\ Half \in Nat \ {0} /\ numberOfLeaves \in Nat /\ n # NoNode
  BY HalfOK, NodeType
<1>2. \A i \in 1 .. numberOfLeaves : leaves[i] # NoNode <=> Half - l < i /\ i <= Half + r
  BY DEF Slots
<1>3. \A i, j \in 1 .. numberOfLeaves : leaves[i] # NoNode /\ leaves[j] # NoNode /\ Before(i, j) => leaves[i] < leaves[j]
  BY DEF Slots
<1>4. ASSUME NEW k \in 1 .. numberOfLeaves
      PROVE  new[k] # NoNode <=> Half - x < k /\ k <= Half + y
  <2>1. from[k] \in 1 .. numberOfLeaves
    OBVIOUS
  <2> QED BY <1>1, <1>2, <2>1
<1>5. ~Before(q, q)
  BY <1>1 DEF Before
<1>6. ASSUME NEW i \in 1 .. numberOfLeaves, NEW j \in 1 .. numberOfLeaves,
             new[i] # NoNode, new[j] # NoNode, Before(i, j)
      PROVE  new[i] < new[j]
  <2>1. CASE i = q
    BY <1>5, <1>6, <2>1
  <2>2. CASE j = q
    BY <1>5, <1>6, <2>2
  <2>3. CASE i # q /\ j # q
    <3>1. from[i] \in 1 .. numberOfLeaves /\ from[j] \in 1 .. numberOfLeaves
      OBVIOUS
    <3>2. Before(from[i], from[j]) /\ leaves[from[i]] = new[i] /\ leaves[from[j]] = new[j]
      BY <1>6, <2>3
    <3> QED BY <1>3, <1>6, <3>1, <3>2
  <2> QED BY <2>1, <2>2, <2>3
<1> QED
  BY <1>4, <1>6 DEF Slots

\* A leaf is dropped only if all slots are taken: the one at the end of the half that grows.
LEMMA InsertedOK ==
    ASSUME NEW leaves, NEW l, NEW r, Slots(leaves, l, r), Balance(l, r, 1), NEW n \in Node,
           NEW q \in 1 .. numberOfLeaves, Fits(leaves, l, r, n, q)
    PROVE  LET new == Inserting(leaves, q, n)
               full == l = Half /\ r = Half
               x == IF l < Half /\ (q <= Half \/ r = Half) THEN l + 1 ELSE l
               y == IF r < Half /\ (q > Half \/ l = Half) THEN r + 1 ELSE r
           IN  /\ Slots(new, x, y) /\ Balance(x, y, 2)
               /\ \A m : m \in Leaves(new) <=>
                      m = n \/ (m \in Leaves(leaves) /\ ~(full /\ m = leaves[IF q <= Half THEN 1 ELSE numberOfLeaves]))
               /\ full => /\ q <= Half => leaves[1] < new[1] /\ (new[numberOfLeaves] = leaves[numberOfLeaves])
                          /\ q > Half => new[numberOfLeaves] < leaves[numberOfLeaves] /\ new[1] = leaves[1]
<1> DEFINE N == numberOfLeaves
           new == Inserting(leaves, q, n)
           full == l = Half /\ r = Half
           x == IF l < Half /\ (q <= Half \/ r = Half) THEN l + 1 ELSE l
           y == IF r < Half /\ (q > Half \/ l = Half) THEN r + 1 ELSE r
           lost == leaves[IF q <= Half THEN 1 ELSE N]
<1>1. /\ N = 2 * Half /\ Half \in Nat \ {0} /\ l \in 0 .. Half /\ r \in 0 .. Half /\ N \in Nat
      /\ l - r <= 1 /\ r - l <= 1 /\ n # NoNode /\ n \in Nat /\ q \in 1 .. N /\ q \in Int
      /\ leaves \in [1 .. N -> Node \cup {NoNode}]
  BY HalfOK, NodeType DEF Slots, Balance
<1>2. \A i \in 1 .. N : leaves[i] # NoNode <=> Half - l < i /\ i <= Half + r
  BY DEF Slots
<1>3. /\ Half - l <= q /\ q <= Half + r + 1
      /\ \A k \in 1 .. N : leaves[k] # NoNode =>
          IF q <= Half THEN IF k <= q \/ k > Half THEN leaves[k] < n ELSE n < leaves[k]
          ELSE IF k >= q \/ k <= Half THEN n < leaves[k] ELSE leaves[k] < n
  BY <1>1 DEF Fits
<1>4. x \in 0 .. Half /\ y \in 0 .. Half /\ Balance(x, y, 2)
  BY <1>1 DEF Balance
<1>5. new \in [1 .. N -> Node \cup {NoNode}]
  BY <1>1, InsertingOK
<1>9. /\ q <= Half => x = IF l < Half THEN l + 1 ELSE l
      /\ q <= Half => y = IF l = Half /\ r # Half THEN Half ELSE r
      /\ q > Half => y = IF r < Half THEN r + 1 ELSE r
      /\ q > Half => x = IF r = Half /\ l # Half THEN Half ELSE l
  BY <1>1
<1>6. 1 \in 1 .. N /\ N \in 1 .. N /\ (leaves[1] # NoNode <=> l = Half) /\ (leaves[N] # NoNode <=> r = Half)
  BY <1>1, <1>2
<1>7. CASE q <= Half
  <2> DEFINE from == [k \in 1 .. N |-> IF k < q THEN k + 1 ELSE IF k = N /\ l = Half /\ r # Half THEN 1 ELSE k]
  <2>1. \A k \in 1 .. N :
             new[k] = IF k < q THEN leaves[k + 1]
                      ELSE IF k = q THEN n
                      ELSE IF k = N /\ leaves[1] # NoNode /\ leaves[k] = NoNode THEN leaves[1]
                      ELSE leaves[k]
    BY <1>1, <1>7, InsertingOK
  <2>2. from \in [1 .. N -> 1 .. N] /\ \A k \in 1 .. N :
             from[k] = IF k < q THEN k + 1 ELSE IF k = N /\ l = Half /\ r # Half THEN 1 ELSE k
    BY <1>1, <1>7
  <2> HIDE DEF new, from
  <2> HIDE DEF x, y
  <2>13. ASSUME NEW k \in 1 .. N
         PROVE  /\ new[k] = IF k = q THEN n ELSE leaves[from[k]]
                /\ k # q => (Half - l < from[k] /\ from[k] <= Half + r <=> Half - x < k /\ k <= Half + y)
                /\ k # q => \/ k < q /\ from[k] = k + 1
                            \/ k = N /\ l = Half /\ r # Half /\ from[k] = 1
                            \/ k > q /\ ~(k = N /\ l = Half /\ r # Half) /\ from[k] = k
    <3>1. CASE k < q
      <4>1. from[k] = k + 1 /\ new[k] = leaves[k + 1] /\ k # q
        BY <1>1, <1>6, <1>7, <2>1, <2>2, <3>1
      <4> QED BY <1>1, <1>3, <1>7, <1>9, <3>1, <4>1
    <3>2. CASE k = N /\ l = Half /\ r # Half
      <4>1. from[k] = 1 /\ new[k] = leaves[1] /\ k # q
        BY <1>1, <1>6, <1>7, <2>1, <2>2, <3>2
      <4> QED BY <1>1, <1>3, <1>7, <1>9, <3>2, <4>1
    <3>3. CASE k > q /\ ~(k = N /\ l = Half /\ r # Half)
      <4>1. from[k] = k /\ new[k] = leaves[k] /\ k # q
        BY <1>1, <1>6, <1>7, <2>1, <2>2, <3>3
      <4> QED BY <1>1, <1>3, <1>7, <1>9, <3>3, <4>1
    <3>4. CASE k = q
      BY <1>1, <1>6, <1>7, <2>1, <3>4
    <3>5. \/ k < q
          \/ k = N /\ l = Half /\ r # Half
          \/ k > q /\ ~(k = N /\ l = Half /\ r # Half)
          \/ k = q
      BY <1>1, <1>6, <1>7
    <3> QED BY <3>1, <3>2, <3>3, <3>4, <3>5
  <2>3. \A k \in 1 .. N : new[k] = IF k = q THEN n ELSE leaves[from[k]]
    BY <2>13
  <2>4. \A k \in 1 .. N : k # q =>
               (Half - l < from[k] /\ from[k] <= Half + r <=> Half - x < k /\ k <= Half + y)
    BY <2>13
  <2>5. Half - x < q /\ q <= Half + y
    BY <1>1, <1>3, <1>4, <1>7, <1>9
  <2>7. \A i, j \in 1 .. N : i # q /\ j # q /\ Before(i, j) /\ new[i] # NoNode /\ new[j] # NoNode =>
               Before(from[i], from[j])
    <3> SUFFICES ASSUME NEW i \in 1 .. N, NEW j \in 1 .. N, i # q, j # q, Before(i, j)
                 PROVE  Before(from[i], from[j])
      OBVIOUS
    <3>1. i \in Int /\ j \in Int /\ q \in Int /\ i >= 1 /\ j >= 1 /\ i <= N /\ j <= N
      BY <1>1
    <3>2. \/ i < q /\ from[i] = i + 1
          \/ i = N /\ l = Half /\ r # Half /\ from[i] = 1
          \/ i > q /\ ~(i = N /\ l = Half /\ r # Half) /\ from[i] = i
      BY <2>13
    <3>3. \/ j < q /\ from[j] = j + 1
          \/ j = N /\ l = Half /\ r # Half /\ from[j] = 1
          \/ j > q /\ ~(j = N /\ l = Half /\ r # Half) /\ from[j] = j
      BY <2>13
    <3> QED BY <1>1, <1>7, <3>1, <3>2, <3>3 DEF Before
  <2>8. \A i \in 1 .. N : i # q /\ new[i] # NoNode =>
               (Before(i, q) => leaves[from[i]] < n) /\ (Before(q, i) => n < leaves[from[i]])
    <3> SUFFICES ASSUME NEW i \in 1 .. N, i # q, new[i] # NoNode
                 PROVE  (Before(i, q) => leaves[from[i]] < n) /\ (Before(q, i) => n < leaves[from[i]])
      OBVIOUS
    <3>1. from[i] \in 1 .. N /\ leaves[from[i]] # NoNode
      BY <2>2, <2>3
    <3>2. \/ i < q /\ from[i] = i + 1
          \/ i = N /\ l = Half /\ r # Half /\ from[i] = 1
          \/ i > q /\ ~(i = N /\ l = Half /\ r # Half) /\ from[i] = i
      BY <2>13
    <3>3. Before(i, q) => from[i] <= q \/ from[i] > Half
      BY <1>1, <1>7, <3>2 DEF Before
    <3>4. Before(q, i) => ~(from[i] <= q \/ from[i] > Half)
      BY <1>1, <1>7, <3>2 DEF Before
    <3> QED BY <1>3, <1>7, <3>1, <3>3, <3>4
  <2>9. Slots(new, x, y)
    BY <1>4, <1>5, <2>2, <2>3, <2>4, <2>5, <2>7, <2>8, Shifted DEF new
  <2>10. ASSUME NEW m, m # NoNode
         PROVE  (\E k \in 1 .. N : new[k] = m) <=>
                    m = n \/ ((\E k \in 1 .. N : leaves[k] = m) /\ ~(full /\ m = lost))
    <3>1. ASSUME NEW k \in 1 .. N, new[k] = m, m # n
          PROVE  from[k] \in 1 .. N /\ leaves[from[k]] = m /\ ~(full /\ m = lost)
      <4>1. k # q /\ from[k] \in 1 .. N /\ leaves[from[k]] = m
        BY <2>2, <2>3, <3>1
      <4>2. ASSUME full, m = lost
            PROVE  FALSE
        <5>1. from[k] = 1
          BY <1>6, <1>7, <2>10, <4>1, <4>2, SlotsOK
        <5> QED BY <1>1, <1>7, <2>2, <4>1, <4>2, <5>1
      <4> QED BY <4>1, <4>2
    <3>2. ASSUME NEW k \in 1 .. N, leaves[k] = m, ~(full /\ m = lost)
          PROVE  \E j \in 1 .. N : j # q /\ from[j] = k
      <4>1. CASE k > q
        <5>1. ~(k < q) /\ k # q /\ (k = N => r = Half)
          BY <1>1, <1>6, <2>10, <3>2, <4>1
        <5>2. from[k] = k
          BY <2>2, <5>1
        <5> QED BY <5>1, <5>2
      <4>2. CASE k <= q /\ k # 1
        <5>1. k - 1 \in 1 .. N /\ k - 1 # q /\ from[k - 1] = k
          BY <1>1, <2>2, <4>2
        <5> QED BY <5>1
      <4>3. CASE k = 1
        <5>1. l = Half /\ r # Half
          BY <1>1, <1>6, <1>7, <2>10, <3>2, <4>3
        <5>2. N # q /\ from[N] = 1
          BY <1>1, <1>6, <1>7, <2>2, <5>1
        <5> QED BY <1>6, <4>3, <5>2
      <4> QED BY <1>1, <4>1, <4>2, <4>3
    <3>3. new[q] = n
      BY <2>3
    <3> HIDE DEF full, lost
    <3>4. ASSUME NEW k \in 1 .. N, leaves[k] = m, ~(full /\ m = lost)
          PROVE  \E j \in 1 .. N : new[j] = m
      BY <2>3, <3>2, <3>4
    <3> QED BY <3>1, <3>3, <3>4
  <2>11. full => leaves[1] < new[1] /\ new[N] = leaves[N]
    <3> SUFFICES ASSUME full
                 PROVE  leaves[1] < new[1] /\ new[N] = leaves[N]
      OBVIOUS
    <3>1. new[N] = leaves[N]
      BY <1>1, <1>6, <1>7, <2>2, <2>3
    <3>2. CASE q = 1
      <4>1. new[1] = n /\ leaves[1] # NoNode /\ 1 <= q
        BY <1>1, <1>6, <2>3, <3>2
      <4>2. leaves[1] < n
        BY <1>3, <1>6, <1>7, <4>1
      <4> QED BY <3>1, <4>1, <4>2
    <3>3. CASE q # 1
      <4>1. new[1] = leaves[2] /\ 2 \in 1 .. N /\ leaves[2] # NoNode /\ Before(1, 2)
        BY <1>1, <1>2, <1>7, <2>1, <3>3 DEF Before
      <4> QED BY <1>6, <3>1, <4>1 DEF Slots
    <3> QED BY <3>1, <3>2, <3>3
  <2>12. \A m : m \in Leaves(new) <=> m = n \/ (m \in Leaves(leaves) /\ ~(full /\ m = lost))
    <3>1. \A m : m \in Leaves(leaves) <=> m # NoNode /\ \E i \in 1 .. N : leaves[i] = m
      BY SlotsOK
    <3>2. \A m : m \in Leaves(new) <=> m # NoNode /\ \E i \in 1 .. N : new[i] = m
      BY <2>9, SlotsOK
    <3> HIDE DEF full, lost
    <3> QED BY <1>1, <2>10, <3>1, <3>2
  <2> QED BY <1>1, <1>4, <1>7, <2>9, <2>11, <2>12 DEF new, x, y
<1>8. CASE ~(q <= Half)
  <2> DEFINE from == [k \in 1 .. N |-> IF k = 1 /\ r = Half /\ l # Half THEN N ELSE IF k < q THEN k ELSE k - 1]
  <2>1. \A k \in 1 .. N :
             new[k] = IF k = 1 /\ leaves[1] = NoNode /\ leaves[N] # NoNode THEN leaves[N]
                      ELSE IF k < q THEN leaves[k]
                      ELSE IF k = q THEN n
                      ELSE leaves[k - 1]
    BY <1>1, <1>8, InsertingOK
  <2>2. from \in [1 .. N -> 1 .. N] /\ \A k \in 1 .. N :
             from[k] = IF k = 1 /\ r = Half /\ l # Half THEN N ELSE IF k < q THEN k ELSE k - 1
    BY <1>1, <1>8
  <2> HIDE DEF new, from
  <2> HIDE DEF x, y
  <2>13. ASSUME NEW k \in 1 .. N
         PROVE  /\ new[k] = IF k = q THEN n ELSE leaves[from[k]]
                /\ k # q => (Half - l < from[k] /\ from[k] <= Half + r <=> Half - x < k /\ k <= Half + y)
                /\ k # q => \/ k = 1 /\ r = Half /\ l # Half /\ from[k] = N
                            \/ k < q /\ ~(k = 1 /\ r = Half /\ l # Half) /\ from[k] = k
                            \/ k > q /\ from[k] = k - 1
    <3>1. CASE k = 1 /\ r = Half /\ l # Half
      <4>1. from[k] = N /\ new[k] = leaves[N] /\ k # q
        BY <1>1, <1>6, <1>8, <2>1, <2>2, <3>1
      <4> QED BY <1>1, <1>3, <1>8, <1>9, <3>1, <4>1
    <3>2. CASE k < q /\ ~(k = 1 /\ r = Half /\ l # Half)
      <4>1. from[k] = k /\ new[k] = leaves[k] /\ k # q
        BY <1>1, <1>6, <1>8, <2>1, <2>2, <3>2
      <4> QED BY <1>1, <1>3, <1>8, <1>9, <3>2, <4>1
    <3>3. CASE k > q
      <4>0. ~(k < q) /\ k # q /\ k # 1
        BY <1>1, <1>8, <3>3
      <4>1. from[k] = k - 1 /\ new[k] = leaves[k - 1] /\ k # q
        BY <2>1, <2>2, <4>0
      <4> QED BY <1>1, <1>3, <1>8, <1>9, <3>3, <4>1
    <3>4. CASE k = q
      BY <1>1, <1>6, <1>8, <2>1, <3>4
    <3>5. \/ k = 1 /\ r = Half /\ l # Half
          \/ k < q /\ ~(k = 1 /\ r = Half /\ l # Half)
          \/ k > q
          \/ k = q
      BY <1>1, <1>6, <1>8
    <3> QED BY <3>1, <3>2, <3>3, <3>4, <3>5
  <2>3. \A k \in 1 .. N : new[k] = IF k = q THEN n ELSE leaves[from[k]]
    BY <2>13
  <2>4. \A k \in 1 .. N : k # q =>
               (Half - l < from[k] /\ from[k] <= Half + r <=> Half - x < k /\ k <= Half + y)
    BY <2>13
  <2>5. Half - x < q /\ q <= Half + y
    BY <1>1, <1>3, <1>4, <1>8, <1>9
  <2>7. \A i, j \in 1 .. N : i # q /\ j # q /\ Before(i, j) /\ new[i] # NoNode /\ new[j] # NoNode =>
               Before(from[i], from[j])
    <3> SUFFICES ASSUME NEW i \in 1 .. N, NEW j \in 1 .. N, i # q, j # q, Before(i, j)
                 PROVE  Before(from[i], from[j])
      OBVIOUS
    <3>1. i \in Int /\ j \in Int /\ q \in Int /\ i >= 1 /\ j >= 1 /\ i <= N /\ j <= N
      BY <1>1
    <3>2. \/ i = 1 /\ r = Half /\ l # Half /\ from[i] = N
          \/ i < q /\ ~(i = 1 /\ r = Half /\ l # Half) /\ from[i] = i
          \/ i > q /\ from[i] = i - 1
      BY <2>13
    <3>3. \/ j = 1 /\ r = Half /\ l # Half /\ from[j] = N
          \/ j < q /\ ~(j = 1 /\ r = Half /\ l # Half) /\ from[j] = j
          \/ j > q /\ from[j] = j - 1
      BY <2>13
    <3> QED BY <1>1, <1>8, <3>1, <3>2, <3>3 DEF Before
  <2>8. \A i \in 1 .. N : i # q /\ new[i] # NoNode =>
               (Before(i, q) => leaves[from[i]] < n) /\ (Before(q, i) => n < leaves[from[i]])
    <3> SUFFICES ASSUME NEW i \in 1 .. N, i # q, new[i] # NoNode
                 PROVE  (Before(i, q) => leaves[from[i]] < n) /\ (Before(q, i) => n < leaves[from[i]])
      OBVIOUS
    <3>1. from[i] \in 1 .. N /\ leaves[from[i]] # NoNode
      BY <2>2, <2>3
    <3>2. \/ i = 1 /\ r = Half /\ l # Half /\ from[i] = N
          \/ i < q /\ ~(i = 1 /\ r = Half /\ l # Half) /\ from[i] = i
          \/ i > q /\ from[i] = i - 1
      BY <2>13
    <3>3. Before(q, i) => from[i] >= q \/ from[i] <= Half
      BY <1>1, <1>8, <3>2 DEF Before
    <3>4. Before(i, q) => ~(from[i] >= q \/ from[i] <= Half)
      BY <1>1, <1>8, <3>2 DEF Before
    <3> QED BY <1>3, <1>8, <3>1, <3>3, <3>4
  <2>9. Slots(new, x, y)
    BY <1>4, <1>5, <2>2, <2>3, <2>4, <2>5, <2>7, <2>8, Shifted DEF new
  <2>10. ASSUME NEW m, m # NoNode
         PROVE  (\E k \in 1 .. N : new[k] = m) <=>
                    m = n \/ ((\E k \in 1 .. N : leaves[k] = m) /\ ~(full /\ m = lost))
    <3>1. ASSUME NEW k \in 1 .. N, new[k] = m, m # n
          PROVE  from[k] \in 1 .. N /\ leaves[from[k]] = m /\ ~(full /\ m = lost)
      <4>1. k # q /\ from[k] \in 1 .. N /\ leaves[from[k]] = m
        BY <2>2, <2>3, <3>1
      <4>2. ASSUME full, m = lost
            PROVE  FALSE
        <5>1. from[k] = N
          BY <1>6, <1>8, <2>10, <4>1, <4>2, SlotsOK
        <5> QED BY <1>1, <1>8, <2>2, <4>1, <4>2, <5>1
      <4> QED BY <4>1, <4>2
    <3>2. ASSUME NEW k \in 1 .. N, leaves[k] = m, ~(full /\ m = lost)
          PROVE  \E j \in 1 .. N : j # q /\ from[j] = k
      <4>1. CASE k < q
        <5>1. from[k] = k
          BY <1>1, <1>6, <1>8, <2>2, <2>10, <3>2, <4>1
        <5> QED BY <1>1, <4>1, <5>1
      <4>2. CASE k >= q /\ k # N
        <5>1. k + 1 \in 1 .. N /\ k + 1 # q /\ from[k + 1] = k
          BY <1>1, <1>8, <2>2, <4>2
        <5> QED BY <5>1
      <4>3. CASE k = N
        <5>1. r = Half /\ l # Half
          BY <1>1, <1>6, <1>8, <2>10, <3>2, <4>3
        <5>2. 1 # q /\ from[1] = N
          BY <1>1, <1>6, <1>8, <2>2, <5>1
        <5> QED BY <1>6, <4>3, <5>2
      <4> QED BY <1>1, <4>1, <4>2, <4>3
    <3>3. new[q] = n
      BY <2>3
    <3> HIDE DEF full, lost
    <3>4. ASSUME NEW k \in 1 .. N, leaves[k] = m, ~(full /\ m = lost)
          PROVE  \E j \in 1 .. N : new[j] = m
      BY <2>3, <3>2, <3>4
    <3> QED BY <3>1, <3>3, <3>4
  <2>11. full => new[N] < leaves[N] /\ new[1] = leaves[1]
    <3> SUFFICES ASSUME full
                 PROVE  new[N] < leaves[N] /\ new[1] = leaves[1]
      OBVIOUS
    <3>1. new[1] = leaves[1]
      BY <1>1, <1>6, <1>8, <2>2, <2>3
    <3>2. CASE q = N
      <4>1. new[N] = n /\ leaves[N] # NoNode /\ N >= q
        BY <1>1, <1>6, <2>3, <3>2
      <4>2. n < leaves[N]
        BY <1>3, <1>6, <1>8, <4>1
      <4> QED BY <3>1, <4>1, <4>2
    <3>3. CASE q # N
      <4>1. new[N] = leaves[N - 1] /\ N - 1 \in 1 .. N /\ leaves[N - 1] # NoNode /\ Before(N - 1, N)
        BY <1>1, <1>2, <1>8, <2>1, <3>3 DEF Before
      <4> QED BY <1>6, <3>1, <4>1 DEF Slots
    <3> QED BY <3>1, <3>2, <3>3
  <2>12. \A m : m \in Leaves(new) <=> m = n \/ (m \in Leaves(leaves) /\ ~(full /\ m = lost))
    <3>1. \A m : m \in Leaves(leaves) <=> m # NoNode /\ \E i \in 1 .. N : leaves[i] = m
      BY SlotsOK
    <3>2. \A m : m \in Leaves(new) <=> m # NoNode /\ \E i \in 1 .. N : new[i] = m
      BY <2>9, SlotsOK
    <3> HIDE DEF full, lost
    <3> QED BY <1>1, <2>10, <3>1, <3>2
  <2> QED BY <1>1, <1>4, <1>8, <2>9, <2>11, <2>12 DEF new, x, y
<1> QED
  BY <1>7, <1>8

LEMMA ValidOK ==
    ASSUME NEW leaves, NEW l, NEW r, Slots(leaves, l, r)
    PROVE  /\ IsValid(leaves) <=> l > 0 /\ r > 0
           /\ IsFull(leaves) <=> l = Half /\ r = Half
BY HalfOK DEF Slots, IsValid, IsFull, Free

\* All nodes heard of are leaves, or lie beyond the ends of a full leaf set.
Holds(leaves, heard) ==
    /\ Leaves(leaves) \subseteq heard
    /\ \A n \in heard : \/ n \in Leaves(leaves)
                        \/ IsFull(leaves) /\ leaves[numberOfLeaves] < n /\ n < leaves[1]

LEMMA MergeNodeOK ==
    ASSUME NEW leaves, Good(leaves), NEW heard \in SUBSET Node, Holds(leaves, heard), NEW n \in Node
    PROVE  LET new == MergeNode(leaves, n)
           IN  /\ Good(new) /\ Holds(new, heard \cup {n})
               /\ IsValid(leaves) => IsValid(new)
<1> DEFINE N == numberOfLeaves
           q == Place(leaves, n)
           ins == Inserting(leaves, q, n)
           new == MergeNode(leaves, n)
<1>1. PICK l, r : Slots(leaves, l, r) /\ Balance(l, r, 1)
  BY DEF Good
<1>2. /\ N = 2 * Half /\ Half \in Nat \ {0} /\ N \in Nat /\ n # Self /\ n \in Nat /\ l \in 0 .. Half /\ r \in 0 .. Half
      /\ l - r <= 1 /\ r - l <= 1 /\ 1 \in 1 .. N /\ N \in 1 .. N
  BY <1>1, HalfOK, NodeType DEF Slots, Balance
<1>3. CASE n \in Leaves(leaves)
  <2>1. new = leaves
    BY <1>3 DEF MergeNode
  <2> QED BY <1>3, <2>1 DEF Holds
<1>4. CASE n \notin Leaves(leaves)
  <2>1. Fits(leaves, l, r, n, q)
    BY <1>1, <1>4, PlaceOK
  <2>2. CASE q = 0
    <3>1. new = leaves
      BY <2>2 DEF MergeNode
    <3>2. IsFull(leaves) /\ leaves[N] < n /\ n < leaves[1]
      BY <1>1, <2>1, <2>2, ValidOK DEF Fits
    <3> HIDE DEF new
    <3> QED BY <1>3, <3>1, <3>2 DEF Holds, new
  <2>3. CASE q # 0
    <3> DEFINE full == l = Half /\ r = Half
               x == IF l < Half /\ (q <= Half \/ r = Half) THEN l + 1 ELSE l
               y == IF r < Half /\ (q > Half \/ l = Half) THEN r + 1 ELSE r
               lost == leaves[IF q <= Half THEN 1 ELSE N]
    <3>1. q \in 1 .. N
      BY <1>2, <2>1, <2>3 DEF Fits
    <3>2. new = Balanced(ins)
      <4>1. new = InsertLeaf(leaves, q, n)
        BY <1>2, <1>4, <2>3 DEF MergeNode
      <4>2. InsertLeaf(leaves, q, n) = Balanced(ins)
        BY DEF InsertLeaf, Inserting
      <4> QED BY <4>1, <4>2
    <3>3. /\ Slots(ins, x, y) /\ Balance(x, y, 2)
          /\ \A m : m \in Leaves(ins) <=> m = n \/ (m \in Leaves(leaves) /\ ~(full /\ m = lost))
          /\ full => /\ q <= Half => leaves[1] < ins[1] /\ (ins[N] = leaves[N])
                     /\ q > Half => ins[N] < leaves[N] /\ ins[1] = leaves[1]
      <4> HIDE DEF q
      <4> QED BY <1>1, <2>1, <3>1, InsertedOK
    <3>4. x \in 0 .. Half /\ y \in 0 .. Half /\ x >= l /\ y >= r /\ (full => x = Half /\ y = Half)
      BY <1>2
    <3> DEFINE a == IF x = y + 2 THEN x - 1 ELSE IF y = x + 2 THEN x + 1 ELSE x
               b == IF x = y + 2 THEN y + 1 ELSE IF y = x + 2 THEN y - 1 ELSE y
    <3> HIDE DEF ins, x, y, q
    <3>5. Slots(new, a, b) /\ Balance(a, b, 1) /\ Leaves(new) = Leaves(ins)
      BY <3>2, <3>3, BalancedOK
    <3>6. Good(new)
      BY <3>5 DEF Good
    <3>7. l > 0 /\ r > 0 => a > 0 /\ b > 0
      BY <1>2, <3>4
    <3>8. IsValid(leaves) => IsValid(new)
      <4> HIDE DEF a, b
      <4> QED BY <1>1, <3>5, <3>7, ValidOK
    <3>9. Leaves(leaves) \subseteq heard
      BY DEF Holds
    <3>10. Leaves(new) \subseteq heard \cup {n}
      BY <3>3, <3>5, <3>9
    <3>11. CASE ~full
      <4>1. ~IsFull(leaves)
        BY <1>1, <3>11, ValidOK
      <4>2. \A m \in heard \cup {n} : m \in Leaves(new)
        <5> HIDE DEF full, lost, new
        <5> QED BY <3>3, <3>5, <3>11, <4>1 DEF Holds
      <4> QED BY <3>6, <3>8, <3>10, <4>2 DEF Holds
    <3>12. CASE full
      <4>1. IsFull(leaves) /\ IsFull(ins)
        BY <1>1, <3>3, <3>4, <3>12, ValidOK
      <4>2. new = ins
        BY <3>2, <4>1 DEF Balanced
      <4>3. /\ leaves[1] \in Nat /\ leaves[N] \in Nat /\ ins[1] \in Nat /\ ins[N] \in Nat
            /\ leaves[N] < leaves[1] /\ ins[N] < ins[1]
        <5>1. leaves[1] # NoNode /\ leaves[N] # NoNode /\ ins[1] # NoNode /\ ins[N] # NoNode
          BY <4>1 DEF IsFull, Free
        <5>2. Before(N, 1)
          BY <1>2 DEF Before
        <5>3. leaves[N] < leaves[1] /\ ins[N] < ins[1]
          BY <1>1, <1>2, <3>3, <5>1, <5>2 DEF Slots
        <5> QED BY <1>1, <1>2, <3>3, <5>1, <5>3, SlotsOK
      <4>4. ASSUME NEW m \in heard \cup {n}
            PROVE  m \in Leaves(new) \/ (IsFull(new) /\ new[N] < m /\ m < new[1])
        <5>1. CASE m = n \/ (m \in Leaves(leaves) /\ m # lost)
          BY <3>3, <4>2, <5>1
        <5>2. CASE m = lost /\ m # n
          <6>1. q <= Half => m = leaves[1] /\ leaves[1] < ins[1] /\ ins[N] = leaves[N]
            BY <3>3, <3>12, <5>2
          <6>2. ~(q <= Half) => m = leaves[N] /\ ins[N] < leaves[N] /\ ins[1] = leaves[1]
            BY <1>2, <3>1, <3>3, <3>12, <5>2
          <6> QED BY <4>1, <4>2, <4>3, <6>1, <6>2
        <5>3. CASE m \notin Leaves(leaves) /\ m # n
          <6>1. leaves[N] < m /\ m < leaves[1] /\ m \in Nat
            BY <5>3, NodeType DEF Holds
          <6>2. ins[N] <= leaves[N] /\ leaves[1] <= ins[1]
            BY <1>2, <3>1, <3>3, <3>12, <4>3
          <6> QED BY <4>1, <4>2, <4>3, <6>1, <6>2
        <5> QED BY <5>1, <5>2, <5>3
      <4> HIDE DEF new
      <4> QED BY <3>6, <3>8, <3>10, <4>4 DEF Holds, new
    <3> QED BY <3>11, <3>12
  <2> QED BY <2>2, <2>3
<1> QED
  BY <1>3, <1>4

\* What holds of 0, and of k + 1 if of k, holds up to n: by the least for which it does not.
LEMMA Induction ==
    ASSUME NEW n \in Nat, NEW S, 0 \in S, \A k \in 0 .. n : k \in S /\ k # n => k + 1 \in S
    PROVE  \A k \in 0 .. n : k \in S
<1> DEFINE B == {k \in 0 .. n : k \notin S}
<1>1. ASSUME B # {}
      PROVE  FALSE
  <2> DEFINE R == OpToRel(<, Nat)
  <2>1. B \in SUBSET Nat
    OBVIOUS
  <2> HIDE DEF B
  <2>2. PICK m \in B : \A y \in B : ~ (<<y, m>> \in R)
    BY <1>1, <2>1, NatLessThanWellFounded, WFMin
  <2>3. \A x, y \in Nat : x < y => <<x, y>> \in R
    BY DEF OpToRel
  <2> HIDE DEF R
  <2>4. m \in 0 .. n /\ m \notin S /\ m # 0 /\ m - 1 \in 0 .. n /\ m - 1 # n /\ m - 1 + 1 = m /\ m - 1 < m
    BY <2>2 DEF B
  <2>5. m - 1 \notin B
    BY <2>1, <2>2, <2>3, <2>4
  <2>6. m - 1 \in S
    BY <2>4, <2>5 DEF B
  <2> QED BY <2>4, <2>6
<1> QED
  BY <1>1

LEMMA MaxOfSegment ==
    ASSUME NEW k \in Nat
    PROVE  Max(1 .. k + 1) = k + 1 /\ (1 .. k + 1) \ {k + 1} = 1 .. k
<1>1. 1 .. k + 1 # {} /\ k + 1 \in Nat /\ k + 1 \in 1 .. k + 1
  OBVIOUS
<1>2. Max(1 .. k + 1) \in 1 .. k + 1 /\ k + 1 <= Max(1 .. k + 1)
  <2> DEFINE S == 1 .. k + 1
  <2>1. S \in SUBSET (1 .. k + 1) /\ S # {}
    BY <1>1
  <2> HIDE DEF S
  <2>2. Max(S) \in S /\ \A x \in S : x <= Max(S)
    BY <1>1, <2>1, Greatest
  <2> QED BY <1>1, <2>2 DEF S
<1>3. (1 .. k + 1) \ {k + 1} = 1 .. k
  OBVIOUS
<1> QED
  BY <1>1, <1>2, <1>3

\* it: the leaf set after the first 0, 1, ..., n nodes.
Stepwise(it, leaves, nodes, dead, n) ==
    /\ it[1 .. 0] = leaves
    /\ \A k \in 0 .. n : k # n =>
           it[1 .. k + 1] = IF nodes[k + 1] \in dead THEN it[1 .. k] ELSE MergeNode(it[1 .. k], nodes[k + 1])
    /\ Merged(leaves, nodes, dead) = it[1 .. n]

LEMMA MergedStepwise ==
    ASSUME NEW leaves, NEW nodes \in Seq(Node), NEW dead, NEW n \in Nat, n = Len(nodes)
    PROVE  \E it : Stepwise(it, leaves, nodes, dead, n)
<1>1. n \in Nat /\ n = Len(nodes) /\ DOMAIN nodes = 1 .. n /\ \A i \in 1 .. n : nodes[i] \in Node
  BY LenProperties, ElementOfSeq
<1> DEFINE Step(l, m) == IF m \in dead THEN l ELSE MergeNode(l, m)
           Iter(f, s) == IF s = {} THEN leaves ELSE Step(f[s \ {Max(s)}], nodes[Max(s)])
           iter == CHOOSE f : f = [s \in SUBSET (1 .. n) |-> Iter(f, s)]
<1>2. Merged(leaves, nodes, dead) = iter[1 .. n]
  BY <1>1 DEF Merged, FoldLeft, MapThenFoldSet
<1> HIDE DEF Step
<1>3. iter = [s \in SUBSET (1 .. n) |-> Iter(iter, s)]
  <2> DEFINE K == {k \in 0 .. n : \E f : f = [s \in SUBSET (1 .. k) |-> Iter(f, s)]}
  <2>1. 0 \in K
    <3> DEFINE f == [s \in SUBSET (1 .. 0) |-> leaves]
    <3>1. \A s \in SUBSET (1 .. 0) : s = {}
      OBVIOUS
    <3>2. f = [s \in SUBSET (1 .. 0) |-> Iter(f, s)]
      BY <3>1
    <3>3. 0 \in 0 .. n
      BY <1>1
    <3> HIDE DEF f, Iter
    <3> QED BY <3>2, <3>3
  <2>2. ASSUME NEW k \in 0 .. n, k \in K, k # n
        PROVE  k + 1 \in K
    <3>1. PICK f : f = [s \in SUBSET (1 .. k) |-> Iter(f, s)]
      BY <2>2
    <3> DEFINE g == [s \in SUBSET (1 .. k + 1) |-> Iter(f, s)]
    <3>n. k \in Nat /\ k + 1 \in Nat /\ k + 1 \in 0 .. n
      BY <1>1, <2>2
    <3>2. ASSUME NEW s \in SUBSET (1 .. k + 1), s # {}
          PROVE  s \ {Max(s)} \in SUBSET (1 .. k) /\ s \ {Max(s)} \in SUBSET (1 .. k + 1)
      <4>1. Max(s) \in s /\ \A x \in s : x <= Max(s)
        BY <3>2, <3>n, Greatest
      <4>2. \A x \in s : x \in Nat /\ 1 <= x /\ x <= k + 1
        BY <3>n
      <4> DEFINE m == Max(s)
      <4> HIDE DEF m
      <4>3. ASSUME NEW x \in s, x # m
            PROVE  x \in 1 .. k
        <5>1. m \in s /\ x <= m
          BY <4>1 DEF m
        <5>2. x \in Nat /\ 1 <= x /\ x <= k + 1 /\ m \in Nat /\ m <= k + 1
          BY <4>2, <5>1
        <5> QED BY <3>n, <4>3, <5>1, <5>2
      <4>4. s \ {m} \in SUBSET (1 .. k) /\ s \ {m} \in SUBSET (1 .. k + 1)
        BY <4>3
      <4> QED BY <4>4 DEF m
    <3>3. \A s \in SUBSET (1 .. k) : s \in SUBSET (1 .. k + 1) /\ f[s] = Iter(f, s)
      <4>1. \A s \in SUBSET (1 .. k) : s \in SUBSET (1 .. k + 1)
        BY <3>n
      <4> HIDE DEF Iter
      <4> QED BY <3>1, <4>1
    <3>4. \A s \in SUBSET (1 .. k) : g[s] = f[s]
      <4> HIDE DEF Iter
      <4> QED BY <3>3
    <3>5. \A s \in SUBSET (1 .. k + 1) : Iter(f, s) = Iter(g, s)
      <4> HIDE DEF g
      <4> QED BY <3>2, <3>4
    <3>6. g = [s \in SUBSET (1 .. k + 1) |-> Iter(g, s)]
      <4> HIDE DEF Iter
      <4>1. [s \in SUBSET (1 .. k + 1) |-> Iter(f, s)] = [s \in SUBSET (1 .. k + 1) |-> Iter(g, s)]
        <5> HIDE DEF g
        <5> QED BY <3>5
      <4> QED BY <4>1
    <3> HIDE DEF g, Iter
    <3> QED BY <3>6, <3>n
  <2> HIDE DEF K
  <2>3. \A k \in 0 .. n : k \in K
    BY <1>1, <2>1, <2>2, Induction
  <2>4. n \in 0 .. n
    BY <1>1
  <2> HIDE DEF Iter
  <2>5. \E f : f = [s \in SUBSET (1 .. n) |-> Iter(f, s)]
    BY <2>3, <2>4 DEF K
  <2> QED BY <2>5
<1> HIDE DEF iter
<1>4. iter[1 .. 0] = leaves
  <2>1. 1 .. 0 = {} /\ 1 .. 0 \in SUBSET (1 .. n)
    BY <1>1
  <2>2. iter[1 .. 0] = Iter(iter, 1 .. 0)
    <3> HIDE DEF Iter
    <3> QED BY <1>3, <2>1
  <2> QED BY <2>1, <2>2
<1>5. ASSUME NEW k \in 0 .. n, k # n
      PROVE  iter[1 .. k + 1] = Step(iter[1 .. k], nodes[k + 1])
  <2>a. k \in Nat /\ n \in Nat /\ k + 1 <= n
    BY <1>1, <1>5
  <2>1. k \in Nat /\ 1 .. k + 1 \in SUBSET (1 .. n) /\ 1 .. k + 1 # {}
    <3>1. \A x \in 1 .. k + 1 : x \in 1 .. n
      BY <2>a
    <3>2. 1 \in 1 .. k + 1
      BY <2>a
    <3> QED BY <2>a, <3>1, <3>2
  <2>2. Max(1 .. k + 1) = k + 1 /\ (1 .. k + 1) \ {k + 1} = 1 .. k
    BY <2>1, MaxOfSegment
  <2>3. iter[1 .. k + 1] = Iter(iter, 1 .. k + 1)
    <3> HIDE DEF Iter
    <3> QED BY <1>3, <2>1
  <2> QED BY <2>1, <2>2, <2>3
<1>6. \A k \in 0 .. n : k # n =>
          iter[1 .. k + 1] = IF nodes[k + 1] \in dead THEN iter[1 .. k] ELSE MergeNode(iter[1 .. k], nodes[k + 1])
  BY <1>5 DEF Step
<1>7. Stepwise(iter, leaves, nodes, dead, n)
  BY <1>2, <1>4, <1>6 DEF Stepwise
<1> QED
  BY <1>7

LEMMA MergedOK ==
    ASSUME NEW leaves, Good(leaves), NEW heard \in SUBSET Node, Holds(leaves, heard),
           NEW nodes \in Seq(Node), NEW dead
    PROVE  LET new == Merged(leaves, nodes, dead)
           IN  /\ Good(new) /\ Holds(new, heard \cup (Range(nodes) \ dead))
               /\ IsValid(leaves) => IsValid(new)
<1>0. PICK n \in Nat : n = Len(nodes) /\ DOMAIN nodes = 1 .. n /\ \A i \in 1 .. n : nodes[i] \in Node
  BY LenProperties, ElementOfSeq
<1>m. PICK it : Stepwise(it, leaves, nodes, dead, n)
  BY <1>0, MergedStepwise
<1>1. /\ it[1 .. 0] = leaves
      /\ \A k \in 0 .. n : k # n =>
             it[1 .. k + 1] = IF nodes[k + 1] \in dead THEN it[1 .. k] ELSE MergeNode(it[1 .. k], nodes[k + 1])
      /\ Merged(leaves, nodes, dead) = it[1 .. n]
  BY <1>m DEF Stepwise
<1> DEFINE Heard(k) == heard \cup ({nodes[i] : i \in 1 .. k} \ dead)
           G == {k \in 0 .. n : /\ Good(it[1 .. k]) /\ Holds(it[1 .. k], Heard(k))
                                /\ IsValid(leaves) => IsValid(it[1 .. k])}
<1>2. 0 \in G
  <2>1. Heard(0) = heard /\ 0 \in 0 .. n
    BY <1>0, <1>1
  <2> HIDE DEF Heard
  <2> QED BY <1>0, <1>1, <2>1
<1>3. ASSUME NEW k \in 0 .. n, k \in G, k # n
      PROVE  k + 1 \in G
  <2> DEFINE m == nodes[k + 1]
  <2>1. k \in Nat /\ k + 1 \in 0 .. n /\ k + 1 \in 1 .. n /\ m \in Node /\ \A i \in 1 .. k : i \in 1 .. n
    BY <1>0, <1>1, <1>3
  <2>2. Good(it[1 .. k]) /\ Holds(it[1 .. k], Heard(k)) /\ (IsValid(leaves) => IsValid(it[1 .. k]))
    <3> HIDE DEF Heard
    <3> QED BY <1>3
  <2>3. Heard(k) \in SUBSET Node
    BY <1>0, <1>1, <2>1
  <2>4. Heard(k + 1) = IF m \in dead THEN Heard(k) ELSE Heard(k) \cup {m}
    <3>1. \A i \in 1 .. k + 1 : i \in 1 .. k \/ i = k + 1
      BY <2>1
    <3>2. \A i \in 1 .. k : i \in 1 .. k + 1
      BY <2>1
    <3>3. k + 1 \in 1 .. k + 1
      BY <2>1
    <3> QED BY <3>1, <3>2, <3>3
  <2>5. it[1 .. k + 1] = IF m \in dead THEN it[1 .. k] ELSE MergeNode(it[1 .. k], m)
    BY <1>0, <1>1, <1>3
  <2> HIDE DEF Heard, m
  <2>6. Good(it[1 .. k + 1]) /\ Holds(it[1 .. k + 1], Heard(k + 1)) /\ (IsValid(leaves) => IsValid(it[1 .. k + 1]))
    BY <2>1, <2>2, <2>3, <2>4, <2>5, MergeNodeOK
  <2> QED BY <2>1, <2>6
<1>4. \A k \in 0 .. n : k \in G
  <2> HIDE DEF G
  <2> QED BY <1>0, <1>1, <1>2, <1>3, Induction
<1>5. Heard(n) = heard \cup (Range(nodes) \ dead)
  BY <1>0, <1>1 DEF Range
<1>6. n \in 0 .. n
  BY <1>0, <1>1
<1> HIDE DEF Heard
<1> QED
  BY <1>0, <1>1, <1>4, <1>5, <1>6

\* A leaf is taken out, and the others of its half move to the middle.
LEMMA WithoutOK ==
    ASSUME NEW leaves, NEW l, NEW r, Slots(leaves, l, r), NEW i \in 1 .. numberOfLeaves, leaves[i] # NoNode
    PROVE  LET new == LeavesWithout(leaves, i)
           IN  /\ Slots(new, IF i <= Half THEN l - 1 ELSE l, IF i <= Half THEN r ELSE r - 1)
               /\ Leaves(new) = Leaves(leaves) \ {leaves[i]}
<1> DEFINE N == numberOfLeaves
           T == Node \cup {NoNode}
           M == N - 1
           rest == RemoveAt(leaves, i)
           new == LeavesWithout(leaves, i)
           x == IF i <= Half THEN l - 1 ELSE l
           y == IF i <= Half THEN r ELSE r - 1
           from(k) == IF i <= Half THEN (IF k <= i THEN k - 1 ELSE k) ELSE IF k < i THEN k ELSE k + 1
           gap == IF i <= Half THEN 1 ELSE N
<1>1. /\ N = 2 * Half /\ Half \in Nat \ {0} /\ N \in Nat /\ M \in Nat /\ M + 1 = N
      /\ l \in 0 .. Half /\ r \in 0 .. Half /\ leaves \in [1 .. N -> T]
  BY HalfOK DEF Slots
<1>2. /\ \A k \in 1 .. N : leaves[k] # NoNode <=> Half - l < k /\ k <= Half + r
      /\ \A j, k \in 1 .. N : leaves[j] # NoNode /\ leaves[k] # NoNode /\ Before(j, k) => leaves[j] < leaves[k]
  BY DEF Slots
<1>3. rest \in [1 .. M -> T] /\ \A k \in 1 .. M : rest[k] = IF k < i THEN leaves[k] ELSE leaves[k + 1]
  <2>1. leaves \in [1 .. M + 1 -> T] /\ i \in 1 .. M + 1
    BY <1>1
  <2> HIDE DEF M, T
  <2>2. rest \in [1 .. M -> T]
    BY <1>1, <2>1, SlotRemoved
  <2>3. IsRemoved(rest, leaves, M, i)
    BY <1>1, <2>1, SlotRemoved
  <2> HIDE DEF rest
  <2> QED BY <2>2, <2>3 DEF IsRemoved
<1>4. NoNode \in T
  OBVIOUS
<1> HIDE DEF rest, M
<1>5. rest \in Seq(T) /\ Len(rest) = M
  BY <1>1, <1>3, LeavesSeq
<1>6. ASSUME i <= Half
      PROVE  new \in [1 .. N -> T] /\ \A k \in 1 .. N : new[k] = IF k = gap THEN NoNode ELSE leaves[from(k)]
  <2>1. new = <<NoNode>> \o rest
    BY <1>6 DEF LeavesWithout, rest
  <2>2. <<NoNode>> \in Seq(T) /\ Len(<<NoNode>>) = 1 /\ <<NoNode>>[1] = NoNode
    BY <1>4
  <2> DEFINE c == <<NoNode>> \o rest
  <2>3. /\ c \in Seq(T) /\ Len(c) = N
        /\ \A k \in 1 .. N : c[k] = IF k = 1 THEN NoNode ELSE rest[k - 1]
    <3>1. /\ c \in Seq(T) /\ Len(c) = Len(<<NoNode>>) + Len(rest)
          /\ \A k \in 1 .. Len(<<NoNode>>) + Len(rest) :
                c[k] = IF k <= Len(<<NoNode>>) THEN <<NoNode>>[k] ELSE rest[k - Len(<<NoNode>>)]
      BY <1>5, <2>2, ConcatProperties
    <3>2. Len(<<NoNode>>) + Len(rest) = N
      BY <1>1, <1>5, <2>2
    <3>3. ASSUME NEW k \in 1 .. N
          PROVE  c[k] = IF k = 1 THEN NoNode ELSE rest[k - 1]
      <4>1. k <= 1 <=> k = 1
        OBVIOUS
      <4> HIDE DEF c
      <4> QED BY <2>2, <3>1, <3>2, <4>1
    <3> QED BY <3>1, <3>2, <3>3
  <2> HIDE DEF c
  <2>4. c \in [1 .. N -> T]
    BY <1>1, <2>3, LeavesSeq
  <2>5. ASSUME NEW k \in 1 .. N
        PROVE  new[k] = IF k = gap THEN NoNode ELSE leaves[from(k)]
    <3>1. CASE k = 1
      BY <1>6, <2>1, <2>3, <3>1 DEF c
    <3>2. CASE k # 1
      <4>1. k - 1 \in 1 .. M /\ (k - 1 < i <=> k <= i) /\ k - 1 + 1 = k
        BY <1>1, <3>2
      <4>2. rest[k - 1] = IF k <= i THEN leaves[k - 1] ELSE leaves[k]
        BY <1>3, <4>1
      <4> QED BY <1>6, <2>1, <2>3, <3>2, <4>2 DEF c
    <3> QED BY <3>1, <3>2
  <2> QED BY <2>1, <2>4, <2>5 DEF c
<1>7. ASSUME ~(i <= Half)
      PROVE  new \in [1 .. N -> T] /\ \A k \in 1 .. N : new[k] = IF k = gap THEN NoNode ELSE leaves[from(k)]
  <2>1. new = Append(rest, NoNode)
    BY <1>7 DEF LeavesWithout, rest
  <2> DEFINE c == Append(rest, NoNode)
  <2>2. N \in 1 .. N /\ N = M + 1
    BY <1>1
  <2>3. /\ c \in Seq(T) /\ Len(c) = N
        /\ \A k \in 1 .. N : c[k] = IF k = N THEN NoNode ELSE rest[k]
    <3>1. /\ c \in Seq(T) /\ Len(c) = Len(rest) + 1
          /\ \A k \in 1 .. Len(rest) : c[k] = rest[k]
          /\ c[Len(rest) + 1] = NoNode
      BY <1>4, <1>5, AppendProperties
    <3>2. \A k \in 1 .. N : k # N => k \in 1 .. M
      BY <1>1
    <3> HIDE DEF c
    <3> QED BY <1>5, <2>2, <3>1, <3>2
  <2> HIDE DEF c
  <2>4. c \in [1 .. N -> T]
    BY <1>1, <2>3, LeavesSeq
  <2>5. ASSUME NEW k \in 1 .. N
        PROVE  new[k] = IF k = gap THEN NoNode ELSE leaves[from(k)]
    <3>1. CASE k = N
      BY <1>7, <2>1, <2>3, <3>1 DEF c
    <3>2. CASE k # N
      <4>1. k \in 1 .. M
        BY <1>1, <3>2
      <4>2. rest[k] = IF k < i THEN leaves[k] ELSE leaves[k + 1]
        BY <1>3, <4>1
      <4> QED BY <1>7, <2>1, <2>3, <3>2, <4>2 DEF c
    <3> QED BY <3>1, <3>2
  <2> QED BY <2>1, <2>4, <2>5 DEF c
<1>8. new \in [1 .. N -> T] /\ \A k \in 1 .. N : new[k] = IF k = gap THEN NoNode ELSE leaves[from(k)]
  BY <1>6, <1>7
<1>9. Half - l < i /\ i <= Half + r
  BY <1>2
<1> HIDE DEF new
<1>10. ASSUME NEW k \in 1 .. N, k # gap
       PROVE  /\ from(k) \in 1 .. N /\ from(k) # i /\ new[k] = leaves[from(k)]
              /\ Half - l < from(k) /\ from(k) <= Half + r <=> Half - x < k /\ k <= Half + y
  BY <1>1, <1>8, <1>9, <1>10
<1>11. ASSUME NEW j \in 1 .. N, NEW k \in 1 .. N, j # gap, k # gap, Before(j, k)
       PROVE  Before(from(j), from(k))
  BY <1>1, <1>9, <1>11 DEF Before
<1>12. x \in 0 .. Half /\ y \in 0 .. Half /\ gap \in 1 .. N /\ ~(Half - x < gap /\ gap <= Half + y)
  BY <1>1, <1>9
<1>13. new[gap] = NoNode
  BY <1>8, <1>12
<1>14. ASSUME NEW j \in 1 .. N, j # i
       PROVE  \E k \in 1 .. N : k # gap /\ from(k) = j
  <2> DEFINE k == IF i <= Half THEN (IF j < i THEN j + 1 ELSE j) ELSE IF j < i THEN j ELSE j - 1
  <2>1. k \in 1 .. N /\ k # gap /\ from(k) = j
    BY <1>1, <1>14
  <2> HIDE DEF k, from, gap
  <2> QED BY <2>1
<1> HIDE DEF from, gap, x, y
<1>15. \A k \in 1 .. N : new[k] # NoNode <=> Half - x < k /\ k <= Half + y
  BY <1>2, <1>10, <1>12, <1>13
<1>16. \A j, k \in 1 .. N : new[j] # NoNode /\ new[k] # NoNode /\ Before(j, k) => new[j] < new[k]
  BY <1>2, <1>10, <1>11, <1>13
<1>17. Slots(new, x, y)
  BY <1>8, <1>12, <1>15, <1>16 DEF Slots
<1>18. Leaves(new) = Leaves(leaves) \ {leaves[i]}
  <2>1. \A m : m \in Leaves(new) <=> m # NoNode /\ \E k \in 1 .. N : new[k] = m
    BY <1>17, SlotsOK
  <2>2. \A m : m \in Leaves(leaves) <=> m # NoNode /\ \E k \in 1 .. N : leaves[k] = m
    BY SlotsOK
  <2>3. \A j \in 1 .. N : leaves[j] = leaves[i] => j = i
    BY SlotsOK
  <2>4. ASSUME NEW m \in Leaves(new)
        PROVE  m \in Leaves(leaves) /\ m # leaves[i]
    <3>1. PICK k \in 1 .. N : new[k] = m /\ m # NoNode
      BY <2>1
    <3>2. k # gap
      BY <1>13, <3>1
    <3> QED BY <1>10, <2>2, <2>3, <3>1, <3>2
  <2>5. ASSUME NEW m \in Leaves(leaves), m # leaves[i]
        PROVE  m \in Leaves(new)
    <3>1. PICK j \in 1 .. N : leaves[j] = m /\ m # NoNode /\ j # i
      BY <2>2, <2>5
    <3>2. PICK k \in 1 .. N : k # gap /\ from(k) = j
      BY <1>14, <3>1
    <3> QED BY <1>10, <2>1, <3>1, <3>2
  <2> QED BY <2>4, <2>5
<1> QED
  BY <1>17, <1>18 DEF x, y, new

\* A leaf fails: what is left is balanced, and if it is no longer valid nobody can be asked.
LEMMA FailedOK ==
    ASSUME NEW leaves, Good(leaves), NEW i \in 1 .. numberOfLeaves, leaves[i] # NoNode
    PROVE  LET without  == LeavesWithout(leaves, i)
               balanced == Balanced(without)
               ask      == Asked(without, balanced, IF i <= Half THEN Smallest(without) ELSE Biggest(without))
           IN  /\ Good(balanced) /\ Leaves(balanced) = Leaves(leaves) \ {leaves[i]}
               /\ ask \in Node \cup {NoNode}
               /\ ask = NoNode \/ IsValid(balanced) \/ ~IsValid(leaves)
<1> DEFINE without  == LeavesWithout(leaves, i)
           balanced == Balanced(without)
           place    == IF i <= Half THEN Smallest(without) ELSE Biggest(without)
<1>1. PICK l, r : Slots(leaves, l, r) /\ Balance(l, r, 1)
  BY DEF Good
<1> DEFINE x == IF i <= Half THEN l - 1 ELSE l
           y == IF i <= Half THEN r ELSE r - 1
           u == IF x = y + 2 THEN x - 1 ELSE IF y = x + 2 THEN x + 1 ELSE x
           v == IF x = y + 2 THEN y + 1 ELSE IF y = x + 2 THEN y - 1 ELSE y
<1>2. Slots(without, x, y) /\ Leaves(without) = Leaves(leaves) \ {leaves[i]}
  BY <1>1, WithoutOK
<1>3. /\ l \in 0 .. Half /\ r \in 0 .. Half /\ Half \in Nat \ {0} /\ numberOfLeaves = 2 * Half
      /\ l - r <= 1 /\ r - l <= 1
      /\ (i <= Half => l > 0) /\ (~(i <= Half) => r > 0)
  BY <1>1, HalfOK DEF Slots, Balance
<1>4. Balance(x, y, 2) /\ x \in 0 .. Half /\ y \in 0 .. Half
  BY <1>3 DEF Balance
<1> HIDE DEF without, balanced, x, y
<1>5. Slots(balanced, u, v) /\ Balance(u, v, 1) /\ Leaves(balanced) = Leaves(without)
  BY <1>2, <1>4, BalancedOK DEF balanced
<1>6. place = IF i <= Half THEN (IF x = 0 THEN Half ELSE Half - x + 1) ELSE IF y = 0 THEN Half + 1 ELSE Half + y
  BY <1>2, EndsOK
<1> HIDE DEF u, v
<1>7. place \in 1 .. numberOfLeaves
  BY <1>3, <1>4, <1>6
<1>8. balanced[place] \in Node \cup {NoNode}
  BY <1>5, <1>7 DEF Slots
<1>9. IsValid(leaves) => l > 0 /\ r > 0
  BY <1>1, ValidOK
<1>10. u > 0 /\ v > 0 => IsValid(balanced)
  BY <1>5, ValidOK
<1> HIDE DEF place
<1>11. ASSUME IsValid(leaves), ~IsValid(balanced)
       PROVE  balanced[place] = NoNode
  <2>1. l > 0 /\ r > 0 /\ ~(u > 0 /\ v > 0)
    BY <1>9, <1>10, <1>11
  <2>2. IF i <= Half THEN u = 0 /\ place = Half ELSE v = 0 /\ place = Half + 1
    BY <1>3, <1>4, <1>6, <2>1 DEF u, v, x, y
  <2> QED BY <1>3, <1>5, <1>7, <2>2 DEF Slots
<1> QED
  BY <1>2, <1>5, <1>8, <1>11 DEF Good, Asked, without, balanced, place

-----------------------------------------------------------------------------
(***************************************************************************)
(* What the node keeps of its leaf set                                     *)
(***************************************************************************)
LeafSetOK(s) ==
    /\ s.heard \in SUBSET Node /\ Good(s.leaves) /\ Holds(s.leaves, s.heard)
    /\ s.reported = Leaves(s.leaves)
    /\ s.valid => IsValid(s.leaves)

\* The nodes that it waits for, has asked or has found to be dead.
OthersNamed(s) ==
    /\ s.state \in {"JOIN", "READY", "CRASH"}
    /\ s.pending \in SUBSET Node /\ s.dead \in SUBSET Node /\ s.repairs \in SUBSET Node
    /\ \A a \in s.awaiting : a.node \in Node /\ a.left \in BOOLEAN
    /\ Len(s.queue) <= QueueLimit

Keeps(s) == LeafSetOK(s) /\ OthersNamed(s)

\* What changes the leaf set in nothing.
SameLeaves(s, t) == t.leaves = s.leaves /\ t.heard = s.heard /\ t.reported = s.reported /\ t.valid = s.valid

LEMMA SameLeavesOK ==
    ASSUME NEW s, LeafSetOK(s), NEW t, SameLeaves(s, t)
    PROVE  LeafSetOK(t)
BY DEF LeafSetOK, SameLeaves

LEMMA EmptyLeavesOK ==
    Good(EmptyLeaves) /\ Holds(EmptyLeaves, {}) /\ Leaves(EmptyLeaves) = {}
<1>1. Half \in Nat \ {0} /\ numberOfLeaves = 2 * Half /\ numberOfLeaves \in Nat
  BY HalfOK
<1>2. /\ EmptyLeaves \in [1 .. numberOfLeaves -> Node \cup {NoNode}]
      /\ \A i \in 1 .. numberOfLeaves : EmptyLeaves[i] = NoNode
  BY DEF EmptyLeaves
<1>3. \A i \in 1 .. numberOfLeaves : ~(Half - 0 < i /\ i <= Half + 0)
  BY <1>1
<1>4. Slots(EmptyLeaves, 0, 0)
  BY <1>1, <1>2, <1>3 DEF Slots
<1>5. Balance(0, 0, 1)
  BY DEF Balance
<1>6. Leaves(EmptyLeaves) = {}
  BY <1>4, SlotsOK, <1>2
<1> QED
  BY <1>4, <1>5, <1>6 DEF Good, Holds

LEMMA JoinOverlayKeeps ==
    ASSUME NEW s, IsNode(s), NEW boot, NEW path
    PROVE  Keeps(JoinOverlay(s, boot, path))
<1> DEFINE t == JoinOverlay(s, boot, path)
<1>1. /\ t.leaves = EmptyLeaves /\ t.heard = {} /\ t.reported = {} /\ t.valid = FALSE
      /\ t.pending = {} /\ t.dead = {} /\ t.repairs = {} /\ t.awaiting = {} /\ t.queue = << >>
      /\ t.state \in {"JOIN", "READY", "CRASH"}
  <2>1. CASE boot = NoNode
    BY <2>1, ZenonT(30) DEF JoinOverlay, Fresh
  <2>2. CASE boot # NoNode
    BY <2>2, ZenonT(30) DEF JoinOverlay, Fresh
  <2> QED BY <2>1, <2>2
<1> HIDE DEF t
<1>2. Len(t.queue) = 0 /\ QueueLimit \in Nat
  BY <1>1, PastryAssumption
<1>3. OthersNamed(t)
  BY <1>1, <1>2 DEF OthersNamed
<1>4. LeafSetOK(t)
  BY <1>1, EmptyLeavesOK DEF LeafSetOK
<1> QED
  BY <1>3, <1>4 DEF Keeps, t

LEMMA NodesOf ==
    ASSUME NEW nodes \in Seq(Node)
    PROVE  Range(nodes) \in SUBSET Node
<1>1. \A i \in DOMAIN nodes : nodes[i] \in Node
  BY LenProperties, ElementOfSeq
<1> QED
  BY <1>1 DEF Range

LEMMA MergeKeeps ==
    ASSUME NEW s, IsNode(s), Keeps(s), NEW nodes \in Seq(Node), NEW dead
    PROVE  Keeps(MergeState(s, nodes, dead))
<1> DEFINE new      == Merged(s.leaves, nodes, dead)
           reported == (s.reported \ (Leaves(s.leaves) \ Leaves(new))) \cup (Leaves(new) \ Leaves(s.leaves))
           heard    == s.heard \cup (Range(nodes) \ dead)
           valid    == s.valid \/ IsValid(new)
           t        == MergeState(s, nodes, dead)
<1>1. Good(new) /\ Holds(new, heard) /\ (IsValid(s.leaves) => IsValid(new))
  BY MergedOK DEF Keeps, LeafSetOK
<1>2. t = [s EXCEPT !.leaves = new, !.reported = reported, !.heard = heard, !.valid = valid]
  BY DEF MergeState
<1>3. heard \in SUBSET Node
  BY NodesOf DEF Keeps, LeafSetOK
<1>4. reported = Leaves(new)
  BY DEF Keeps, LeafSetOK
<1>5. valid => IsValid(new)
  BY <1>1 DEF Keeps, LeafSetOK
<1> HIDE DEF new, reported, heard, valid, t
<1>6. /\ t.leaves = new /\ t.reported = reported /\ t.heard = heard /\ t.valid = valid
      /\ t.pending = s.pending /\ t.dead = s.dead /\ t.repairs = s.repairs /\ t.awaiting = s.awaiting
      /\ t.queue = s.queue /\ t.state = s.state
  BY <1>2 DEF IsNode, Fields
<1>7. LeafSetOK(t)
  BY <1>1, <1>3, <1>4, <1>5, <1>6 DEF LeafSetOK
<1>8. OthersNamed(t)
  BY <1>6 DEF Keeps, OthersNamed
<1> QED
  BY <1>7, <1>8 DEF Keeps, t
\* The nodes that are waited for and those found to be dead change, and the rest of what the
\* node names stays.
LEMMA WaitsKeeps ==
    ASSUME NEW s, Keeps(s), NEW t, SameLeaves(s, t),
           t.state \in {"JOIN", "READY", "CRASH"}, t.pending \in SUBSET Node, t.dead \in SUBSET Node,
           t.repairs = s.repairs, t.awaiting = s.awaiting, Len(t.queue) <= QueueLimit
    PROVE  Keeps(t)
<1>1. LeafSetOK(t)
  BY SameLeavesOK DEF Keeps
<1> QED
  BY <1>1 DEF Keeps, OthersNamed

LEMMA BuildStateKeeps ==
    ASSUME NEW s, IsNode(s), Keeps(s), Last(s.received).nodes \in Seq(Node), NEW boot, NEW path
    PROVE  Keeps(BuildState(s, boot, path))
<1> DEFINE last == Last(s.received)
           b == [hop |-> last.hop, way |-> last.way, kind |-> last.kind]
           t == MergeState(s, last.nodes, s.dead)
           r == [t EXCEPT !.cached = FALSE, !.pending = {}, !.dead = {}, !.basis = b]
           u == Ready(r)
<1>1. CASE BuildState(s, boot, path) = JoinOverlay(s, boot, path)
  BY <1>1, JoinOverlayKeeps
<1>2. CASE BuildState(s, boot, path) = u
  <2>1. IsNode(t) /\ Keeps(t)
    BY MergeFields, MergeKeeps
  <2> HIDE DEF t, b
  <2>2. /\ u.leaves = t.leaves /\ u.heard = t.heard /\ u.reported = t.reported /\ u.valid = t.valid
        /\ u.state = "READY" /\ u.pending = {} /\ u.dead = {} /\ u.repairs = t.repairs /\ u.awaiting = t.awaiting
        /\ u.queue = t.queue
    BY <2>1, ZenonT(30) DEF Ready, IsNode, Fields
  <2>3. Len(t.queue) <= QueueLimit
    BY <2>1 DEF Keeps, OthersNamed
  <2> HIDE DEF u
  <2>4. SameLeaves(t, u) /\ Len(u.queue) <= QueueLimit
    BY <2>2, <2>3 DEF SameLeaves
  <2>5. Keeps(u)
    BY <2>1, <2>2, <2>4, WaitsKeeps
  <2> QED BY <1>2, <2>5
<1> QED
  BY <1>1, <1>2 DEF BuildState

LEMMA ProcessReceivedKeeps ==
    ASSUME NEW s, IsNode(s), ReceivedOK(s), s.hops # 0, Keeps(s), s.state = "JOIN",
           NEW from \in Nat \ {0}, NEW known \in SUBSET Node, NEW boot, NEW path
    PROVE  Keeps(ProcessReceived(s, from, known, boot, path))
<1> DEFINE nodes(i) == Range(s.received[i].nodes)
           waits == {i \in from .. Len(s.received) : nodes(i) \ known # {}}
           j == Min(waits)
           r == ProcessReceived(s, from, known, boot, path)
<1>1. s.received \in Seq(ReceivedType) /\ Len(s.received) \in Nat
  BY LenProperties DEF IsNode
<1>2. ASSUME NEW i \in 1 .. Len(s.received)
      PROVE  s.received[i].nodes \in Seq(Node)
  <2>1. s.received[i] \in ReceivedType
    BY <1>1, ElementOfSeq
  <2> QED BY <2>1 DEF ReceivedType
<1>3. CASE waits = {}
  <2> DEFINE d == IF from <= Len(s.received) THEN known \ alive ELSE s.dead
             t == [s EXCEPT !.dead = d]
  <2>1. r = BuildState(t, boot, path)
    BY <1>3 DEF ProcessReceived
  <2>2. d \in SUBSET Node /\ Len(s.queue) <= QueueLimit /\ s.pending \in SUBSET Node
    BY DEF Keeps, OthersNamed
  <2> HIDE DEF d
  <2>3. /\ IsNode(t) /\ t.state = s.state /\ t.received = s.received /\ t.pending = s.pending /\ t.dead = d
        /\ t.repairs = s.repairs /\ t.awaiting = s.awaiting /\ t.queue = s.queue
        /\ t.leaves = s.leaves /\ t.heard = s.heard /\ t.reported = s.reported /\ t.valid = s.valid
    BY DEF IsNode, Fields
  <2> HIDE DEF t
  <2>4. SameLeaves(s, t) /\ Len(t.queue) <= QueueLimit
    BY <2>2, <2>3 DEF SameLeaves
  <2>5. Keeps(t)
    BY <2>2, <2>3, <2>4, WaitsKeeps
  <2>6. Last(t.received).nodes \in Seq(Node)
    <3>1. Len(s.received) \in 1 .. Len(s.received)
      BY <1>1 DEF ReceivedOK
    <3> QED BY <1>2, <2>3, <3>1 DEF Last
  <2>7. Keeps(BuildState(t, boot, path))
    BY <2>3, <2>5, <2>6, BuildStateKeeps
  <2> QED BY <2>1, <2>7
<1>4. CASE waits # {}
  <2>1. waits \in SUBSET Nat
    BY <1>1
  <2>2. j \in waits
    BY <1>4, <2>1, Least
  <2> DEFINE rest == nodes(j) \ known
             d == (known \cap nodes(j)) \ alive
  <2>3. rest \in SUBSET Node /\ d \in SUBSET Node
    <3>1. j \in 1 .. Len(s.received)
      BY <1>1, <2>2
    <3>2. nodes(j) \in SUBSET Node
      BY <1>2, <3>1, NodesOf
    <3> HIDE DEF nodes
    <3> QED BY <3>2
  <2>4. r = [s EXCEPT !.pos = j, !.cached = TRUE, !.pending = rest, !.dead = d]
    BY <1>4 DEF ProcessReceived
  <2>5. Len(s.queue) <= QueueLimit
    BY DEF Keeps, OthersNamed
  <2> HIDE DEF r, j, waits, rest, d
  <2>6. /\ r.state = s.state /\ r.pending = rest /\ r.dead = d
        /\ r.repairs = s.repairs /\ r.awaiting = s.awaiting /\ r.queue = s.queue
        /\ r.leaves = s.leaves /\ r.heard = s.heard /\ r.reported = s.reported /\ r.valid = s.valid
    BY <2>4 DEF IsNode, Fields
  <2>7. SameLeaves(s, r) /\ Len(r.queue) <= QueueLimit
    BY <2>5, <2>6 DEF SameLeaves
  <2>8. Keeps(r)
    BY <2>3, <2>6, <2>7, WaitsKeeps
  <2> QED BY <2>8 DEF r
<1> QED
  BY <1>3, <1>4

LEMMA ProcessQueueKeeps ==
    ASSUME NEW s, IsNode(s), Keeps(s), NEW queue \in Seq(SUBSET Node), Len(queue) <= QueueLimit, NEW known
    PROVE  Keeps(ProcessQueue(s, queue, known))
<1> DEFINE waits == {i \in DOMAIN queue : queue[i] \ known # {}}
           j == Min(waits)
           r == ProcessQueue(s, queue, known)
<1>1. Len(queue) \in Nat /\ DOMAIN queue = 1 .. Len(queue) /\ Len(<< >>) = 0 /\ QueueLimit \in Nat
  BY LenProperties, EmptySeq, PastryAssumption
<1>2. s.dead \in SUBSET Node /\ s.state \in {"JOIN", "READY", "CRASH"}
  BY DEF Keeps, OthersNamed
<1>3. CASE waits = {}
  <2>1. r = [s EXCEPT !.cached = FALSE, !.pending = {}, !.queue = << >>]
    BY <1>3 DEF ProcessQueue
  <2> HIDE DEF r
  <2>2. /\ r.state = s.state /\ r.pending = {} /\ r.dead = s.dead
        /\ r.repairs = s.repairs /\ r.awaiting = s.awaiting /\ r.queue = << >>
        /\ r.leaves = s.leaves /\ r.heard = s.heard /\ r.reported = s.reported /\ r.valid = s.valid
    BY <2>1 DEF IsNode, Fields
  <2>3. SameLeaves(s, r) /\ Len(r.queue) <= QueueLimit
    BY <1>1, <2>2 DEF SameLeaves
  <2>4. Keeps(r)
    BY <1>2, <2>2, <2>3, WaitsKeeps
  <2> QED BY <2>4 DEF r
<1>4. CASE waits # {}
  <2>1. waits \in SUBSET Nat
    BY <1>1
  <2>2. j \in waits
    BY <1>4, <2>1, Least
  <2> DEFINE rest == queue[j] \ known
             q == SubSeq(queue, j + 1, Len(queue))
  <2>3. j \in 1 .. Len(queue)
    BY <1>1, <2>2
  <2>4. rest \in SUBSET Node
    <3>1. queue[j] \in SUBSET Node
      BY <2>3, ElementOfSeq
    <3> QED BY <3>1
  <2>5. Len(q) <= QueueLimit
    <3>1. \A i \in j + 1 .. Len(queue) : queue[i] \in SUBSET Node
      <4>1. \A i \in j + 1 .. Len(queue) : i \in 1 .. Len(queue)
        BY <1>1, <2>3
      <4> QED BY <4>1, ElementOfSeq
    <3>2. j + 1 \in Int /\ Len(queue) \in Int
      BY <1>1, <2>3
    <3>3. Len(q) = IF j + 1 <= Len(queue) THEN Len(queue) - (j + 1) + 1 ELSE 0
      BY <3>1, <3>2, SubSeqProperties
    <3> QED BY <1>1, <2>3, <3>3
  <2>6. r = [s EXCEPT !.cached = TRUE, !.pending = rest, !.queue = q]
    BY <1>4 DEF ProcessQueue
  <2> HIDE DEF r, j, waits, rest, q
  <2>7. /\ r.state = s.state /\ r.pending = rest /\ r.dead = s.dead
        /\ r.repairs = s.repairs /\ r.awaiting = s.awaiting /\ r.queue = q
        /\ r.leaves = s.leaves /\ r.heard = s.heard /\ r.reported = s.reported /\ r.valid = s.valid
    BY <2>6 DEF IsNode, Fields
  <2>8. SameLeaves(s, r) /\ Len(r.queue) <= QueueLimit
    BY <2>5, <2>7 DEF SameLeaves
  <2>9. Keeps(r)
    BY <1>2, <2>4, <2>7, <2>8, WaitsKeeps
  <2> QED BY <2>9 DEF r
<1> QED
  BY <1>3, <1>4

LEMMA CheckProxCacheKeeps ==
    ASSUME NEW s, Basis(s), Keeps(s), s.state = "JOIN" => s.hops # 0, NEW known \in SUBSET Node,
           NEW boot, NEW path
    PROVE  Keeps(CheckProxCache(s, known, boot, path))
<1>1. /\ s.pos + 1 \in Nat \ {0} /\ s.queue \in Seq(SUBSET Node) /\ IsNode(s) /\ Len(s.queue) <= QueueLimit
      /\ s.state = "JOIN" => ReceivedOK(s)
  BY DEF Basis, IsNode, Keeps, OthersNamed
<1>2. CASE s.pending # {}
  <2>1. CheckProxCache(s, known, boot, path) = s
    BY <1>2 DEF CheckProxCache
  <2> QED BY <2>1
<1>3. CASE s.pending = {} /\ s.state = "JOIN"
  <2>1. CheckProxCache(s, known, boot, path) = ProcessReceived(s, s.pos + 1, known, boot, path)
    BY <1>3 DEF CheckProxCache
  <2> QED BY <1>1, <1>3, <2>1, ProcessReceivedKeeps
<1>4. CASE s.pending = {} /\ s.state # "JOIN"
  <2>1. CheckProxCache(s, known, boot, path) = ProcessQueue(s, s.queue, known)
    BY <1>4 DEF CheckProxCache
  <2> QED BY <1>1, <2>1, ProcessQueueKeeps
<1> QED
  BY <1>2, <1>3, <1>4
LEMMA ReceiveJoinKeeps ==
    ASSUME NEW s, Basis(s), Keeps(s), s.state = "JOIN", NEW m \in ReceivedType, NEW known \in SUBSET Node,
           m.kind = "last" => m.hop # 0 /\ s.hops = 0 /\ ~s.joinCall,
           m.kind = "hop" => OnWay(s, m.hop, m.way), NEW boot, NEW path
    PROVE  Keeps(ReceiveJoin(s, m, known, boot, path))
<1> DEFINE count == Len(s.received) + 1
           hops  == IF m.kind = "last" THEN m.hop ELSE s.hops
           new   == Added(s.received, m)
           wait  == s.readyWait \/ (m.kind = "last" /\ StillWaits(m.hop, count))
           t     == [s EXCEPT !.received = new, !.hops = hops, !.readyWait = wait]
           u     == [t EXCEPT !.readyWait = FALSE]
           r     == ReceiveJoin(s, m, known, boot, path)
<1>1. IsNode(s) /\ ReceivedOK(s) /\ s.received \in Seq(ReceivedType) /\ s.hops \in Nat
  BY DEF Basis, IsNode
<1>2. m.hop \in Nat /\ m.kind \in {"last", "hop"}
  BY DEF ReceivedType
<1>3. Extends(s.received, m, new)
  BY <1>1, AddedOK DEF ReceivedOK
<1>4. \/ r = s
      \/ r = JoinOverlay(s, boot, path)
      \/ hops # 0 /\ r = ProcessReceived(u, 1, known, boot, path)
      \/ r = t
  <2>1. count \in Nat /\ count # 0
    BY <1>3 DEF Extends
  <2> QED BY <2>1 DEF ReceiveJoin
<1> HIDE DEF r, wait, hops, new
<1>5. hops \in Nat /\ new \in Seq(ReceivedType)
  BY <1>1, <1>2, <1>3 DEF hops, Extends
<1>6. \A x \in {t, u} :
         /\ IsNode(x) /\ x.state = s.state /\ x.received = new /\ x.hops = hops /\ x.joinCall = s.joinCall
         /\ x.ways = s.ways /\ SameLeaves(s, x)
         /\ x.pending = s.pending /\ x.dead = s.dead /\ x.repairs = s.repairs /\ x.awaiting = s.awaiting
         /\ x.queue = s.queue
  <2>1. /\ IsNode(t) /\ t.state = s.state /\ t.received = new /\ t.hops = hops /\ t.joinCall = s.joinCall
        /\ t.ways = s.ways
        /\ t.leaves = s.leaves /\ t.heard = s.heard /\ t.reported = s.reported /\ t.valid = s.valid
        /\ t.pending = s.pending /\ t.dead = s.dead /\ t.repairs = s.repairs /\ t.awaiting = s.awaiting
        /\ t.queue = s.queue
    BY <1>1, <1>5 DEF IsNode, Fields
  <2> HIDE DEF t
  <2>2. /\ IsNode(u) /\ u.state = t.state /\ u.received = t.received /\ u.hops = t.hops /\ u.joinCall = t.joinCall
        /\ u.ways = t.ways
        /\ u.leaves = t.leaves /\ u.heard = t.heard /\ u.reported = t.reported /\ u.valid = t.valid
        /\ u.pending = t.pending /\ u.dead = t.dead /\ u.repairs = t.repairs /\ u.awaiting = t.awaiting
        /\ u.queue = t.queue
    BY <2>1 DEF IsNode, Fields
  <2> HIDE DEF u
  <2> QED BY <2>1, <2>2 DEF SameLeaves
<1>7. Len(s.queue) <= QueueLimit /\ s.pending \in SUBSET Node /\ s.dead \in SUBSET Node
      /\ s.state \in {"JOIN", "READY", "CRASH"}
  BY DEF Keeps, OthersNamed
<1>8. \A x \in {t, u} : Keeps(x)
  <2> HIDE DEF t, u
  <2>1. \A x \in {t, u} : Len(x.queue) <= QueueLimit
    BY <1>6, <1>7
  <2> QED BY <1>6, <1>7, <2>1, WaitsKeeps
<1>9. CASE r = s
  BY <1>9 DEF r
<1>10. CASE r = JoinOverlay(s, boot, path)
  BY <1>1, <1>10, JoinOverlayKeeps DEF r
<1>11. CASE hops # 0 /\ r = ProcessReceived(u, 1, known, boot, path)
  <2>1. LastIsHighest(new)
    BY <1>3 DEF Extends
  <2>2. ASSUME NEW i \in 1 .. Len(new), new[i].kind = "hop"
        PROVE  OnWay(s, new[i].hop, new[i].way)
    <3>1. new[i] = m \/ \E j \in 1 .. Len(s.received) : new[i] = s.received[j]
      BY <1>3 DEF Extends
    <3> QED BY <1>1, <2>2, <3>1 DEF ReceivedOK
  <2>3. \E i \in 1 .. Len(new) : new[i].hop = hops
    <3>1. CASE m.kind = "last"
      BY <1>3, <3>1 DEF hops, Extends
    <3>2. CASE m.kind # "last"
      <4>1. s.hops # 0 /\ hops = s.hops
        BY <1>11, <3>2 DEF hops
      <4>2. PICK j \in 1 .. Len(s.received) : s.received[j].hop = s.hops
        BY <1>1, <4>1 DEF ReceivedOK
      <4>3. PICK i \in 1 .. Len(new) : new[i] = s.received[j]
        BY <1>3 DEF Extends
      <4> QED BY <4>1, <4>2, <4>3
    <3> QED BY <3>1, <3>2
  <2>4. ~s.joinCall
    BY <1>1, <1>11 DEF ReceivedOK, hops
  <2> HIDE DEF t, u
  <2>5. IsNode(u) /\ u.received = new /\ u.hops = hops /\ u.joinCall = s.joinCall /\ u.ways = s.ways /\ u.state = "JOIN"
    BY <1>6
  <2>6. ReceivedOK(u) /\ u.hops # 0
    BY <1>11, <2>1, <2>2, <2>3, <2>4, <2>5 DEF ReceivedOK, OnWay
  <2> QED BY <1>8, <1>11, <2>5, <2>6, ProcessReceivedKeeps DEF r
<1>12. CASE r = t
  <2> HIDE DEF t, u
  <2> QED BY <1>8, <1>12 DEF r
<1> QED
  BY <1>4, <1>9, <1>10, <1>11, <1>12

LEMMA ProcessKeeps ==
    ASSUME NEW s, IsNode(s), Keeps(s), NEW nodes \in Seq(Node), NEW known
    PROVE  Keeps(Process(s, nodes, known))
<1> DEFINE set == Range(nodes)
<1>1. set \in SUBSET Node
  BY NodesOf
<1> HIDE DEF set
<1>2. Len(s.queue) <= QueueLimit /\ QueueLimit \in Nat \ {0} /\ s.queue \in Seq(SUBSET Node)
      /\ s.pending \in SUBSET Node /\ s.dead \in SUBSET Node /\ s.state \in {"JOIN", "READY", "CRASH"}
  BY PastryAssumption DEF Keeps, OthersNamed, IsNode
<1>3. CASE ~s.cached
  <2>1. <<set>> \in Seq(SUBSET Node) /\ Len(<<set>>) = 1
    BY <1>1
  <2>2. Process(s, nodes, known) = ProcessQueue(s, <<set>>, known)
    BY <1>3 DEF Process, set
  <2>3. Len(<<set>>) <= QueueLimit
    BY <1>2, <2>1
  <2> QED BY <2>1, <2>2, <2>3, ProcessQueueKeeps
<1>4. CASE s.cached
  <2> DEFINE queue == Append(s.queue, set)
             q == IF Len(queue) > QueueLimit THEN Tail(queue) ELSE queue
             r == [s EXCEPT !.queue = q]
  <2>1. queue \in Seq(SUBSET Node) /\ Len(queue) = Len(s.queue) + 1 /\ Len(s.queue) \in Nat
    BY <1>1, <1>2, AppendProperties, LenProperties
  <2> HIDE DEF queue
  <2>2. Len(q) <= QueueLimit
    <3>1. queue # << >>
      BY <2>1, EmptySeq
    <3>2. Len(Tail(queue)) = Len(queue) - 1
      BY <2>1, <3>1, HeadTailProperties
    <3> QED BY <1>2, <2>1, <3>2
  <2>3. Process(s, nodes, known) = r
    BY <1>4 DEF Process, queue, set
  <2> HIDE DEF q
  <2>4. /\ r.state = s.state /\ r.pending = s.pending /\ r.dead = s.dead
        /\ r.repairs = s.repairs /\ r.awaiting = s.awaiting /\ r.queue = q
        /\ r.leaves = s.leaves /\ r.heard = s.heard /\ r.reported = s.reported /\ r.valid = s.valid
    BY DEF IsNode, Fields
  <2> HIDE DEF r
  <2>5. SameLeaves(s, r) /\ Len(r.queue) <= QueueLimit
    BY <2>2, <2>4 DEF SameLeaves
  <2>6. Keeps(r)
    BY <1>2, <2>4, <2>5, WaitsKeeps
  <2> QED BY <2>3, <2>6
<1> QED
  BY <1>3, <1>4

LEMMA ReceiveStateKeeps ==
    ASSUME NEW s, IsNode(s), Keeps(s), NEW nodes \in Seq(Node), NEW known
    PROVE  Keeps(ReceiveState(s, nodes, known))
<1> DEFINE t == MergeState(s, nodes, known \ alive)
<1>1. IsNode(t) /\ Keeps(t)
  BY MergeFields, MergeKeeps
<1> HIDE DEF t
<1>2. Keeps(Process(t, nodes, known))
  BY <1>1, ProcessKeeps
<1> QED
  BY <1>2 DEF ReceiveState, t

\* The nodes that are asked for repairs change, and nothing else that the node keeps.
LEMMA AsksKeeps ==
    ASSUME NEW s, IsNode(s), Keeps(s), NEW awaiting, NEW repairs \in SUBSET Node,
           \A a \in awaiting : a.node \in Node /\ a.left \in BOOLEAN
    PROVE  /\ IsNode([s EXCEPT !.awaiting = awaiting, !.repairs = repairs])
           /\ Keeps([s EXCEPT !.awaiting = awaiting, !.repairs = repairs])
           /\ SameLeaves(s, [s EXCEPT !.awaiting = awaiting, !.repairs = repairs])
<1> DEFINE t == [s EXCEPT !.awaiting = awaiting, !.repairs = repairs]
<1>1. /\ IsNode(t) /\ t.state = s.state /\ t.pending = s.pending /\ t.dead = s.dead
      /\ t.repairs = repairs /\ t.awaiting = awaiting /\ t.queue = s.queue
      /\ t.leaves = s.leaves /\ t.heard = s.heard /\ t.reported = s.reported /\ t.valid = s.valid
  BY DEF IsNode, Fields
<1> HIDE DEF t
<1>2. SameLeaves(s, t)
  BY <1>1 DEF SameLeaves
<1>3. LeafSetOK(t)
  BY <1>2, SameLeavesOK DEF Keeps
<1>4. OthersNamed(t)
  BY <1>1 DEF Keeps, OthersNamed
<1> QED
  BY <1>1, <1>2, <1>3, <1>4 DEF Keeps, t

LEMMA AskForKeeps ==
    ASSUME NEW s, IsNode(s), Keeps(s), NEW ask \in Node, NEW left \in BOOLEAN
    PROVE  Keeps(AskFor(s, ask, left))
<1> DEFINE asked    == [node |-> ask, left |-> left]
           awaiting == {a \in s.awaiting : a.node # ask} \cup {asked}
           repairs  == s.repairs \cup {ask}
<1>1. asked.node \in Node /\ asked.left \in BOOLEAN
  OBVIOUS
<1> HIDE DEF asked
<1>2. repairs \in SUBSET Node /\ \A a \in awaiting : a.node \in Node /\ a.left \in BOOLEAN
  BY <1>1 DEF Keeps, OthersNamed
<1>3. AskFor(s, ask, left) = [s EXCEPT !.awaiting = awaiting, !.repairs = repairs]
  BY DEF AskFor, asked
<1> HIDE DEF awaiting, repairs
<1>4. Keeps([s EXCEPT !.awaiting = awaiting, !.repairs = repairs])
  BY <1>2, AsksKeeps
<1> QED
  BY <1>3, <1>4
\* The leaf at the end of a half, where a repair asks.
LEMMA EndLeaf ==
    ASSUME NEW leaves, Good(leaves), NEW left \in BOOLEAN
    PROVE  leaves[IF left THEN Smallest(leaves) ELSE Biggest(leaves)] \in Node \cup {NoNode}
<1>1. PICK l, r : Slots(leaves, l, r)
  BY DEF Good
<1>2. Half \in Nat \ {0} /\ numberOfLeaves = 2 * Half /\ l \in 0 .. Half /\ r \in 0 .. Half
  BY <1>1, HalfOK DEF Slots
<1>3. /\ Smallest(leaves) = IF l = 0 THEN Half ELSE Half - l + 1
      /\ Biggest(leaves) = IF r = 0 THEN Half + 1 ELSE Half + r
  BY <1>1, EndsOK
<1> DEFINE i == IF left THEN Smallest(leaves) ELSE Biggest(leaves)
<1>4. i \in 1 .. numberOfLeaves
  BY <1>2, <1>3
<1> HIDE DEF i
<1>5. leaves[i] \in Node \cup {NoNode}
  BY <1>1, <1>4 DEF Slots
<1> QED
  BY <1>5 DEF i

LEMMA RepairKeeps ==
    ASSUME NEW s, IsNode(s), Keeps(s), NEW from, NEW nodes \in Seq(Node), NEW known, NEW outdated
    PROVE  IsNode(Repair(s, from, nodes, known, outdated)) /\ Keeps(Repair(s, from, nodes, known, outdated))
<1> DEFINE r     == Repair(s, from, nodes, known, outdated)
           waits == {a \in s.awaiting : a.node \notin outdated}
           left  == (CHOOSE a \in waits : a.node = from).left
           rest  == {a \in waits : a.node # from}
           u     == [s EXCEPT !.awaiting = rest]
           t     == MergeState(u, nodes, known \ alive)
           ask   == t.leaves[IF left THEN Smallest(t.leaves) ELSE Biggest(t.leaves)]
<1>1. \/ r = [s EXCEPT !.awaiting = waits]
      \/ (\E a \in waits : a.node = from) /\ (r = t \/ (ask # NoNode /\ r = AskFor(t, ask, left)))
  BY DEF Repair
<1>2. \A a \in waits : a.node \in Node /\ a.left \in BOOLEAN
  BY DEF Keeps, OthersNamed
<1>3. \A a \in rest : a.node \in Node /\ a.left \in BOOLEAN
  BY <1>2
<1>4. (\E a \in waits : a.node = from) => left \in BOOLEAN
  BY <1>2
<1> HIDE DEF r, waits, left, rest
<1>5. ASSUME NEW b, \A a \in b : a.node \in Node /\ a.left \in BOOLEAN
      PROVE  IsNode([s EXCEPT !.awaiting = b]) /\ Keeps([s EXCEPT !.awaiting = b])
  <2>1. [s EXCEPT !.awaiting = b] = [s EXCEPT !.awaiting = b, !.repairs = s.repairs]
    BY DEF IsNode, Fields
  <2>2. s.repairs \in SUBSET Node
    BY DEF Keeps, OthersNamed
  <2>3. /\ IsNode([s EXCEPT !.awaiting = b, !.repairs = s.repairs])
        /\ Keeps([s EXCEPT !.awaiting = b, !.repairs = s.repairs])
    BY <1>5, <2>2, AsksKeeps
  <2> QED BY <2>1, <2>3
<1>6. IsNode(t) /\ Keeps(t)
  <2>1. IsNode(u) /\ Keeps(u)
    BY <1>3, <1>5
  <2> HIDE DEF u
  <2> QED BY <2>1, MergeFields, MergeKeeps
<1> HIDE DEF t
<1>7. CASE r = [s EXCEPT !.awaiting = waits]
  BY <1>2, <1>5, <1>7 DEF r
<1>8. CASE r = t
  BY <1>6, <1>8 DEF r
<1>9. CASE (\E a \in waits : a.node = from) /\ ask # NoNode /\ r = AskFor(t, ask, left)
  <2>1. left \in BOOLEAN
    BY <1>4, <1>9
  <2>2. ask \in Node
    BY <1>6, <1>9, <2>1, EndLeaf DEF Keeps, LeafSetOK
  <2> HIDE DEF ask
  <2>3. Keeps(AskFor(t, ask, left))
    BY <1>6, <2>1, <2>2, AskForKeeps
  <2>4. IsNode(AskFor(t, ask, left))
    BY <1>6 DEF AskFor, IsNode, Fields
  <2> QED BY <1>9, <2>3, <2>4 DEF r
<1> QED
  BY <1>1, <1>7, <1>8, <1>9

LEMMA HandleFailedNodeKeeps ==
    ASSUME NEW s, IsNode(s), Keeps(s), NEW n \in Node, NEW boot, NEW path
    PROVE  Keeps(HandleFailedNode(s, n, boot, path))
<1> DEFINE r        == HandleFailedNode(s, n, boot, path)
           i        == CHOOSE j \in 1 .. numberOfLeaves : s.leaves[j] = n
           left     == i <= Half
           leaves   == LeavesWithout(s.leaves, i)
           balanced == Balanced(leaves)
           ask      == Asked(leaves, balanced, IF left THEN Smallest(leaves) ELSE Biggest(leaves))
           full     == IsFull(s.leaves)
           set      == Leaves(balanced)
           told     == s.reported \ {n}
           v        == [s EXCEPT !.wasFull = full, !.leaves = balanced, !.heard = set]
           t        == ReportsFailed(v, n)
<1>1. \/ r = s
      \/ r = JoinOverlay(s, boot, path)
      \/ n \in Leaves(s.leaves) /\ ask # NoNode /\ r = AskFor(t, ask, left)
      \/ n \in Leaves(s.leaves) /\ ask = NoNode /\ ~(IsValid(s.leaves) /\ ~IsValid(balanced)) /\ r = t
  BY DEF HandleFailedNode
<1>2. CASE r = s
  BY <1>2
<1>3. CASE r = JoinOverlay(s, boot, path)
  BY <1>3, JoinOverlayKeeps
<1>4. CASE \/ n \in Leaves(s.leaves) /\ ask # NoNode /\ r = AskFor(t, ask, left)
           \/ n \in Leaves(s.leaves) /\ ask = NoNode /\ ~(IsValid(s.leaves) /\ ~IsValid(balanced)) /\ r = t
  <2>1. PICK l, rr : Slots(s.leaves, l, rr)
    BY DEF Keeps, LeafSetOK, Good
  <2>2. \E j \in 1 .. numberOfLeaves : s.leaves[j] = n
    BY <1>4, <2>1, SlotsOK
  <2>3. i \in 1 .. numberOfLeaves /\ s.leaves[i] = n
    BY <2>2
  <2>4. n # NoNode
    BY NodeType
  <2> HIDE DEF i
  <2>5. /\ Good(balanced) /\ set = Leaves(s.leaves) \ {n}
        /\ ask \in Node \cup {NoNode} /\ (ask = NoNode \/ IsValid(balanced) \/ ~IsValid(s.leaves))
    BY <2>3, <2>4, FailedOK DEF Keeps, LeafSetOK
  <2>6. set \in SUBSET Node /\ told = set /\ Holds(balanced, set)
    <3>1. Leaves(s.leaves) \subseteq Node
      BY <2>1, SlotsOK
    <3>2. told = set
      BY <2>5 DEF Keeps, LeafSetOK
    <3>3. Holds(balanced, set)
      BY DEF Holds
    <3> HIDE DEF set, told
    <3> QED BY <2>5, <3>1, <3>2, <3>3
  <2> HIDE DEF balanced, ask, full, set, told, left, leaves
  <2>7. /\ IsNode(t) /\ t.state = s.state /\ t.pending = s.pending /\ t.dead = s.dead
        /\ t.repairs = s.repairs /\ t.awaiting = s.awaiting /\ t.queue = s.queue
        /\ t.leaves = balanced /\ t.heard = set /\ t.reported = told /\ t.valid = s.valid
    <3>1. /\ IsNode(v) /\ v.state = s.state /\ v.pending = s.pending /\ v.dead = s.dead
          /\ v.repairs = s.repairs /\ v.awaiting = s.awaiting /\ v.queue = s.queue
          /\ v.leaves = balanced /\ v.heard = set /\ v.reported = s.reported /\ v.valid = s.valid
      BY DEF IsNode, Fields
    <3> HIDE DEF v
    <3>2. t = [v EXCEPT !.reported = told]
      BY <3>1 DEF ReportsFailed, told
    <3> HIDE DEF t
    <3> QED BY <3>1, <3>2 DEF IsNode, Fields
  <2> HIDE DEF t, v
  <2>8. s.valid => IsValid(s.leaves)
    BY DEF Keeps, LeafSetOK
  <2>9. IsValid(s.leaves) => IsValid(balanced)
    BY <1>4, <2>5
  <2>10. Keeps(t)
    <3>1. t.reported = Leaves(t.leaves)
      BY <2>6, <2>7 DEF set
    <3>2. LeafSetOK(t)
      BY <2>5, <2>6, <2>7, <2>8, <2>9, <3>1 DEF LeafSetOK
    <3>3. OthersNamed(t)
      BY <2>7 DEF Keeps, OthersNamed
    <3> QED BY <3>2, <3>3 DEF Keeps
  <2>11. left \in BOOLEAN
    BY <2>3, HalfOK DEF left
  <2>12. ask # NoNode => Keeps(AskFor(t, ask, left))
    BY <2>5, <2>7, <2>10, <2>11, AskForKeeps
  <2> HIDE DEF r
  <2>13. Keeps(r)
    BY <1>4, <2>10, <2>12
  <2> QED BY <2>13 DEF r
<1> HIDE DEF r, t, ask, balanced, left
<1> QED
  BY <1>1, <1>2, <1>3, <1>4
-----------------------------------------------------------------------------
\* What the node keeps of its leaf set, in every state.
LeavesInv == alive \subseteq Node /\ Keeps(p)

LEMMA KeepsStep ==
    ASSUME LeavesInv, NEW s, Keeps(s), NEW states, Becomes(s, states)
    PROVE  LeavesInv'
<1>1. p' = s /\ alive' = alive
  BY DEF Becomes
<1> QED
  BY <1>1 DEF LeavesInv

LEMMA NodesKnown ==
    ASSUME NEW known \in Knowledge
    PROVE  known \in SUBSET Node
BY DEF Knowledge

LEMMA InitKeeps == Init => LeavesInv
<1> SUFFICES ASSUME Init
             PROVE  LeavesInv
  OBVIOUS
<1>1. config \in Config /\ alive = config.nodes
  BY PastryAssumption DEF Init
<1>2. alive \subseteq Node
  BY <1>1 DEF Config
<1>3. CASE config.start = << >>
  <2>1. PICK n \in alive, path \in Paths : p = [JoinOverlay(Fresh, n, path) EXCEPT !.attempt = 0]
    BY <1>3 DEF Init
  <2> DEFINE j == JoinOverlay(Fresh, n, path)
  <2>2. IsNode(j) /\ Keeps(j)
    <3>1. path \in Nat \ {0}
      BY <1>1, BoundsOK
    <3> QED BY <3>1, FreshIsNode, JoinOverlayOK, JoinOverlayKeeps DEF NodeOK, Basis
  <2> HIDE DEF j
  <2>3. /\ p.state = j.state /\ p.pending = j.pending /\ p.dead = j.dead /\ p.repairs = j.repairs
        /\ p.awaiting = j.awaiting /\ p.queue = j.queue
        /\ p.leaves = j.leaves /\ p.heard = j.heard /\ p.reported = j.reported /\ p.valid = j.valid
    <3>1. p = [j EXCEPT !.attempt = 0]
      BY <2>1 DEF j
    <3> QED BY <2>2, <3>1 DEF IsNode, Fields
  <2>4. Keeps(p)
    BY <2>2, <2>3 DEF Keeps, LeafSetOK, OthersNamed
  <2> QED BY <1>2, <2>4 DEF LeavesInv
<1>4. CASE config.start # << >>
  <2> DEFINE r == [Fresh EXCEPT !.state = "READY"]
  <2>1. p = MergeState(r, config.start, {}) /\ config.start \in Seq(Node)
    BY <1>1, <1>4 DEF Init, Config
  <2>2. r = JoinOverlay(Fresh, NoNode, 1)
    BY ZenonT(30) DEF JoinOverlay, Fresh
  <2>3. IsNode(r) /\ Keeps(r)
    BY <2>2, FreshIsNode, JoinOverlayOK, JoinOverlayKeeps DEF NodeOK, Basis
  <2> HIDE DEF r
  <2>4. Keeps(p)
    BY <2>1, <2>3, MergeKeeps
  <2> QED BY <1>2, <2>4 DEF LeavesInv
<1> QED
  BY <1>3, <1>4

LEMMA HandleHopStateKeeps ==
    ASSUME IInv, LeavesInv, NEW m \in net, NEW n \in config.nodes, NEW a \in States, NEW known \in Knowledge,
           HandleHopState(m, n, a, known)
    PROVE  LeavesInv'
<1> DEFINE nodes == Append(a, n)
           state == [hop |-> m[1], way |-> m[2], kind |-> "hop", nodes |-> nodes]
<1>1. nodes \in Seq(Node)
  BY AnswerType DEF IInv
<1>2. PICK boot \in Bootstraps, path \in Paths :
          Becomes(IF p.state = "JOIN" THEN ReceiveJoin(p, state, known, boot, path)
                  ELSE ReceiveState(p, nodes, known), net \ {m})
  BY DEF HandleHopState
<1> HIDE DEF nodes
<1>3. Basis(p) /\ IsNode(p) /\ Keeps(p)
  BY DEF IInv, NodeOK, Basis, LeavesInv
<1>4. CASE p.state = "JOIN"
  <2>1. state \in ReceivedType /\ state.kind = "hop" /\ OnWay(p, state.hop, state.way)
    BY <1>1, <1>4 DEF IInv, NetOK, ReceivedType
  <2> DEFINE s == ReceiveJoin(p, state, known, boot, path)
  <2>2. Becomes(s, net \ {m})
    BY <1>2, <1>4
  <2> HIDE DEF state
  <2>3. state.kind # "last"
    BY <2>1
  <2>4. Keeps(s)
    BY <1>3, <1>4, <2>1, <2>3, NodesKnown, ReceiveJoinKeeps
  <2> HIDE DEF s
  <2> QED BY <2>2, <2>4, KeepsStep
<1>5. CASE p.state # "JOIN"
  <2> DEFINE s == ReceiveState(p, nodes, known)
  <2>1. Becomes(s, net \ {m})
    BY <1>2, <1>5
  <2>2. Keeps(s)
    BY <1>1, <1>3, ReceiveStateKeeps
  <2> HIDE DEF s
  <2> QED BY <2>1, <2>2, KeepsStep
<1> QED
  BY <1>4, <1>5

LEMMA HandlePastryJoinResponseKeeps ==
    ASSUME IInv, LeavesInv, NEW n \in config.nodes, NEW a \in States, NEW known \in Knowledge,
           HandlePastryJoinResponse(n, a, known)
    PROVE  LeavesInv'
<1> DEFINE nodes == Append(a, n)
           q == [p EXCEPT !.joinCall = FALSE]
<1>1. nodes \in Seq(Node)
  BY AnswerType DEF IInv
<1>2. PICK boot \in Bootstraps, path \in Paths, way \in DOMAIN p.ways :
          Becomes(ReceiveJoin(q, [hop |-> p.ways[way], way |-> way, kind |-> "last", nodes |-> nodes],
                              known, boot, path), net)
  BY DEF HandlePastryJoinResponse
<1> DEFINE state == [hop |-> p.ways[way], way |-> way, kind |-> "last", nodes |-> nodes]
<1> HIDE DEF nodes
<1>3. p.joinCall /\ IsNode(p) /\ p.state = "JOIN" /\ p.hops = 0 /\ Keeps(p)
  BY DEF IInv, LeavesInv, HandlePastryJoinResponse, NodeOK, Basis, ReceivedOK, IsNode
<1>4. /\ IsNode(q) /\ q.state = p.state /\ q.ways = p.ways /\ q.received = p.received /\ q.hops = p.hops
      /\ ~q.joinCall /\ q.queue = p.queue /\ q.basis = p.basis
      /\ q.leaves = p.leaves /\ q.heard = p.heard /\ q.reported = p.reported /\ q.valid = p.valid
      /\ q.pending = p.pending /\ q.dead = p.dead /\ q.repairs = p.repairs /\ q.awaiting = p.awaiting
  BY <1>3 DEF IsNode, Fields
<1> HIDE DEF q
<1>5. Basis(q)
  BY <1>4 DEF IInv, NodeOK, Basis, ReceivedOK, OnWay
<1>6. Keeps(q)
  BY <1>3, <1>4 DEF Keeps, LeafSetOK, OthersNamed
<1>7. way \in Nat /\ p.ways[way] \in Nat \ {0}
  <2>1. p.ways \in Seq(Nat \ {0})
    BY <1>3 DEF IsNode
  <2> QED BY <2>1
<1>8. state \in ReceivedType /\ state.kind = "last" /\ state.hop # 0
  BY <1>1, <1>7 DEF ReceivedType
<1> HIDE DEF state
<1> DEFINE s == ReceiveJoin(q, state, known, boot, path)
<1>9. Keeps(s)
  <2>1. q.hops = 0 /\ q.state = "JOIN" /\ state.kind # "hop"
    BY <1>3, <1>4, <1>8
  <2> QED BY <1>4, <1>5, <1>6, <1>8, <2>1, NodesKnown, ReceiveJoinKeeps
<1>10. Becomes(s, net)
  BY <1>2 DEF state
<1> HIDE DEF s
<1> QED
  BY <1>9, <1>10, KeepsStep

LEMMA HandleTimersKeep ==
    ASSUME IInv, LeavesInv, HandleJoinTimeout \/ HandleReadyWait
    PROVE  LeavesInv'
<1>1. IsNode(p)
  BY DEF IInv, NodeOK, Basis
<1>2. PICK boot \in Bootstraps, path \in Paths : \E states : Becomes(JoinOverlay(p, boot, path), states)
  BY DEF HandleJoinTimeout, HandleReadyWait
<1>a. PICK states : Becomes(JoinOverlay(p, boot, path), states)
  BY <1>2
<1> DEFINE s == JoinOverlay(p, boot, path)
<1>3. Keeps(s) /\ Becomes(s, states)
  BY <1>1, <1>a, JoinOverlayKeeps
<1> HIDE DEF s
<1> QED
  BY <1>3, KeepsStep

LEMMA HandleStateMessageKeeps ==
    ASSUME IInv, LeavesInv, NEW n \in config.nodes, NEW a \in States, NEW known, HandleStateMessage(n, a, known)
    PROVE  LeavesInv'
<1> DEFINE nodes == Append(a, n)
           s == ReceiveState(p, nodes, known)
<1>1. nodes \in Seq(Node) /\ Becomes(s, net) /\ IsNode(p) /\ Keeps(p)
  BY AnswerType DEF IInv, NodeOK, Basis, LeavesInv, HandleStateMessage
<1> HIDE DEF nodes
<1>2. Keeps(s)
  BY <1>1, ReceiveStateKeeps
<1> HIDE DEF s
<1> QED
  BY <1>1, <1>2, KeepsStep
\* A request for repair ends.
LEMMA NoLongerAskedKeeps ==
    ASSUME NodeOK(p), Keeps(p), NEW n
    PROVE  IsNode([p EXCEPT !.repairs = @ \ {n}]) /\ Keeps([p EXCEPT !.repairs = @ \ {n}])
<1> DEFINE b == p.repairs \ {n}
           t == [p EXCEPT !.awaiting = p.awaiting, !.repairs = b]
<1>1. IsNode(p) /\ b \in SUBSET Node /\ \A a \in p.awaiting : a.node \in Node /\ a.left \in BOOLEAN
  BY DEF NodeOK, Basis, Keeps, OthersNamed
<1>2. t = [p EXCEPT !.repairs = @ \ {n}]
  BY <1>1 DEF IsNode, Fields
<1> HIDE DEF b
<1>3. IsNode(t) /\ Keeps(t)
  BY <1>1, AsksKeeps
<1> QED
  BY <1>2, <1>3

LEMMA HandleRequestRepairResponseKeeps ==
    ASSUME IInv, LeavesInv, NEW n \in config.nodes, NEW a \in States, NEW known,
           HandleRequestRepairResponse(n, a, known)
    PROVE  LeavesInv'
<1> DEFINE nodes == Append(a, n)
           t == [p EXCEPT !.repairs = @ \ {n}]
<1>1. nodes \in Seq(Node)
  BY AnswerType DEF IInv
<1>2. PICK outdated \in {{}, {x.node : x \in p.awaiting} \ p.repairs} :
          Becomes(Process(Repair(t, n, nodes, known, outdated), nodes, known), net)
  BY DEF HandleRequestRepairResponse
<1>3. IsNode(t) /\ Keeps(t)
  BY NoLongerAskedKeeps DEF IInv, LeavesInv
<1> HIDE DEF nodes, t
<1> DEFINE u == Repair(t, n, nodes, known, outdated)
           s == Process(u, nodes, known)
<1>4. IsNode(u) /\ Keeps(u)
  BY <1>1, <1>3, RepairKeeps
<1> HIDE DEF u
<1>5. Keeps(s)
  BY <1>1, <1>4, ProcessKeeps
<1>6. Becomes(s, net)
  BY <1>2 DEF u
<1> HIDE DEF s
<1> QED
  BY <1>5, <1>6, KeepsStep

LEMMA HandleRpcTimeoutKeeps ==
    ASSUME IInv, LeavesInv, NEW n \in config.nodes, HandleRpcTimeout(n)
    PROVE  LeavesInv'
<1> DEFINE t == [p EXCEPT !.repairs = @ \ {n}]
<1>1. PICK boot \in Bootstraps, path \in Paths : Becomes(HandleFailedNode(t, n, boot, path), net)
  BY DEF HandleRpcTimeout
<1>2. IsNode(t) /\ Keeps(t) /\ n \in Node
  BY NoLongerAskedKeeps, BoundsOK DEF IInv, LeavesInv
<1> HIDE DEF t
<1> DEFINE s == HandleFailedNode(t, n, boot, path)
<1>3. Keeps(s) /\ Becomes(s, net)
  BY <1>1, <1>2, HandleFailedNodeKeeps
<1> HIDE DEF s
<1> QED
  BY <1>3, KeepsStep

LEMMA HandlePastryJoinCallKeeps ==
    ASSUME IInv, LeavesInv, NEW n \in config.nodes, HandlePastryJoinCall(n)
    PROVE  LeavesInv'
<1>1. PICK boot \in Bootstraps, path \in Paths : Becomes(HandleFailedNode(p, n, boot, path), net)
  BY DEF HandlePastryJoinCall
<1>2. IsNode(p) /\ Keeps(p) /\ n \in Node
  BY BoundsOK DEF IInv, LeavesInv, NodeOK, Basis
<1> DEFINE s == HandleFailedNode(p, n, boot, path)
<1>3. Keeps(s) /\ Becomes(s, net)
  BY <1>1, <1>2, HandleFailedNodeKeeps
<1> HIDE DEF s
<1> QED
  BY <1>3, KeepsStep

LEMMA ProxAnswerKeeps ==
    ASSUME IInv, LeavesInv, NEW n \in config.nodes, NEW known \in Knowledge, ProxAnswer(n, known)
    PROVE  LeavesInv'
<1> DEFINE rest == p.pending \ {n}
           q == [p EXCEPT !.pending = rest]
<1>1. PICK boot \in Bootstraps, path \in Paths : Becomes(CheckProxCache(q, known, boot, path), net)
  BY DEF ProxAnswer
<1>2. IsNode(p) /\ p.cached /\ (p.state = "JOIN" => p.hops # 0) /\ Keeps(p) /\ rest \in SUBSET Node
  BY DEF IInv, LeavesInv, ProxAnswer, NodeOK, Basis, Keeps, OthersNamed
<1> HIDE DEF rest
<1>3. /\ IsNode(q) /\ q.state = p.state /\ q.ways = p.ways /\ q.received = p.received /\ q.hops = p.hops
      /\ q.joinCall = p.joinCall /\ q.queue = p.queue /\ q.basis = p.basis
      /\ q.leaves = p.leaves /\ q.heard = p.heard /\ q.reported = p.reported /\ q.valid = p.valid
      /\ q.pending = rest /\ q.dead = p.dead /\ q.repairs = p.repairs /\ q.awaiting = p.awaiting
  BY <1>2 DEF IsNode, Fields
<1> HIDE DEF q
<1>4. Basis(q)
  BY <1>3 DEF IInv, NodeOK, Basis, ReceivedOK, OnWay
<1>5. Keeps(q)
  BY <1>2, <1>3 DEF Keeps, LeafSetOK, OthersNamed
<1> DEFINE s == CheckProxCache(q, known, boot, path)
<1>6. Keeps(s)
  BY <1>2, <1>3, <1>4, <1>5, NodesKnown, CheckProxCacheKeeps
<1>7. Becomes(s, net)
  BY <1>1
<1> HIDE DEF s
<1> QED
  BY <1>6, <1>7, KeepsStep

LEMMA ProxTimeoutKeeps ==
    ASSUME IInv, LeavesInv, NEW n \in config.nodes, NEW known \in Knowledge, ProxTimeout(n, known)
    PROVE  LeavesInv'
<1>1. PICK boot \in Bootstraps, path \in Paths :
          LET s == HandleFailedNode(p, n, boot, path)
              t == [s EXCEPT !.pending = @ \ {n}, !.dead = IF s.state = "JOIN" THEN @ \cup {n} ELSE @]
          IN  Becomes(IF s.state # p.state THEN s
                      ELSE IF ~s.cached THEN [s EXCEPT !.state = "CRASH"]
                      ELSE CheckProxCache(t, known, boot, path), net)
  BY DEF ProxTimeout
<1>2. path \in Nat \ {0} /\ n \in Node
  BY BoundsOK DEF IInv
<1>3. p.cached /\ (p.state = "JOIN" => p.hops # 0) /\ IsNode(p) /\ Keeps(p)
  BY DEF IInv, LeavesInv, ProxTimeout, NodeOK, Basis
<1> DEFINE s == HandleFailedNode(p, n, boot, path)
           rest == s.pending \ {n}
           found == IF s.state = "JOIN" THEN s.dead \cup {n} ELSE s.dead
           t == [s EXCEPT !.pending = rest, !.dead = found]
           c == [s EXCEPT !.state = "CRASH"]
           k == CheckProxCache(t, known, boot, path)
<1>4. NodeOK(s) /\ Keeps(s) /\ (s.state = p.state => s = p \/ s.state # "JOIN")
  BY <1>2, <1>3, HandleFailedNodeOK, HandleFailedNodeKeeps DEF IInv
<1>5. IsNode(s) /\ rest \in SUBSET Node /\ found \in SUBSET Node
  BY <1>2, <1>4 DEF NodeOK, Basis, Keeps, OthersNamed
<1>6. t = [s EXCEPT !.pending = @ \ {n}, !.dead = IF s.state = "JOIN" THEN @ \cup {n} ELSE @]
  OBVIOUS
<1>7. \/ Becomes(s, net)
      \/ Becomes(c, net)
      \/ s.state = p.state /\ s.cached /\ Becomes(k, net)
  BY <1>1, <1>6
<1> HIDE DEF s, rest, found
<1>8. CASE Becomes(s, net)
  BY <1>4, <1>8, KeepsStep
<1>9. CASE Becomes(c, net)
  <2>1. /\ c.state = "CRASH" /\ c.queue = s.queue
        /\ c.leaves = s.leaves /\ c.heard = s.heard /\ c.reported = s.reported /\ c.valid = s.valid
        /\ c.pending = s.pending /\ c.dead = s.dead /\ c.repairs = s.repairs /\ c.awaiting = s.awaiting
    BY <1>5 DEF IsNode, Fields
  <2> HIDE DEF c
  <2>2. Keeps(c)
    BY <1>4, <2>1 DEF Keeps, LeafSetOK, OthersNamed
  <2> QED BY <1>9, <2>2, KeepsStep
<1>10. CASE s.state = p.state /\ s.cached /\ Becomes(k, net)
  <2>1. s.state = "JOIN" => s = p
    BY <1>4, <1>10
  <2>2. /\ IsNode(t) /\ t.state = s.state /\ t.ways = s.ways /\ t.received = s.received /\ t.hops = s.hops
        /\ t.joinCall = s.joinCall /\ t.queue = s.queue /\ t.repairs = s.repairs /\ t.basis = s.basis
        /\ t.leaves = s.leaves /\ t.heard = s.heard /\ t.reported = s.reported /\ t.valid = s.valid
        /\ t.pending = rest /\ t.dead = found /\ t.awaiting = s.awaiting
    BY <1>5 DEF IsNode, Fields
  <2> HIDE DEF t
  <2>3. Basis(t)
    BY <1>4, <2>2 DEF NodeOK, Basis, ReceivedOK, OnWay
  <2>4. t.state = "JOIN" => t.hops # 0
    BY <1>3, <2>1, <2>2
  <2>5. Keeps(t)
    BY <1>4, <1>5, <2>2 DEF Keeps, LeafSetOK, OthersNamed
  <2>6. Keeps(k)
    BY <2>3, <2>4, <2>5, NodesKnown, CheckProxCacheKeeps
  <2> HIDE DEF k
  <2> QED BY <1>10, <2>6, KeepsStep
<1> QED
  BY <1>7, <1>8, <1>9, <1>10

LEMMA RerouteKeeps ==
    ASSUME IInv, LeavesInv, NEW way, NEW hop, NEW path, Reroute(way, hop, path)
    PROVE  LeavesInv'
<1> DEFINE ways == Append(p.ways, path)
           q    == [p EXCEPT !.ways = ways]
<1>1. IsNode(p)
  BY DEF IInv, NodeOK, Basis
<1>2. alive' = alive /\ (p' = p \/ p' = q)
  BY DEF Reroute
<1> HIDE DEF ways
<1>3. /\ q.state = p.state /\ q.queue = p.queue
      /\ q.leaves = p.leaves /\ q.heard = p.heard /\ q.reported = p.reported /\ q.valid = p.valid
      /\ q.pending = p.pending /\ q.dead = p.dead /\ q.repairs = p.repairs /\ q.awaiting = p.awaiting
  BY <1>1 DEF IsNode, Fields
<1> HIDE DEF q
<1>4. Keeps(q)
  BY <1>3 DEF LeavesInv, Keeps, LeafSetOK, OthersNamed
<1> QED
  BY <1>2, <1>4 DEF LeavesInv

\* Every step of the node keeps its leaf set in order: merging and failing leaves do, by the
\* lemmas above, and nothing else touches it (mergeState(), failedNode(), joinOverlay()).
THEOREM LeavesInvariance == Spec => []LeavesInv
<1>1. IInv /\ LeavesInv /\ [Next]_vars => LeavesInv'
  <2> SUFFICES ASSUME IInv, LeavesInv, [Next]_vars
               PROVE  LeavesInv'
    OBVIOUS
  <2>1. CASE \E n \in config.nodes, a \in States, known \in Knowledge :
                \E m \in net : HandleHopState(m, n, a, known)
    BY <2>1, HandleHopStateKeeps
  <2>2. CASE \E n \in config.nodes, a \in States, known \in Knowledge : HandlePastryJoinResponse(n, a, known)
    BY <2>2, HandlePastryJoinResponseKeeps
  <2>3. CASE \E n \in config.nodes, a \in States, known \in Knowledge : HandleStateMessage(n, a, known)
    BY <2>3, HandleStateMessageKeeps
  <2>4. CASE \E n \in config.nodes, a \in States, known \in Knowledge : HandleRequestRepairResponse(n, a, known)
    BY <2>4, HandleRequestRepairResponseKeeps
  <2>5. CASE \E n \in config.nodes, known \in Knowledge : ProxAnswer(n, known)
    BY <2>5, ProxAnswerKeeps
  <2>6. CASE \E n \in config.nodes, known \in Knowledge : ProxTimeout(n, known)
    BY <2>6, ProxTimeoutKeeps
  <2>7. CASE \E n \in config.nodes : HandleRpcTimeout(n)
    BY <2>7, HandleRpcTimeoutKeeps
  <2>8. CASE \E n \in config.nodes : HandlePastryJoinCall(n)
    BY <2>8, HandlePastryJoinCallKeeps
  <2>9. CASE HandleJoinTimeout \/ HandleReadyWait
    BY <2>9, HandleTimersKeep
  <2>10. CASE (\E m \in net : Lose(m)) \/ (\E n \in config.nodes : Die(n))
    <3>1. p' = p /\ alive' \subseteq alive
      BY <2>10 DEF Lose, Die
    <3> QED BY <3>1 DEF LeavesInv
  <2>11. CASE \E way \in {0} \cup DOMAIN p.ways, hop, path \in Paths : Reroute(way, hop, path)
    BY <2>11, RerouteKeeps
  <2>12. CASE UNCHANGED vars
    BY <2>12 DEF vars, LeavesInv
  <2> QED
    BY <2>1, <2>2, <2>3, <2>4, <2>5, <2>6, <2>7, <2>8, <2>9, <2>10, <2>11, <2>12 DEF Next
<1> QED
  BY <1>1, InitKeeps, Invariance, PTL DEF Spec
Apart(leaves, a, b) == \A i, j \in a .. b : leaves[i] = leaves[j] => i = j

\* The nodes in the slots from a to b: as many as there are slots, if all are taken.
LEMMA SlotsFrom ==
    ASSUME NEW leaves, NEW a \in Int, NEW b \in Int, NEW T, T = {leaves[j] : j \in a .. b}
    PROVE  /\ IsFiniteSet(T) /\ Cardinality(T) \in Nat
           /\ Cardinality(T) <= Cardinality(a .. b)
           /\ Apart(leaves, a, b) => Cardinality(T) = Cardinality(a .. b)
<1> DEFINE S == a .. b
           f == [j \in S |-> leaves[j]]
<1>1. IsFiniteSet(S) /\ Cardinality(S) = IF a > b THEN 0 ELSE b - a + 1
  BY FS_Interval
<1>2. f \in Surjection(S, T)
  <2>1. f \in [S -> T]
    OBVIOUS
  <2>2. \A t \in T : \E s \in S : f[s] = t
    OBVIOUS
  <2> HIDE DEF f, S
  <2> QED BY <2>1, <2>2 DEF Surjection
<1>3. Apart(leaves, a, b) => f \in Injection(S, T)
  <2> SUFFICES ASSUME \A i, j \in S : leaves[i] = leaves[j] => i = j
               PROVE  f \in Injection(S, T)
    BY DEF Apart
  <2>1. f \in [S -> T] /\ DOMAIN f = S
    OBVIOUS
  <2>2. \A i, j \in S : f[i] = f[j] => i = j
    OBVIOUS
  <2> HIDE DEF f, S
  <2> QED BY <2>1, <2>2 DEF Injection, IsInjective
<1> HIDE DEF f, S
<1>4. IsFiniteSet(T) /\ Cardinality(T) <= Cardinality(S)
      /\ (Cardinality(T) = Cardinality(S) <=> f \in Injection(S, T))
  BY <1>1, <1>2, FS_Surjection
<1>5. Cardinality(T) \in Nat
  BY <1>4, FS_CardinalityType
<1>6. Apart(leaves, a, b) => Cardinality(T) = Cardinality(S)
  BY <1>3, <1>4
<1> QED
  BY <1>4, <1>5, <1>6 DEF S

\* A set of nodes that are all in the slots from a to b, or one with all of those.
LEMMA FewerThan ==
    ASSUME NEW leaves, NEW a \in Int, NEW b \in Int, NEW num \in Nat \ {0}, b - a + 1 < num,
           NEW S, \A m \in S : \E j \in a .. b : leaves[j] = m
    PROVE  Cardinality(S) < num
<1> DEFINE T == {leaves[j] : j \in a .. b}
<1>1. S \in SUBSET T
  OBVIOUS
<1>2. T = {leaves[j] : j \in a .. b}
  OBVIOUS
<1> HIDE DEF T
<1>3. IsFiniteSet(T) /\ Cardinality(T) \in Nat /\ Cardinality(T) <= Cardinality(a .. b)
  BY <1>2, SlotsFrom
<1>6. Cardinality(a .. b) = IF a > b THEN 0 ELSE b - a + 1
  BY FS_Interval
<1>4. Cardinality(S) <= Cardinality(T) /\ IsFiniteSet(S)
  BY <1>1, <1>3, FS_Subset
<1>5. Cardinality(S) \in Nat
  BY <1>4, FS_CardinalityType
<1> QED
  BY <1>3, <1>4, <1>5, <1>6

LEMMA AsManyAs ==
    ASSUME NEW leaves, NEW a \in Int, NEW b \in Int, NEW num \in Nat, b - a + 1 = num,
           Apart(leaves, a, b),
           NEW S, IsFiniteSet(S), \A j \in a .. b : leaves[j] \in S
    PROVE  ~(Cardinality(S) < num)
<1> DEFINE T == {leaves[j] : j \in a .. b}
<1>1. T \in SUBSET S
  OBVIOUS
<1>2. T = {leaves[j] : j \in a .. b}
  OBVIOUS
<1> HIDE DEF T
<1>3. IsFiniteSet(T) /\ Cardinality(T) = Cardinality(a .. b)
  BY <1>2, SlotsFrom
<1>6. Cardinality(a .. b) = IF a > b THEN 0 ELSE b - a + 1
  BY FS_Interval
<1>4. Cardinality(T) <= Cardinality(S) /\ Cardinality(S) \in Nat
  BY <1>1, FS_Subset, FS_CardinalityType
<1> QED
  BY <1>3, <1>4, <1>6

\* The leaves are the closest, on both sides, of the nodes heard of.
LEMMA ClosestHeld ==
    ASSUME NEW leaves, Good(leaves), NEW heard \in SUBSET Node, Holds(leaves, heard)
    PROVE  Leaves(leaves) = ClosestLeaves(heard)
<1> DEFINE less(n) == {m \in heard : m < n}
           more(n) == {m \in heard : m > n}
<1>1. PICK l, r : Slots(leaves, l, r) /\ Balance(l, r, 1)
  BY DEF Good
<1>2. /\ Half \in Nat \ {0} /\ numberOfLeaves = 2 * Half /\ numberOfLeaves \in Nat
      /\ l \in 0 .. Half /\ r \in 0 .. Half
  BY <1>1, HalfOK DEF Slots
<1>3. \A n \in heard : n \in Nat /\ n > 0 /\ n # NoNode
  BY NodeType
<1>4. IsFull(leaves) <=> l = Half /\ r = Half
  BY <1>1, ValidOK
<1>5. \A i \in 1 .. numberOfLeaves : leaves[i] # NoNode <=> Half - l < i /\ i <= Half + r
  BY <1>1 DEF Slots
<1>6. /\ \A n : n \in Leaves(leaves) <=> n # NoNode /\ \E i \in 1 .. numberOfLeaves : leaves[i] = n
      /\ \A i, j \in 1 .. numberOfLeaves : leaves[i] = leaves[j] /\ leaves[i] # NoNode => i = j
      /\ \A i \in 1 .. numberOfLeaves : leaves[i] = NoNode \/ leaves[i] \in Nat
  BY <1>1, SlotsOK
<1>7. \A i, j \in 1 .. numberOfLeaves :
          leaves[i] # NoNode /\ leaves[j] # NoNode /\ Before(i, j) => leaves[i] < leaves[j]
  BY <1>1 DEF Slots
<1>8. /\ Leaves(leaves) \subseteq heard
      /\ \A n \in heard : \/ n \in Leaves(leaves)
                          \/ IsFull(leaves) /\ leaves[numberOfLeaves] < n /\ n < leaves[1]
  BY DEF Holds
<1>9. ASSUME NEW n \in Leaves(leaves)
      PROVE  Cardinality(less(n)) < Half \/ Cardinality(more(n)) < Half
  <2>1. PICK i \in 1 .. numberOfLeaves : leaves[i] = n /\ n # NoNode
    BY <1>6
  <2>2. n \in Nat /\ n \in heard
    BY <1>3, <1>8
  <2>3. ASSUME NEW m \in heard, m \notin Leaves(leaves)
        PROVE  (i > Half => ~(m < n)) /\ (i <= Half => ~(m > n))
    <3>1. /\ leaves[numberOfLeaves] < m /\ m < leaves[1]
          /\ leaves[numberOfLeaves] # NoNode /\ leaves[1] # NoNode
      BY <1>8, <2>3 DEF IsFull, Free
    <3>2. /\ leaves[1] \in Nat /\ leaves[numberOfLeaves] \in Nat /\ m \in Nat
          /\ 1 \in 1 .. numberOfLeaves /\ numberOfLeaves \in 1 .. numberOfLeaves
      BY <1>2, <1>3, <1>6, <3>1
    <3>3. i > Half => n <= leaves[numberOfLeaves]
      <4>1. CASE i = numberOfLeaves
        BY <2>1, <2>2, <4>1
      <4>2. CASE i # numberOfLeaves /\ i > Half
        <5>1. Before(i, numberOfLeaves)
          BY <1>2, <4>2 DEF Before
        <5>2. leaves[i] < leaves[numberOfLeaves]
          BY <1>7, <2>1, <3>1, <3>2, <5>1
        <5> QED BY <2>1, <2>2, <3>2, <5>2
      <4> QED BY <4>1, <4>2
    <3>4. i <= Half => leaves[1] <= n
      <4>1. CASE i = 1
        BY <2>1, <2>2, <4>1
      <4>2. CASE i # 1 /\ i <= Half
        <5>1. Before(1, i)
          BY <1>2, <4>2 DEF Before
        <5>2. leaves[1] < leaves[i]
          BY <1>7, <2>1, <3>1, <3>2, <5>1
        <5> QED BY <2>1, <2>2, <3>2, <5>2
      <4> QED BY <4>1, <4>2
    <3> QED BY <2>2, <3>1, <3>2, <3>3, <3>4
  <2>4. CASE i > Half
    <3>1. ASSUME NEW m \in less(n)
          PROVE  \E j \in Half + 1 .. i - 1 : leaves[j] = m
      <4>1. m \in heard /\ m < n /\ m \in Leaves(leaves) /\ m \in Nat
        BY <1>3, <2>3, <2>4
      <4>2. PICK j \in 1 .. numberOfLeaves : leaves[j] = m /\ m # NoNode
        BY <1>6, <4>1
      <4>3. ~Before(i, j) /\ i # j
        BY <1>7, <2>1, <2>2, <4>1, <4>2
      <4>4. j \in Half + 1 .. i - 1
        BY <1>2, <2>4, <4>3 DEF Before
      <4> QED BY <4>2, <4>4
    <3>2. Half + 1 \in Int /\ i - 1 \in Int /\ (i - 1) - (Half + 1) + 1 < Half
      BY <1>2
    <3> HIDE DEF less
    <3>3. Cardinality(less(n)) < Half
      BY <1>2, <3>1, <3>2, FewerThan
    <3> QED BY <3>3
  <2>5. CASE ~(i > Half)
    <3>1. ASSUME NEW m \in more(n)
          PROVE  \E j \in i + 1 .. Half : leaves[j] = m
      <4>1. m \in heard /\ m > n /\ m \in Leaves(leaves) /\ m \in Nat
        BY <1>2, <1>3, <2>3, <2>5
      <4>2. PICK j \in 1 .. numberOfLeaves : leaves[j] = m /\ m # NoNode
        BY <1>6, <4>1
      <4>3. ~Before(j, i) /\ i # j
        BY <1>7, <2>1, <2>2, <4>1, <4>2
      <4>4. j \in i + 1 .. Half
        BY <1>2, <2>5, <4>3 DEF Before
      <4> QED BY <4>2, <4>4
    <3>2. i + 1 \in Int /\ Half \in Int /\ Half - (i + 1) + 1 < Half
      BY <1>2
    <3> HIDE DEF more
    <3>3. Cardinality(more(n)) < Half
      BY <1>2, <3>1, <3>2, FewerThan
    <3> QED BY <3>3
  <2> QED BY <2>4, <2>5
<1>10. ASSUME NEW n \in heard, n \notin Leaves(leaves)
       PROVE  ~(Cardinality(less(n)) < Half) /\ ~(Cardinality(more(n)) < Half)
  <2>1. l = Half /\ r = Half /\ leaves[numberOfLeaves] < n /\ n < leaves[1] /\ n \in Nat
    BY <1>3, <1>4, <1>8, <1>10
  <2>2. \A i \in 1 .. numberOfLeaves : leaves[i] # NoNode /\ leaves[i] \in Nat /\ leaves[i] \in heard
    BY <1>2, <1>5, <1>6, <1>8, <2>1
  <2>3. 1 \in 1 .. numberOfLeaves /\ numberOfLeaves \in 1 .. numberOfLeaves
    BY <1>2
  <2>4. ASSUME NEW j \in Half + 1 .. numberOfLeaves
        PROVE  j \in 1 .. numberOfLeaves /\ leaves[j] \in less(n)
    <3>1. j \in 1 .. numberOfLeaves /\ (j # numberOfLeaves => Before(j, numberOfLeaves))
      BY <1>2 DEF Before
    <3>2. leaves[j] <= leaves[numberOfLeaves]
      BY <1>7, <2>2, <2>3, <3>1
    <3>3. leaves[j] < n /\ leaves[j] \in heard
      BY <2>1, <2>2, <2>3, <3>1, <3>2
    <3> QED BY <3>1, <3>3
  <2>5. ASSUME NEW j \in 1 .. Half
        PROVE  j \in 1 .. numberOfLeaves /\ leaves[j] \in more(n)
    <3>1. j \in 1 .. numberOfLeaves /\ (j # 1 => Before(1, j))
      BY <1>2 DEF Before
    <3>2. leaves[1] <= leaves[j]
      BY <1>7, <2>2, <2>3, <3>1
    <3>3. leaves[j] > n /\ leaves[j] \in heard
      BY <2>1, <2>2, <2>3, <3>1, <3>2
    <3> QED BY <3>1, <3>3
  <2>6. IsFiniteSet(less(n)) /\ IsFiniteSet(more(n))
    <3>1. Ring \in Nat /\ \A m \in heard : m \in 1 .. Ring - 1
      BY PastryAssumption
    <3>2. IsFiniteSet(1 .. Ring - 1)
      BY <3>1, FS_Interval
    <3>3. less(n) \in SUBSET (1 .. Ring - 1) /\ more(n) \in SUBSET (1 .. Ring - 1)
      BY <3>1
    <3> QED BY <3>2, <3>3, FS_Subset
  <2> HIDE DEF less, more
  <2>7. ~(Cardinality(less(n)) < Half)
    <3>1. Apart(leaves, Half + 1, numberOfLeaves)
      BY <1>6, <2>2, <2>4 DEF Apart
    <3>2. Half + 1 \in Int /\ numberOfLeaves \in Int /\ numberOfLeaves - (Half + 1) + 1 = Half
      BY <1>2
    <3> QED BY <1>2, <2>4, <2>6, <3>1, <3>2, AsManyAs
  <2>8. ~(Cardinality(more(n)) < Half)
    <3>1. Apart(leaves, 1, Half)
      BY <1>6, <2>2, <2>5 DEF Apart
    <3>2. 1 \in Int /\ Half \in Int /\ Half - 1 + 1 = Half
      BY <1>2
    <3> QED BY <1>2, <2>5, <2>6, <3>1, <3>2, AsManyAs
  <2> QED BY <2>7, <2>8
<1> QED
  BY <1>8, <1>9, <1>10 DEF ClosestLeaves

\* However nodes are merged and fail, in whatever order states arrive, late or again, the leaf
\* set holds the closest nodes heard of since the last failure, in the order of the ring,
\* without gaps and with a neighbor on each side once there are two, and the application has
\* been told of them (mergeNode(), insertLeaf(), balanceLeafSet(), failedNode(), callUpdate()).
THEOREM SlotsAreRight == Spec => []SlotsRight
<1>1. IInv /\ LeavesInv => SlotsRight
  <2> SUFFICES ASSUME IInv, LeavesInv
               PROVE  SlotsRight
    OBVIOUS
  <2> DEFINE leaves == p.leaves
             c == Clockwise(leaves)
  <2>1. Keeps(p) /\ IsNode(p) /\ alive \subseteq Node
    BY DEF IInv, NodeOK, Basis, LeavesInv
  <2>2. PICK l, r : Slots(leaves, l, r) /\ Balance(l, r, 1)
    BY <2>1 DEF Keeps, LeafSetOK, Good
  <2>3. /\ Half \in Nat \ {0} /\ numberOfLeaves = 2 * Half /\ numberOfLeaves \in Nat
        /\ l \in 0 .. Half /\ r \in 0 .. Half /\ l - r <= 1 /\ r - l <= 1
    BY <2>2, HalfOK DEF Slots, Balance
  <2>4. \A i \in 1 .. numberOfLeaves : leaves[i] # NoNode <=> Half - l < i /\ i <= Half + r
    BY <2>2 DEF Slots
  <2>5. TypeOK
    <3>1. p.leaves \in [1 .. numberOfLeaves -> Node \cup {NoNode}]
      BY <2>2 DEF Slots
    <3>2. p.pending \cup p.dead \cup p.repairs \cup p.heard \cup p.reported \subseteq Node
      <4>1. Leaves(leaves) \subseteq Node
        BY <2>2, SlotsOK
      <4> QED BY <2>1, <4>1 DEF Keeps, LeafSetOK, OthersNamed
    <3>3. \A i \in DOMAIN p.received : p.received[i].nodes \in Seq(Node)
      <4>1. p.received \in Seq(ReceivedType)
        BY <2>1 DEF IsNode
      <4>2. \A i \in DOMAIN p.received : p.received[i] \in ReceivedType
        BY <4>1
      <4> QED BY <4>2 DEF ReceivedType
    <3> QED BY <2>1, <3>1, <3>2, <3>3 DEF TypeOK, Keeps, OthersNamed
  <2>6. ASSUME NEW i \in 1 .. numberOfLeaves, NEW j \in 1 .. numberOfLeaves, i < j, NoNode \notin {c[i], c[j]}
        PROVE  c[i] < c[j]
    <3> DEFINE slot(k) == IF k <= Half THEN Half + k ELSE k - Half
    <3>1. \A k \in 1 .. numberOfLeaves : slot(k) \in 1 .. numberOfLeaves /\ c[k] = leaves[slot(k)]
      BY <2>3 DEF Clockwise
    <3>2. Before(slot(i), slot(j))
      BY <2>3, <2>6 DEF Before
    <3> HIDE DEF slot, c
    <3>3. /\ slot(i) \in 1 .. numberOfLeaves /\ slot(j) \in 1 .. numberOfLeaves
          /\ leaves[slot(i)] # NoNode /\ leaves[slot(j)] # NoNode
      BY <2>6, <3>1
    <3>4. leaves[slot(i)] < leaves[slot(j)]
      BY <2>2, <3>2, <3>3 DEF Slots
    <3> QED BY <3>1, <3>4
  <2>7. /\ \A i \in 2 .. Half : Free(leaves, i) => Free(leaves, i - 1)
        /\ \A i \in Half + 1 .. numberOfLeaves - 1 : Free(leaves, i) => Free(leaves, i + 1)
    <3> HIDE DEF leaves
    <3>1. ASSUME NEW i \in 2 .. Half, leaves[i] = NoNode
          PROVE  leaves[i - 1] = NoNode
      <4>1. i \in 1 .. numberOfLeaves /\ i - 1 \in 1 .. numberOfLeaves
        BY <2>3
      <4> QED BY <2>3, <2>4, <3>1, <4>1
    <3>2. ASSUME NEW i \in Half + 1 .. numberOfLeaves - 1, leaves[i] = NoNode
          PROVE  leaves[i + 1] = NoNode
      <4>1. i \in 1 .. numberOfLeaves /\ i + 1 \in 1 .. numberOfLeaves
        BY <2>3
      <4> QED BY <2>3, <2>4, <3>2, <4>1
    <3> QED BY <3>1, <3>2 DEF Free
  <2>8. Leaves(leaves) = ClosestLeaves(p.heard)
    BY <2>1, ClosestHeld DEF Keeps, LeafSetOK
  <2>9. Cardinality(Leaves(leaves)) > 1 => IsValid(leaves)
    <3> SUFFICES ASSUME ~IsValid(leaves)
                 PROVE  ~(Cardinality(Leaves(leaves)) > 1)
      OBVIOUS
    <3> HIDE DEF leaves
    <3>1. ~(l > 0 /\ r > 0)
      BY <2>2, ValidOK
    <3> DEFINE only == IF l > 0 THEN Half ELSE Half + 1
    <3>2. \A i \in 1 .. numberOfLeaves : leaves[i] # NoNode => i = only
      BY <2>3, <2>4, <3>1
    <3> HIDE DEF only
    <3>3. \A m \in Leaves(leaves) : \E j \in only .. only : leaves[j] = m
      <4>1. ASSUME NEW m \in Leaves(leaves)
            PROVE  leaves[only] = m
        <5>1. PICK i \in 1 .. numberOfLeaves : leaves[i] = m /\ m # NoNode
          BY <2>2, SlotsOK
        <5> QED BY <3>2, <5>1
      <4>2. only \in only .. only
        BY <2>3 DEF only
      <4> QED BY <4>1, <4>2
    <3>4. only \in Int /\ only - only + 1 < 2 /\ 2 \in Nat \ {0}
      BY <2>3 DEF only
    <3>5. Cardinality(Leaves(leaves)) < 2
      BY <3>3, <3>4, FewerThan
    <3>6. Cardinality(Leaves(leaves)) \in Nat
      <4>1. Leaves(leaves) \subseteq Node
        BY <2>2, SlotsOK
      <4>2. Node \subseteq 1 .. Ring - 1 /\ Ring - 1 \in Int /\ 1 \in Int
        BY PastryAssumption
      <4>3. IsFiniteSet(1 .. Ring - 1)
        BY <4>2, FS_Interval
      <4>4. Leaves(leaves) \in SUBSET (1 .. Ring - 1)
        BY <4>1, <4>2
      <4> QED BY <4>3, <4>4, FS_Subset, FS_CardinalityType
    <3> QED BY <3>5, <3>6
  <2>10. p.valid => IsValid(leaves)
    BY <2>1 DEF Keeps, LeafSetOK
  <2>11. p.reported = Leaves(leaves)
    BY <2>1 DEF Keeps, LeafSetOK
  <2> HIDE DEF c
  <2> QED BY <2>5, <2>6, <2>7, <2>8, <2>9, <2>10, <2>11 DEF SlotsRight, c
<1> QED
  BY <1>1, Invariance, LeavesInvariance, PTL
-----------------------------------------------------------------------------
(***************************************************************************)
(* Who is responsible for a key                                            *)
(***************************************************************************)
LEMMA Modulo ==
    ASSUME NEW R \in Nat \ {0}, NEW x \in Int, 0 < x + R, x < R
    PROVE  x % R = IF x >= 0 THEN x ELSE x + R
<1>1. x % R \in 0 .. R - 1 /\ x \div R \in Int /\ x = R * (x \div R) + (x % R)
  OBVIOUS
<1> DEFINE q == x \div R
           m == x % R
<1> HIDE DEF q, m
<1>2. q \in Int /\ m \in 0 .. R - 1 /\ x = R * q + m
  BY <1>1 DEF q, m
<1>3. q = 0 \/ q = -1
  <2>1. ASSUME q >= 1 PROVE FALSE
    <3>1. R * q >= R
      BY <2>1, <1>2
    <3> QED BY <3>1, <1>2
  <2>2. ASSUME q <= -2 PROVE FALSE
    <3>1. R * q <= R * (-2)
      BY <2>2, <1>2
    <3> QED BY <3>1, <1>2
  <2> QED BY <2>1, <2>2, <1>2
<1>4. m = IF x >= 0 THEN x ELSE x + R
  BY <1>2, <1>3
<1> QED BY <1>4 DEF m

LEMMA Smaller ==
    ASSUME NEW a \in Int, NEW b \in Int
    PROVE  Min({a, b}) = IF a <= b THEN a ELSE b
<1>1. \E x \in {a, b} : \A y \in {a, b} : x <= y
  OBVIOUS
<1>2. Min({a, b}) \in {a, b} /\ \A y \in {a, b} : Min({a, b}) <= y
  BY <1>1 DEF Min
<1> QED BY <1>2

DistanceOf(a, b) ==
    LET d == IF a >= b THEN a - b ELSE b - a
    IN  IF d <= Ring - d THEN d ELSE Ring - d

LEMMA DistanceIs ==
    ASSUME NEW a \in 0 .. Ring - 1, NEW b \in 0 .. Ring - 1
    PROVE  Distance(a, b) = DistanceOf(a, b) /\ Distance(a, b) \in Nat
<1>1. Ring \in Nat \ {0} /\ a \in Nat /\ b \in Nat /\ a < Ring /\ b < Ring
  BY PastryAssumption
<1> DEFINE d == (a - b) % Ring
<1>2. d = IF a - b >= 0 THEN a - b ELSE a - b + Ring
  <2>1. a - b \in Int /\ 0 < (a - b) + Ring /\ a - b < Ring
    BY <1>1
  <2> QED BY <1>1, <2>1, Modulo
<1> HIDE DEF d
<1>3. Min({d, Ring - d}) = IF d <= Ring - d THEN d ELSE Ring - d
  BY <1>1, <1>2, Smaller
<1>4. Distance(a, b) = IF d <= Ring - d THEN d ELSE Ring - d
  BY <1>3 DEF Distance, d
<1> QED BY <1>1, <1>2, <1>4 DEF DistanceOf


\* A way from k to m that enters or leaves the arc from a to b passes an end of it.
LEMMA PassesEnd ==
    ASSUME NEW a \in 0 .. Ring - 1, NEW b \in 0 .. Ring - 1, NEW m \in 0 .. Ring - 1, NEW k \in 0 .. Ring - 1,
           \/ a < m /\ m < b /\ ~(a < k /\ k < b)
           \/ a < k /\ k < b /\ ~(a < m /\ m < b)
    PROVE  Distance(a, k) <= Distance(m, k) \/ Distance(b, k) <= Distance(m, k)
<1>1. Ring \in Nat
  BY PastryAssumption
<1>2. DistanceOf(a, k) <= DistanceOf(m, k) \/ DistanceOf(b, k) <= DistanceOf(m, k)
  BY <1>1, SMTT(60) DEF DistanceOf
<1> QED BY <1>2, DistanceIs

\* Whoever is closer to k than this node, a neighbor of this node is, too.
LEMMA NeighborIsCloser ==
    ASSUME NEW s \in 1 .. Ring - 1, NEW g \in 1 .. Ring - 1, NEW n \in s .. g, NEW k \in 0 .. Ring - 1,
           Distance(n, k) < Distance(0, k)
    PROVE  Distance(s, k) < Distance(0, k) \/ Distance(g, k) < Distance(0, k)
<1>1. Ring \in Nat /\ n \in 0 .. Ring - 1 /\ s \in 0 .. Ring - 1 /\ g \in 0 .. Ring - 1 /\ 0 \in 0 .. Ring - 1
  BY PastryAssumption
<1>2. DistanceOf(n, k) < DistanceOf(0, k) => DistanceOf(s, k) < DistanceOf(0, k) \/ DistanceOf(g, k) < DistanceOf(0, k)
  BY <1>1, SMTT(60) DEF DistanceOf
<1> QED BY <1>1, <1>2, DistanceIs

\* Nodes are numbers below Ring, so there are finitely many.
LEMMA Counted ==
    ASSUME NEW S \in SUBSET (0 .. Ring - 1)
    PROVE  IsFiniteSet(S) /\ Cardinality(S) \in Nat
<1>1. Ring - 1 \in Int
  BY PastryAssumption
<1>2. IsFiniteSet(0 .. Ring - 1)
  BY <1>1, FS_Interval
<1> QED
  BY <1>2, FS_Subset, FS_CardinalityType

\* A leaf set that holds the closest of all nodes misses only those beyond both of its ends.
LEMMA HoldsAll ==
    ASSUME NEW leaves, Good(leaves), NEW nodes \in SUBSET Node, Leaves(leaves) = ClosestLeaves(nodes)
    PROVE  Holds(leaves, nodes)
<1> DEFINE out == nodes \ Leaves(leaves)
           x == Min(out)
           y == Max(out)
           less == {m \in nodes : m < x}
           more == {m \in nodes : m > y}
           end == leaves[numberOfLeaves]
<1>1. Leaves(leaves) \subseteq nodes
  BY DEF ClosestLeaves
<1> SUFFICES ASSUME out # {}
             PROVE  \A n \in out : IsFull(leaves) /\ end < n /\ n < leaves[1]
  BY <1>1 DEF Holds
<1>2. PICK l, r : Slots(leaves, l, r)
  BY DEF Good
<1>3. /\ Half \in Nat \ {0} /\ numberOfLeaves = 2 * Half /\ numberOfLeaves \in Nat
      /\ l \in 0 .. Half /\ r \in 0 .. Half
  BY <1>2, HalfOK DEF Slots
<1>4. /\ \A n : n \in Leaves(leaves) <=> n # NoNode /\ \E i \in 1 .. numberOfLeaves : leaves[i] = n
      /\ \A i, j \in 1 .. numberOfLeaves : leaves[i] = leaves[j] /\ leaves[i] # NoNode => i = j
      /\ \A i \in 1 .. numberOfLeaves : leaves[i] = NoNode \/ leaves[i] \in Nat
  BY <1>2, SlotsOK
<1>5. \A i \in 1 .. numberOfLeaves : leaves[i] # NoNode <=> Half - l < i /\ i <= Half + r
  BY <1>2 DEF Slots
<1>6. \A i, j \in 1 .. numberOfLeaves :
          leaves[i] # NoNode /\ leaves[j] # NoNode /\ Before(i, j) => leaves[i] < leaves[j]
  BY <1>2 DEF Slots
<1>7. Ring - 1 \in Nat /\ Node \subseteq 1 .. Ring - 1 /\ nodes \subseteq 1 .. Ring - 1 /\ out \subseteq nodes
  <2>1. Node \subseteq 1 .. Ring - 1 /\ Ring \in Nat
    BY PastryAssumption
  <2>2. nodes \subseteq 1 .. Ring - 1 /\ out \subseteq nodes
    BY <2>1
  <2>3. PICK n \in out : TRUE
    OBVIOUS
  <2>4. n \in 1 .. Ring - 1
    BY <2>2, <2>3
  <2>5. Ring - 1 \in Nat
    BY <2>1, <2>4
  <2> QED BY <2>1, <2>2, <2>5
<1>8. x \in out /\ y \in out /\ \A n \in out : x <= n /\ n <= y
  <2>1. out \in SUBSET Nat /\ out \in SUBSET (1 .. Ring - 1)
    <3> HIDE DEF out
    <3>1. out \subseteq 1 .. Ring - 1
      BY <1>7
    <3>2. \A n \in 1 .. Ring - 1 : n \in Nat
      BY <1>7
    <3> QED BY <3>1, <3>2
  <2> HIDE DEF out
  <2> QED BY <1>7, <2>1, Least, Greatest
<1> HIDE DEF x, y
<1>9. x \in Nat /\ y \in Nat /\ x <= y
  BY <1>7, <1>8
<1>10. \A m \in less \cup more : m \in Leaves(leaves) /\ m \in Nat /\ m \in 0 .. Ring - 1
  BY <1>7, <1>8, <1>9
<1>11. ~(Cardinality(less) < Half) /\ ~(Cardinality(more) < Half)
  <2>1. x \in nodes /\ x \notin ClosestLeaves(nodes) /\ y \in nodes /\ y \notin ClosestLeaves(nodes)
    BY <1>8
  <2> QED BY <2>1 DEF ClosestLeaves
<1>12. less \cap more = {}
  BY <1>9, <1>10
<1> HIDE DEF out
<1>13. l = Half /\ r = Half
  <2> DEFINE T == {leaves[j] : j \in Half - l + 1 .. Half + r}
  <2>1. ASSUME NEW m \in less \cup more
        PROVE  \E j \in Half - l + 1 .. Half + r : leaves[j] = m
    <3>1. PICK i \in 1 .. numberOfLeaves : leaves[i] = m /\ m # NoNode
      BY <1>4, <1>10
    <3>2. i \in Half - l + 1 .. Half + r
      BY <1>3, <1>5, <3>1
    <3> QED BY <3>1, <3>2
  <2> DEFINE both == less \cup more
  <2>2. /\ IsFiniteSet(less) /\ IsFiniteSet(more) /\ IsFiniteSet(both)
        /\ Cardinality(less) \in Nat /\ Cardinality(more) \in Nat /\ Cardinality(both) \in Nat
    <3>1. less \in SUBSET (0 .. Ring - 1) /\ more \in SUBSET (0 .. Ring - 1) /\ both \in SUBSET (0 .. Ring - 1)
      BY <1>10
    <3> HIDE DEF less, more, both
    <3> QED BY <3>1, Counted
  <2> HIDE DEF less, more
  <2>3. Cardinality(both) = Cardinality(less) + Cardinality(more)
    <3>1. Cardinality(both) = Cardinality(less) + Cardinality(more) - Cardinality(less \cap more)
      BY <2>2, FS_Union
    <3>2. Cardinality(less \cap more) = 0
      BY <1>12, FS_EmptySet
    <3> QED BY <2>2, <3>1, <3>2
  <2> HIDE DEF both
  <2>4. ~(Cardinality(both) < 2 * Half)
    BY <1>3, <1>11, <2>2, <2>3
  <2>5. CASE l + r < 2 * Half
    <3>1. /\ Half - l + 1 \in Int /\ Half + r \in Int /\ 2 * Half \in Nat \ {0}
          /\ (Half + r) - (Half - l + 1) + 1 < 2 * Half
      BY <1>3, <2>5
    <3>2. Cardinality(both) < 2 * Half
      BY <2>1, <3>1, FewerThan DEF both
    <3> QED BY <2>4, <3>2
  <2>6. CASE ~(l + r < 2 * Half)
    BY <1>3, <2>6
  <2> QED BY <2>5, <2>6
<1>14. IsFull(leaves)
  BY <1>2, <1>13, ValidOK
<1>15. /\ 1 \in 1 .. numberOfLeaves /\ numberOfLeaves \in 1 .. numberOfLeaves
       /\ end # NoNode /\ leaves[1] # NoNode /\ end \in Nat /\ leaves[1] \in Nat
       /\ end \in Leaves(leaves) /\ leaves[1] \in Leaves(leaves)
  BY <1>3, <1>4, <1>5, <1>13
<1>16. x # end /\ y # leaves[1]
  BY <1>8, <1>15 DEF out
<1>17. end < x
  <2> SUFFICES ASSUME x < end
               PROVE  FALSE
    BY <1>9, <1>15, <1>16
  <2>1. ASSUME NEW m \in less
        PROVE  \E j \in Half + 1 .. numberOfLeaves - 1 : leaves[j] = m
    <3>1. PICK j \in 1 .. numberOfLeaves : leaves[j] = m /\ m # NoNode
      BY <1>4, <1>10
    <3>2. m < end /\ m \in Nat
      BY <1>9, <1>10, <1>15
    <3>3. ~Before(numberOfLeaves, j) /\ j # numberOfLeaves
      BY <1>6, <1>15, <3>1, <3>2
    <3>4. j \in Half + 1 .. numberOfLeaves - 1
      BY <1>3, <3>3 DEF Before
    <3> QED BY <3>1, <3>4
  <2>2. Half + 1 \in Int /\ numberOfLeaves - 1 \in Int /\ (numberOfLeaves - 1) - (Half + 1) + 1 < Half
    BY <1>3
  <2> HIDE DEF less
  <2>3. Cardinality(less) < Half
    BY <1>3, <2>1, <2>2, FewerThan
  <2> QED BY <1>11, <2>3
<1>18. y < leaves[1]
  <2> SUFFICES ASSUME leaves[1] < y
               PROVE  FALSE
    BY <1>9, <1>15, <1>16
  <2>1. ASSUME NEW m \in more
        PROVE  \E j \in 2 .. Half : leaves[j] = m
    <3>1. PICK j \in 1 .. numberOfLeaves : leaves[j] = m /\ m # NoNode
      BY <1>4, <1>10
    <3>2. leaves[1] < m /\ m \in Nat
      BY <1>9, <1>10, <1>15
    <3>3. ~Before(j, 1) /\ j # 1
      BY <1>6, <1>15, <3>1, <3>2
    <3>4. j \in 2 .. Half
      BY <1>3, <3>3 DEF Before
    <3> QED BY <3>1, <3>4
  <2>2. 2 \in Int /\ Half \in Int /\ Half - 2 + 1 < Half
    BY <1>3
  <2> HIDE DEF more
  <2>3. Cardinality(more) < Half
    BY <1>3, <2>1, <2>2, FewerThan
  <2> QED BY <1>11, <2>3
<1>19. \A n \in out : n \in Nat
  BY <1>7
<1> QED
  BY <1>8, <1>9, <1>14, <1>15, <1>17, <1>18, <1>19
\* All nodes lie between the neighbors.
LEMMA NeighborsOK ==
    ASSUME NEW leaves, Good(leaves), NEW nodes \in SUBSET Node, Holds(leaves, nodes), nodes # {}
    PROVE  \E s, g \in nodes :
               /\ \A n \in nodes : s <= n /\ n <= g
               /\ s = leaves[Half] \/ s = leaves[Half + 1]
               /\ g = leaves[Half] \/ g = leaves[Half + 1]
               /\ leaves[Half] \in {NoNode, s, g} /\ leaves[Half + 1] \in {NoNode, s, g}
<1>1. PICK l, r : Slots(leaves, l, r) /\ Balance(l, r, 1)
  BY DEF Good
<1>2. /\ Half \in Nat \ {0} /\ numberOfLeaves = 2 * Half /\ numberOfLeaves \in Nat
      /\ l \in 0 .. Half /\ r \in 0 .. Half /\ l - r <= 1 /\ r - l <= 1
  BY <1>1, HalfOK DEF Slots, Balance
<1>3. /\ \A n : n \in Leaves(leaves) <=> n # NoNode /\ \E i \in 1 .. numberOfLeaves : leaves[i] = n
      /\ \A i \in 1 .. numberOfLeaves : leaves[i] = NoNode \/ leaves[i] \in Nat
  BY <1>1, SlotsOK
<1>4. \A i \in 1 .. numberOfLeaves : leaves[i] # NoNode <=> Half - l < i /\ i <= Half + r
  BY <1>1 DEF Slots
<1>5. \A i, j \in 1 .. numberOfLeaves :
          leaves[i] # NoNode /\ leaves[j] # NoNode /\ Before(i, j) => leaves[i] < leaves[j]
  BY <1>1 DEF Slots
<1>6. IsFull(leaves) <=> l = Half /\ r = Half
  BY <1>1, ValidOK
<1>7. /\ Leaves(leaves) \subseteq nodes
      /\ \A n \in nodes : \/ n \in Leaves(leaves)
                          \/ IsFull(leaves) /\ leaves[numberOfLeaves] < n /\ n < leaves[1]
  BY DEF Holds
<1>8. \A n \in nodes : n \in Nat /\ n # NoNode
  BY NodeType
<1>9. Half \in 1 .. numberOfLeaves /\ Half + 1 \in 1 .. numberOfLeaves
      /\ 1 \in 1 .. numberOfLeaves /\ numberOfLeaves \in 1 .. numberOfLeaves
  BY <1>2
<1>10. CASE l > 0 /\ r > 0
  <2> DEFINE s == leaves[Half + 1]
             g == leaves[Half]
  <2>1. /\ s # NoNode /\ g # NoNode /\ s \in Nat /\ g \in Nat
        /\ s \in Leaves(leaves) /\ g \in Leaves(leaves)
    <3>1. s # NoNode /\ g # NoNode
      BY <1>2, <1>4, <1>9, <1>10
    <3> QED BY <1>3, <1>9, <3>1
  <2>2. ASSUME NEW i \in 1 .. numberOfLeaves, leaves[i] # NoNode
        PROVE  s <= leaves[i] /\ leaves[i] <= g
    <3>1. leaves[i] \in Nat /\ (i # Half + 1 => Before(Half + 1, i)) /\ (i # Half => Before(i, Half))
      BY <1>2, <1>3, <2>2 DEF Before
    <3>2. (i # Half + 1 => s < leaves[i]) /\ (i # Half => leaves[i] < g)
      BY <1>5, <1>9, <2>1, <2>2, <3>1
    <3> QED BY <2>1, <3>1, <3>2
  <2>3. ASSUME NEW n \in nodes
        PROVE  s <= n /\ n <= g
    <3>1. CASE n \in Leaves(leaves)
      BY <1>3, <2>2, <3>1
    <3>2. CASE n \notin Leaves(leaves)
      <4>1. leaves[numberOfLeaves] < n /\ n < leaves[1] /\ l = Half /\ r = Half
        BY <1>6, <1>7, <3>2
      <4>2. leaves[numberOfLeaves] # NoNode /\ leaves[1] # NoNode
        BY <1>2, <1>4, <1>9, <4>1
      <4>3. s <= leaves[numberOfLeaves] /\ leaves[1] <= g
        BY <1>9, <2>2, <4>2
      <4>4. leaves[numberOfLeaves] \in Nat /\ leaves[1] \in Nat /\ n \in Nat
        BY <1>3, <1>8, <1>9, <4>2
      <4> HIDE DEF s, g
      <4> QED BY <2>1, <4>1, <4>3, <4>4
    <3> QED BY <3>1, <3>2
  <2> QED BY <1>7, <2>1, <2>3
<1>11. CASE ~(l > 0 /\ r > 0)
  <2> DEFINE only == IF l > 0 THEN Half ELSE Half + 1
  <2>1. only \in {Half, Half + 1} /\ \A i \in 1 .. numberOfLeaves : leaves[i] # NoNode => i = only
    BY <1>2, <1>4, <1>11
  <2>2. nodes = Leaves(leaves)
    BY <1>2, <1>6, <1>7, <1>11
  <2> HIDE DEF only
  <2>3. \A n \in nodes : n = leaves[only]
    BY <1>3, <2>1, <2>2
  <2>4. leaves[only] \in nodes /\ leaves[only] \in Nat
    BY <1>8, <2>3
  <2>5. leaves[Half] \in {NoNode, leaves[only]} /\ leaves[Half + 1] \in {NoNode, leaves[only]}
    BY <1>9, <2>1
  <2> QED BY <2>1, <2>3, <2>4, <2>5
<1> QED
  BY <1>10, <1>11

LEMMA IsClosestOK ==
    ASSUME NEW leaves, Good(leaves), NEW nodes \in SUBSET Node, Holds(leaves, nodes),
           NEW key \in 0 .. Ring - 1
    PROVE  IsClosestNode(leaves, key) <=> \A n \in nodes : Distance(n, key) >= Distance(Self, key)
<1>1. Ring \in Nat \ {0} /\ Self = 0 /\ 0 \in 0 .. Ring - 1
  BY PastryAssumption DEF Self
<1>2. \A n \in Node : n \in 1 .. Ring - 1 /\ n \in 0 .. Ring - 1
  BY PastryAssumption
<1>3. /\ \A n \in Node : Distance(n, key) \in Nat
      /\ Distance(Self, key) \in Nat
  BY <1>1, <1>2, DistanceIs
<1>4. CASE nodes = {}
  <2>1. Leaves(leaves) = {}
    BY <1>4 DEF Holds
  <2>2. PICK l, r : Slots(leaves, l, r)
    BY DEF Good
  <2>3. Half \in 1 .. numberOfLeaves /\ Half + 1 \in 1 .. numberOfLeaves
    BY HalfOK
  <2>4. leaves[Half] = NoNode /\ leaves[Half + 1] = NoNode
    BY <2>1, <2>2, <2>3, SlotsOK
  <2> QED BY <1>4, <2>4 DEF IsClosestNode, Free
<1>5. CASE nodes # {} /\ key = Self
  <2>1. Distance(Self, key) = 0
    BY <1>1, <1>5, DistanceIs DEF DistanceOf
  <2> QED BY <1>3, <1>5, <2>1 DEF IsClosestNode
<1>6. CASE nodes # {} /\ key # Self
  <2>1. PICK s, g \in nodes :
               /\ \A n \in nodes : s <= n /\ n <= g
               /\ s = leaves[Half] \/ s = leaves[Half + 1]
               /\ g = leaves[Half] \/ g = leaves[Half + 1]
               /\ leaves[Half] \in {NoNode, s, g} /\ leaves[Half + 1] \in {NoNode, s, g}
    BY <1>6, NeighborsOK
  <2>2. s # NoNode /\ g # NoNode
    BY NodeType
  <2>3. IsClosestNode(leaves, key) <=> Distance(s, key) >= Distance(Self, key) /\ Distance(g, key) >= Distance(Self, key)
    <3>1. IsClosestNode(leaves, key) <=>
              /\ leaves[Half] = NoNode \/ Distance(leaves[Half], key) >= Distance(Self, key)
              /\ leaves[Half + 1] = NoNode \/ Distance(leaves[Half + 1], key) >= Distance(Self, key)
      BY <1>6 DEF IsClosestNode, Free
    <3> QED BY <2>1, <2>2, <3>1
  <2>4. ASSUME NEW n \in nodes, Distance(n, key) < Distance(Self, key)
        PROVE  Distance(s, key) < Distance(Self, key) \/ Distance(g, key) < Distance(Self, key)
    <3>1. s \in 1 .. Ring - 1 /\ g \in 1 .. Ring - 1 /\ n \in s .. g
      BY <1>2, <2>1
    <3> QED BY <1>1, <2>4, <3>1, NeighborIsCloser
  <2>5. \A n \in nodes : Distance(n, key) \in Nat
    BY <1>3
  <2> QED BY <1>3, <2>1, <2>3, <2>4, <2>5
<1> QED
  BY <1>4, <1>5, <1>6
\* The siblings that are named are the closest of all nodes, not only of the leaves: a node
\* that is no leaf lies beyond both ends, and an end that is closer to the key than it is
\* would be named.
LEMMA SiblingVectorOK ==
    ASSUME NEW leaves, Good(leaves), NEW nodes \in SUBSET Node, Holds(leaves, nodes),
           NEW key \in 0 .. Ring - 1, NEW num \in Nat \ {0}
    PROVE  CreateSiblingVector(leaves, key, num) \in {{}, Closest(nodes \cup {Self}, num, key)}
<1> DEFINE known == Leaves(leaves) \cup {Self}
           all   == nodes \cup {Self}
           closer(S, n) == {m \in S : Distance(m, key) < Distance(n, key)}
           result == Closest(known, num, key)
           a == leaves[numberOfLeaves]
           b == leaves[1]
<1>1. CASE ~IsFull(leaves)
  <2>1. Leaves(leaves) = nodes
    BY <1>1 DEF Holds
  <2> QED BY <1>1, <2>1 DEF CreateSiblingVector
<1>2. CASE IsFull(leaves) /\ MoreMayFollow(leaves, result)
  BY <1>2 DEF CreateSiblingVector
<1>3. CASE IsFull(leaves) /\ ~MoreMayFollow(leaves, result)
  <2>1. PICK l, r : Slots(leaves, l, r)
    BY DEF Good
  <2>2. l = Half /\ r = Half
    BY <1>3, <2>1, ValidOK
  <2>3. /\ Half \in Nat \ {0} /\ numberOfLeaves = 2 * Half /\ numberOfLeaves \in Nat
        /\ 1 \in 1 .. numberOfLeaves /\ numberOfLeaves \in 1 .. numberOfLeaves
    BY HalfOK
  <2>4. Smallest(leaves) = 1 /\ Biggest(leaves) = numberOfLeaves
    BY <2>1, <2>2, <2>3, EndsOK
  <2>5. a \notin result /\ b \notin result
    BY <1>3, <2>4 DEF MoreMayFollow
  <2>6. /\ \A n : n \in Leaves(leaves) <=> n # NoNode /\ \E i \in 1 .. numberOfLeaves : leaves[i] = n
        /\ \A i \in 1 .. numberOfLeaves : leaves[i] # NoNode /\ leaves[i] \in Nat /\ leaves[i] > 0
    <3>1. \A i \in 1 .. numberOfLeaves : leaves[i] # NoNode
      BY <2>1, <2>2, <2>3 DEF Slots
    <3> QED BY <2>1, <3>1, SlotsOK
  <2>7. a \in Leaves(leaves) /\ b \in Leaves(leaves) /\ a \in Nat /\ b \in Nat /\ a > 0
    BY <2>3, <2>6
  <2>8. ASSUME NEW n \in known
        PROVE  ~(a < n /\ n < b)
    <3>1. CASE n = Self
      BY <2>7, <3>1 DEF Self
    <3>2. CASE n \in Leaves(leaves)
      <4>1. PICK i \in 1 .. numberOfLeaves : leaves[i] = n
        BY <2>6, <3>2
      <4>2. CASE i <= Half
        <5>1. i # 1 => Before(1, i)
          BY <2>3, <4>2 DEF Before
        <5>2. i # 1 => b < n
          BY <2>1, <2>3, <2>6, <4>1, <5>1 DEF Slots
        <5> QED BY <2>6, <2>7, <4>1, <5>2
      <4>3. CASE ~(i <= Half)
        <5>1. i # numberOfLeaves => Before(i, numberOfLeaves)
          BY <2>3, <4>3 DEF Before
        <5>2. i # numberOfLeaves => n < a
          BY <2>1, <2>3, <2>6, <4>1, <5>1 DEF Slots
        <5> QED BY <2>6, <2>7, <4>1, <5>2
      <4> QED BY <4>2, <4>3
    <3> QED BY <3>1, <3>2
  <2>9. \A n \in all : n \notin known => a < n /\ n < b
    BY DEF Holds
  <2>10. known \subseteq all /\ a \in known /\ b \in known
    BY <2>7 DEF Holds
  <2>11. \A n \in all : n \in 0 .. Ring - 1
    BY PastryAssumption DEF Self
  <2> HIDE DEF a, b, known, all
  <2>12. \A n \in all : Distance(n, key) \in Nat
    BY <2>11, DistanceIs
  <2>13. ASSUME NEW S \in SUBSET all, NEW n
         PROVE  IsFiniteSet(closer(S, n)) /\ Cardinality(closer(S, n)) \in Nat
    <3>1. closer(S, n) \in SUBSET (0 .. Ring - 1)
      BY <2>11
    <3> QED BY <3>1, Counted
  <2>14. ASSUME NEW S \in SUBSET all, NEW m, NEW n, closer(known, m) \subseteq closer(S, n),
                ~(Cardinality(closer(known, m)) < num)
         PROVE  ~(Cardinality(closer(S, n)) < num)
    <3> DEFINE C == closer(known, m)
               D == closer(S, n)
    <3>1. IsFiniteSet(D) /\ Cardinality(D) \in Nat /\ Cardinality(C) \in Nat
      BY <2>10, <2>13
    <3>2. C \in SUBSET D /\ ~(Cardinality(C) < num)
      BY <2>14
    <3> HIDE DEF C, D
    <3>3. Cardinality(C) <= Cardinality(D)
      BY <3>1, <3>2, FS_Subset
    <3>4. ~(Cardinality(D) < num)
      BY <3>1, <3>2, <3>3
    <3> QED BY <3>4 DEF D
  <2>15. \A e \in {a, b} : ~(Cardinality(closer(known, e)) < num)
    BY <2>5, <2>10 DEF Closest
  \* What an end is closer than is not among the closest.
  <2>16. ASSUME NEW e \in {a, b}, NEW n \in all, Distance(e, key) <= Distance(n, key)
         PROVE  ~(Cardinality(closer(known, n)) < num) /\ ~(Cardinality(closer(all, n)) < num)
    <3>1. \A m \in known : Distance(m, key) < Distance(e, key) => Distance(m, key) < Distance(n, key)
      BY <2>10, <2>12, <2>16
    <3>2. closer(known, e) \subseteq closer(known, n) /\ closer(known, e) \subseteq closer(all, n)
      BY <2>10, <3>1
    <3> HIDE DEF closer
    <3> QED BY <2>10, <2>14, <2>15, <3>2
  <2>17. a \in 0 .. Ring - 1 /\ b \in 0 .. Ring - 1
    BY <2>10, <2>11
  <2>18. ~(a < key /\ key < b)
    <3> SUFFICES ASSUME a < key, key < b
                 PROVE  FALSE
      OBVIOUS
    <3>1. \A n \in known : Distance(a, key) <= Distance(n, key) \/ Distance(b, key) <= Distance(n, key)
      BY <2>8, <2>10, <2>11, <2>17, PassesEnd
    <3>2. \E e \in {a, b} : \A n \in known : Distance(e, key) <= Distance(n, key)
      BY <2>10, <2>12, <3>1
    <3>3. PICK e \in {a, b} : \A n \in known : Distance(e, key) <= Distance(n, key)
      BY <3>2
    <3>4. closer(known, e) = {}
      BY <2>10, <2>12, <3>3
    <3>5. Cardinality(closer(known, e)) = 0
      BY <3>4, FS_EmptySet
    <3> HIDE DEF closer
    <3> QED BY <2>15, <3>5
  <2>19. ASSUME NEW m \in all, m \notin known
         PROVE  \E e \in {a, b} : Distance(e, key) <= Distance(m, key)
    <3>1. a < m /\ m < b /\ m \in 0 .. Ring - 1
      BY <2>9, <2>11, <2>19
    <3> QED BY <2>17, <2>18, <3>1, PassesEnd
  <2>20. ASSUME NEW n \in all
         PROVE  n \in result <=> Cardinality(closer(all, n)) < num
    <3>1. CASE n \notin known
      <4>1. ~(Cardinality(closer(all, n)) < num)
        BY <2>16, <2>19, <3>1
      <4> QED BY <3>1, <4>1 DEF Closest
    <3>2. CASE n \in known /\ closer(all, n) \subseteq known
      <4>1. closer(all, n) = closer(known, n)
        BY <2>10, <3>2
      <4> QED BY <3>2, <4>1 DEF Closest
    <3>3. CASE n \in known /\ ~(closer(all, n) \subseteq known)
      <4>1. PICK m \in all : m \notin known /\ Distance(m, key) < Distance(n, key)
        BY <3>3
      <4>2. PICK e \in {a, b} : Distance(e, key) <= Distance(m, key)
        BY <2>19, <4>1
      <4>3. Distance(e, key) <= Distance(n, key)
        BY <2>10, <2>12, <4>1, <4>2
      <4>4. ~(Cardinality(closer(known, n)) < num) /\ ~(Cardinality(closer(all, n)) < num)
        BY <2>16, <4>3
      <4> QED BY <3>3, <4>4 DEF Closest
    <3> QED BY <3>1, <3>2, <3>3
  <2>21. result = Closest(all, num, key)
    <3>1. \A n \in result : n \in all
      BY <2>10 DEF Closest
    <3>2. Closest(all, num, key) = {n \in all : Cardinality(closer(all, n)) < num}
      BY DEF Closest
    <3> HIDE DEF result, closer
    <3> QED BY <2>20, <3>1, <3>2
  <2>22. CreateSiblingVector(leaves, key, num) = result
    BY <1>3 DEF CreateSiblingVector, known
  <2> QED BY <2>21, <2>22 DEF all
<1> QED
  BY <1>1, <1>2, <1>3

\* A node whose leaf set is right is right about who is responsible for a key, whatever the
\* ring and however large the leaf set: the neighbors tell whether another node is closer, and
\* the siblings it names are the closest of all nodes (isClosestNode(), createSiblingVector()).
THEOREM SiblingsAreRight == Spec => []SiblingsRight
<1>1. IInv /\ LeavesInv => SiblingsRight
  <2> SUFFICES ASSUME IInv, LeavesInv, Leaves(p.leaves) = ClosestLeaves(config.nodes),
                      NEW key \in 0 .. Ring - 1
               PROVE  /\ IsClosestNode(p.leaves, key) <=>
                             \A n \in config.nodes : Distance(n, key) >= Distance(Self, key)
                      /\ \A num \in 1 .. Half :
                             CreateSiblingVector(p.leaves, key, num)
                                 \in {{}, Closest(config.nodes \cup {Self}, num, key)}
    BY DEF SiblingsRight
  <2>1. config.nodes \in SUBSET Node /\ Good(p.leaves)
    BY BoundsOK DEF IInv, LeavesInv, Keeps, LeafSetOK
  <2>2. Holds(p.leaves, config.nodes)
    BY <2>1, HoldsAll
  <2>3. \A num \in 1 .. Half : num \in Nat \ {0}
    BY HalfOK
  <2> QED BY <2>1, <2>2, <2>3, IsClosestOK, SiblingVectorOK
<1> QED
  BY <1>1, Invariance, LeavesInvariance, PTL

\* However nodes are merged and fail, and whatever arrives when, the leaf set is what the nodes
\* heard of make it, and once these are all nodes it answers for every key as they would.
THEOREM LeafSetIsConsistent == Spec => []LeafSetConsistent
<1>1. SlotsRight /\ SiblingsRight => LeafSetConsistent
  BY DEF LeafSetConsistent
<1> QED
  BY <1>1, SlotsAreRight, SiblingsAreRight, PTL
=============================================================================
