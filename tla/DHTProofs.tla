------------------------------- MODULE DHTProofs -------------------------------
(***************************************************************************)
(* A put that is told to have succeeded was handled by most of the         *)
(* siblings, and a get asks no node twice, whatever nodes, values and      *)
(* requests there are, however calls are delayed, reordered or lost, and   *)
(* whoever joins or leaves meanwhile.  As long as nothing is lost and      *)
(* nobody joins or leaves, no request fails, and a get that begins after   *)
(* the only put was acknowledged returns its value.  Maintenance brings    *)
(* the item of the only put back to all siblings after each change.        *)
(***************************************************************************)
EXTENDS DHT, FiniteSetTheorems, SequenceTheorems, WellFoundedInduction, TLAPS

(***************************************************************************)
(* Numbers and sequences                                                   *)
(***************************************************************************)
\* Every set of natural numbers has a least one...
LEMMA Least ==
    ASSUME NEW S \in SUBSET Nat, S # {}
    PROVE  \E x \in S : \A y \in S : x <= y
<1> DEFINE R == OpToRel(<, Nat)
<1>1. IsWellFoundedOn(R, Nat)
  BY NatLessThanWellFounded
<1>2. \A x, y \in Nat : x < y => <<x, y>> \in R
  BY DEF OpToRel
<1> HIDE DEF R
<1>3. PICK x \in S : \A y \in S : ~ (<<y, x>> \in R)
  BY <1>1, WFMin
<1>4. \A y \in S : ~ (y < x)
  BY <1>2, <1>3
<1>5. x \in Nat /\ \A y \in S : y \in Nat
  BY <1>3
<1>6. \A y \in S : x <= y
  BY <1>4, <1>5
<1> QED
  BY <1>3, <1>6

\* ... and if it is finite, a greatest one: the one with fewest numbers above it.
LEMMA Greatest ==
    ASSUME NEW S \in SUBSET Nat, S # {}, IsFiniteSet(S)
    PROVE  \E x \in S : \A y \in S : y <= x
<1> DEFINE Above(x) == {y \in S : y > x}
           Counts == {Cardinality(Above(x)) : x \in S}
<1>1. \A x \in S : IsFiniteSet(Above(x)) /\ Cardinality(Above(x)) \in Nat
  BY FS_Subset, FS_CardinalityType
<1>2. Counts \in SUBSET Nat /\ Counts # {}
  BY <1>1
<1> HIDE DEF Counts
<1>3. PICK k \in Counts : \A j \in Counts : k <= j
  BY <1>2, Least
<1>4. PICK x \in S : k = Cardinality(Above(x))
  BY <1>3 DEF Counts
<1>5. ASSUME NEW y \in S, ~(y <= x)
      PROVE  FALSE
  <2>1. x \in Nat /\ y \in Nat /\ y > x
    BY <1>4, <1>5
  <2>2. Above(y) \subseteq Above(x) /\ y \in Above(x) /\ y \notin Above(y)
    <3>1. \A z \in S : z > y => z > x
      BY <2>1
    <3>2. ~ (y > y)
      BY <2>1
    <3> QED BY <1>5, <2>1, <3>1, <3>2
  <2>3. Cardinality(Above(y)) <= Cardinality(Above(x)) /\ Cardinality(Above(y)) # Cardinality(Above(x))
    <3> HIDE DEF Above
    <3> QED BY <1>1, <1>4, <2>2, FS_Subset
  <2>4. Cardinality(Above(y)) \in Counts
    BY DEF Counts
  <2> QED
    BY <1>1, <1>3, <1>4, <2>3, <2>4
<1> QED
  BY <1>4, <1>5

\* A finite set without one of its elements.
LEMMA RemoveOne ==
    ASSUME NEW S, IsFiniteSet(S), NEW x \in S
    PROVE  IsFiniteSet(S \ {x}) /\ Cardinality(S \ {x}) = Cardinality(S) - 1
BY FS_RemoveElement

LEMMA MinIsMember ==
    ASSUME NEW S \in SUBSET Nat, S # {}
    PROVE  Min(S) \in S /\ \A y \in S : Min(S) <= y
BY Least DEF Min

LEMMA FrontOfInjective ==
    ASSUME NEW S, NEW s \in Seq(S), s # << >>, IsInjective(s)
    PROVE  /\ Front(s) \in Seq(S) /\ IsInjective(Front(s))
           /\ Last(s) \in S /\ Last(s) \in Range(s)
           /\ Range(Front(s)) = Range(s) \ {Last(s)}
<1>1. Len(s) \in Nat \ {0} /\ DOMAIN s = 1 .. Len(s)
  BY EmptySeq, LenProperties
<1>2. \A i \in 1 .. Len(s) : s[i] \in S
  BY ElementOfSeq
<1>3. /\ Front(s) \in Seq(S) /\ Len(Front(s)) = Len(s) - 1
      /\ \A i \in 1 .. Len(s) - 1 : Front(s)[i] = s[i]
  <2>1. \A i \in 1 .. Len(s) - 1 : s[i] \in S
    BY <1>1, <1>2
  <2>2. /\ SubSeq(s, 1, Len(s) - 1) \in Seq(S)
        /\ Len(SubSeq(s, 1, Len(s) - 1)) = IF 1 <= Len(s) - 1 THEN Len(s) - 1 - 1 + 1 ELSE 0
        /\ \A i \in 1 .. Len(s) - 1 - 1 + 1 : SubSeq(s, 1, Len(s) - 1)[i] = s[1 + i - 1]
    BY <1>1, <2>1, SubSeqProperties
  <2> QED
    BY <1>1, <2>2 DEF Front
<1>4. DOMAIN Front(s) = 1 .. Len(s) - 1
  BY <1>3, LenProperties
<1> QED
  BY <1>1, <1>2, <1>3, <1>4 DEF Last, Range, IsInjective

LEMMA AppendToInjective ==
    ASSUME NEW S, NEW s \in Seq(S), NEW x \in S, IsInjective(s), x \notin Range(s)
    PROVE  /\ Append(s, x) \in Seq(S) /\ IsInjective(Append(s, x))
           /\ Range(Append(s, x)) = Range(s) \cup {x}
<1>1. /\ Append(s, x) \in Seq(S) /\ Len(Append(s, x)) = Len(s) + 1
      /\ \A i \in 1 .. Len(s) : Append(s, x)[i] = s[i]
      /\ Append(s, x)[Len(s) + 1] = x
  BY AppendProperties
<1>2. Len(s) \in Nat /\ DOMAIN s = 1 .. Len(s) /\ DOMAIN Append(s, x) = 1 .. Len(s) + 1
  BY <1>1, LenProperties
<1> QED
  BY <1>1, <1>2 DEF Range, IsInjective

\* The two parts of a sequence without repetitions share nothing.
LEMMA PartsOfInjective ==
    ASSUME NEW S, NEW s \in Seq(S), IsInjective(s), NEW k \in 0 .. Len(s)
    PROVE  LET first == SubSeq(s, 1, k)  rest == SubSeq(s, k + 1, Len(s))
           IN  /\ first \in Seq(S) /\ Len(first) = k /\ IsInjective(first)
               /\ rest \in Seq(S) /\ IsInjective(rest)
               /\ Range(first) \cup Range(rest) = Range(s)
               /\ Range(first) \cap Range(rest) = {}
<1> DEFINE first == SubSeq(s, 1, k)
           rest  == SubSeq(s, k + 1, Len(s))
<1>1. Len(s) \in Nat /\ DOMAIN s = 1 .. Len(s) /\ k \in Nat /\ k <= Len(s)
  BY LenProperties
<1>2. \A i \in 1 .. Len(s) : s[i] \in S
  BY ElementOfSeq
<1>3. /\ first \in Seq(S) /\ Len(first) = k /\ \A i \in 1 .. k : first[i] = s[i]
  <2>1. \A i \in 1 .. k : s[i] \in S
    BY <1>1, <1>2
  <2>2. /\ first \in Seq(S) /\ Len(first) = IF 1 <= k THEN k - 1 + 1 ELSE 0
        /\ \A i \in 1 .. k - 1 + 1 : first[i] = s[1 + i - 1]
    BY <1>1, <2>1, SubSeqProperties
  <2> HIDE DEF first
  <2> QED
    BY <1>1, <2>2
<1>4. /\ rest \in Seq(S) /\ Len(rest) = Len(s) - k /\ \A i \in 1 .. Len(s) - k : rest[i] = s[k + i]
  <2>1. \A i \in k + 1 .. Len(s) : s[i] \in S
    BY <1>1, <1>2
  <2>2. /\ rest \in Seq(S) /\ Len(rest) = IF k + 1 <= Len(s) THEN Len(s) - (k + 1) + 1 ELSE 0
        /\ \A i \in 1 .. Len(s) - (k + 1) + 1 : rest[i] = s[(k + 1) + i - 1]
    BY <1>1, <2>1, SubSeqProperties
  <2> HIDE DEF first, rest
  <2>3. Len(rest) = Len(s) - k
    <3>1. \A a, b \in Nat : a <= b => b - a = IF a + 1 <= b THEN b - (a + 1) + 1 ELSE 0
      OBVIOUS
    <3>2. Len(s) - k = IF k + 1 <= Len(s) THEN Len(s) - (k + 1) + 1 ELSE 0
      BY <1>1, <3>1
    <3> QED BY <2>2, <3>2
  <2>4. ASSUME NEW i \in 1 .. Len(s) - k
        PROVE  rest[i] = s[k + i]
    <3>1. i \in 1 .. Len(s) - (k + 1) + 1 /\ (k + 1) + i - 1 = k + i
      BY <1>1
    <3> QED BY <2>2, <3>1
  <2> QED
    BY <2>2, <2>3, <2>4
<1>5. DOMAIN first = 1 .. k /\ DOMAIN rest = 1 .. Len(s) - k
  BY <1>3, <1>4, LenProperties
<1> HIDE DEF first, rest
<1>6. IsInjective(rest)
  <2> SUFFICES ASSUME NEW a \in 1 .. Len(s) - k, NEW b \in 1 .. Len(s) - k, rest[a] = rest[b]
               PROVE  a = b
    BY <1>5 DEF IsInjective
  <2>1. k + a \in 1 .. Len(s) /\ k + b \in 1 .. Len(s) /\ s[k + a] = s[k + b]
    BY <1>1, <1>4
  <2>2. k + a = k + b
    BY <1>1, <2>1 DEF IsInjective
  <2> QED
    BY <1>1, <2>2
<1>7. Range(first) \subseteq Range(s) /\ Range(rest) \subseteq Range(s)
  <2>1. \A i \in 1 .. Len(s) : s[i] \in Range(s)
    BY <1>1 DEF Range
  <2>2. ASSUME NEW x \in Range(first)
        PROVE  x \in Range(s)
    <3>1. PICK a \in 1 .. k : first[a] = x
      BY <1>5 DEF Range
    <3>2. a \in 1 .. Len(s)
      BY <1>1
    <3> QED BY <1>3, <2>1, <3>1, <3>2
  <2>3. ASSUME NEW x \in Range(rest)
        PROVE  x \in Range(s)
    <3>1. PICK a \in 1 .. Len(s) - k : rest[a] = x
      BY <1>5 DEF Range
    <3>2. k + a \in 1 .. Len(s)
      BY <1>1
    <3> QED BY <1>4, <2>1, <3>1, <3>2
  <2> QED BY <2>2, <2>3
<1>8. Range(first) \cap Range(rest) = {}
  <2> SUFFICES ASSUME NEW x, x \in Range(first), x \in Range(rest)
               PROVE  FALSE
    OBVIOUS
  <2>a. PICK a \in 1 .. k : first[a] = x
    BY <1>5 DEF Range
  <2>b. PICK b \in 1 .. Len(s) - k : rest[b] = x
    BY <1>5 DEF Range
  <2>1. a \in 1 .. Len(s) /\ k + b \in 1 .. Len(s) /\ s[a] = s[k + b]
    BY <1>1, <1>3, <1>4, <2>a, <2>b
  <2>2. a = k + b
    BY <1>1, <2>1 DEF IsInjective
  <2> QED
    BY <1>1, <2>2
<1>9. IsInjective(first)
  BY <1>1, <1>3, <1>5 DEF IsInjective
<1>10. ASSUME NEW x \in Range(s)
       PROVE  x \in Range(first) \cup Range(rest)
  <2>1. PICK i \in 1 .. Len(s) : s[i] = x
    BY <1>1 DEF Range
  <2>2. CASE i <= k
    <3>1. i \in 1 .. k
      BY <1>1, <2>2
    <3> QED BY <1>3, <1>5, <2>1, <3>1 DEF Range
  <2>3. CASE ~(i <= k)
    <3>1. i - k \in 1 .. Len(s) - k /\ k + (i - k) = i
      BY <1>1, <2>3
    <3> QED BY <1>4, <1>5, <2>1, <3>1 DEF Range
  <2> QED BY <2>2, <2>3
<1> QED
  BY <1>3, <1>4, <1>6, <1>7, <1>8, <1>9, <1>10 DEF first, rest

(***************************************************************************)
(* The siblings of the key                                                 *)
(***************************************************************************)
\* The closer nodes of a member, and one more for each farther member.
LEMMA Ranks ==
    ASSUME members \in SUBSET Nat, IsFiniteSet(members)
    PROVE  /\ \A n \in members : /\ IsFiniteSet(Closer(n)) /\ Cardinality(Closer(n)) \in Nat
                                 /\ Cardinality(Closer(n)) < Cardinality(members)
           /\ \A n, m \in members : m < n => Cardinality(Closer(m)) < Cardinality(Closer(n))
<1>1. ASSUME NEW n \in members
      PROVE  /\ IsFiniteSet(Closer(n)) /\ Cardinality(Closer(n)) \in Nat
             /\ Cardinality(Closer(n)) < Cardinality(members)
  <2>1. Closer(n) \in SUBSET members
    BY DEF Closer
  <2>2. n \notin Closer(n)
    BY DEF Closer
  <2>3. Closer(n) # members
    BY <2>2
  <2> QED
    BY <2>1, <2>3, FS_Subset, FS_CardinalityType
<1>2. ASSUME NEW n \in members, NEW m \in members, m < n
      PROVE  Cardinality(Closer(m)) < Cardinality(Closer(n))
  <2>1. Closer(m) \in SUBSET Closer(n)
    <3>1. \A x \in members : x < m => x < n
      BY <1>2
    <3> QED BY <3>1 DEF Closer
  <2>2. m \notin Closer(m) /\ m \in Closer(n)
    BY <1>2 DEF Closer
  <2>3. Closer(m) # Closer(n)
    BY <2>2
  <2> QED
    BY <1>1, <2>1, <2>3, FS_Subset
<1> QED
  BY <1>1, <1>2

\* Every rank is somebody's: of all nodes that have at least this rank, the closest.
LEMMA EveryRank ==
    ASSUME members \in SUBSET Nat, IsFiniteSet(members),
           NEW j \in Nat, j < Cardinality(members)
    PROVE  \E n \in members : Cardinality(Closer(n)) = j
<1> DEFINE Far == {n \in members : j <= Cardinality(Closer(n))}
<1>1. members # {} /\ Cardinality(members) \in Nat
  BY FS_EmptySet, FS_CardinalityType
\* Only m itself is closer than a node next to m.
<1>2. ASSUME NEW S \in SUBSET members, S # {}
      PROVE  \E m \in S : \A y \in S : y <= m
  <2>1. IsFiniteSet(S) /\ S \in SUBSET Nat
    BY FS_Subset
  <2> QED
    BY <1>2, <2>1, Greatest
<1>3. Far # {}
  <2>1. PICK m \in members : \A y \in members : y <= m
    BY <1>1, <1>2
  <2>2. Closer(m) = members \ {m}
    <3>1. \A x \in members : x < m <=> x # m
      BY <2>1
    <3> QED BY <2>1, <3>1 DEF Closer
  <2>3. Cardinality(Closer(m)) = Cardinality(members) - 1
    BY <2>1, <2>2, FS_RemoveElement
  <2> QED
    BY <1>1, <2>1, <2>3
<1>4. PICK n \in Far : \A y \in Far : n <= y
  BY <1>3, Least
<1>5. CASE Cardinality(Closer(n)) = j
  BY <1>4, <1>5
<1>6. CASE Cardinality(Closer(n)) # j
  <2>1. /\ IsFiniteSet(Closer(n)) /\ Cardinality(Closer(n)) \in Nat
        /\ Cardinality(Closer(n)) > j /\ n \in members
    BY <1>4, <1>6, Ranks
  <2>2. Closer(n) # {} /\ Closer(n) \in SUBSET members
    BY <2>1, FS_EmptySet DEF Closer
  <2>3. PICK m \in Closer(n) : \A y \in Closer(n) : y <= m
    BY <1>2, <2>2
  <2>4. m \in members /\ m < n /\ Closer(m) = Closer(n) \ {m}
    <3>1. m \in members /\ m < n
      BY <2>3 DEF Closer
    <3>2. \A x \in members : x < m => x < n
      BY <2>1, <3>1
    <3>3. \A x \in Closer(n) : x # m => x < m
      BY <2>1, <2>2, <2>3, <3>1
    <3>4. ~ (m < m)
      BY <3>1
    <3> QED BY <3>1, <3>2, <3>3, <3>4 DEF Closer
  <2>5. Cardinality(Closer(m)) = Cardinality(Closer(n)) - 1
    BY <2>1, <2>3, <2>4, FS_RemoveElement
  <2>6. m \in Far
    BY <2>1, <2>4, <2>5
  <2> QED
    BY <1>4, <2>1, <2>4, <2>6
<1> QED
  BY <1>5, <1>6

LEMMA SiblingsAreMembers ==
    ASSUME members \in SUBSET Nat, IsFiniteSet(members), members # {}, NEW k \in Nat \ {0}
    PROVE  /\ Siblings(k) \in Seq(members) /\ IsInjective(Siblings(k))
           /\ Len(Siblings(k)) \in 1 .. k
           /\ IsFiniteSet(Range(Siblings(k))) /\ Cardinality(Range(Siblings(k))) <= Len(Siblings(k))
<1> DEFINE l == Min({k, Cardinality(members)})
           S(i) == CHOOSE n \in members : Cardinality(Closer(n)) = i - 1
           f == [i \in 1 .. l |-> S(i)]
<1>1. Cardinality(members) \in Nat \ {0}
  BY FS_EmptySet, FS_CardinalityType
<1>2. l \in {k, Cardinality(members)} /\ l <= k /\ l <= Cardinality(members)
  BY <1>1, MinIsMember
<1>3. l \in 1 .. k /\ l \in Nat
  BY <1>1, <1>2
<1> HIDE DEF l
<1>4. ASSUME NEW i \in 1 .. l
      PROVE  S(i) \in members /\ Cardinality(Closer(S(i))) = i - 1
  <2>1. i - 1 \in Nat /\ i - 1 < Cardinality(members)
    BY <1>1, <1>2, <1>3
  <2>2. \E n \in members : Cardinality(Closer(n)) = i - 1
    BY <2>1, EveryRank
  <2> QED
    BY <2>2
<1> HIDE DEF S
<1>5. f \in Seq(members)
  BY <1>3, <1>4, IsASeq
<1>6. Len(f) = l /\ DOMAIN f = 1 .. l
  BY <1>3, <1>5, LenProperties
<1>7. IsInjective(f)
  BY <1>3, <1>4, <1>6 DEF IsInjective
<1>8. f = Siblings(k)
  BY DEF Siblings, l, S
<1> DEFINE s == Siblings(k)
<1>9. s \in Seq(members) /\ Len(s) = l /\ DOMAIN s = 1 .. l /\ IsInjective(s)
  BY <1>5, <1>6, <1>7, <1>8
<1> HIDE DEF f, s
<1>10. IsFiniteSet(Range(s)) /\ Cardinality(Range(s)) <= l
  <2>1. s \in Surjection(1 .. l, Range(s))
    BY <1>9 DEF Range, Surjection
  <2>2. IsFiniteSet(1 .. l) /\ Cardinality(1 .. l) = l
    BY <1>3, FS_Interval
  <2> QED
    BY <2>1, <2>2, FS_Surjection
<1> QED
  BY <1>3, <1>9, <1>10 DEF s

(***************************************************************************)
(* The inductive invariant                                                 *)
(***************************************************************************)
Stored    == Value \cup {NoValue}
CallSet   == [req : Nat, kind : {"put", "hash", "value"}, src : Node, to : Node,
              value : Stored, about : Node, answered : BOOLEAN]
VoteMaps  == UNION {[V -> {X \in SUBSET Node : IsFiniteSet(X)}] :
                        V \in {V \in SUBSET Value : IsFiniteSet(V)}}
EntrySet  == [value : Value, responsible : BOOLEAN, votes : VoteMaps]
HashMaps  == UNION {[V -> Seq(Node)] : V \in SUBSET Stored}
LEMMA StoredAreNumbers == Stored \in SUBSET Nat /\ NoHash \notin Stored /\ NoValue \notin Value
<1>1. Value \subseteq Nat \ {NoValue}
  BY DHTAssumption
<1> QED
  BY <1>1 DEF Stored, NoValue, NoHash

States    == {"LOOKUP_STARTED", "PUT_SENT", "GET_HASH_SENT", "GET_VALUE_SENT"}
Asking    == {"GET_HASH_SENT", "GET_VALUE_SENT"}
PendingSet == [state : States, replica : Seq(Node), hashVector : Stored \cup {NoHash},
               hashes : HashMaps, numSent : Nat, numAvailableReplica : Nat,
               numFailed : Nat, numResponses : Nat]

MembersOK == members \in SUBSET Node /\ IsFiniteSet(members) /\ Client \in members

DataOK(data, ms) ==
    /\ data \in [Node -> EntrySet \cup {Nothing}]
    /\ \A n \in Node : data[n] # Nothing => n \in ms

IsHistory(H) ==
    H = [told |-> H.told, began |-> H.began, asked |-> H.asked, handled |-> H.handled,
         guarded |-> H.guarded, planned |-> H.planned]

\* A request begins once, in the order of the scenario, and ends once.
HistoryOK(S, H, open) ==
    /\ IsHistory(H)
    /\ \E k \in 0 .. Len(S.requests) : DOMAIN H.began = 1 .. k
    /\ open \subseteq DOMAIN H.began \ DOMAIN H.told
    /\ DOMAIN H.told \subseteq DOMAIN H.began /\ DOMAIN H.asked \subseteq DOMAIN H.began
    /\ \A r \in DOMAIN H.asked : H.asked[r] \in SUBSET Node /\ IsFiniteSet(H.asked[r])

\* Maintenance calls are not answered; a put that was answered has been handled.
CallOK(S, H, c) ==
    /\ c \in CallSet
    /\ c.req = 0 => c.kind = "put" /\ ~c.answered /\ c.value \in Value
    /\ c.req # 0 =>
        /\ c.req \in DOMAIN H.asked
        /\ c.kind = "put" <=> S.requests[c.req].type = "put"
        /\ c.kind = "put" => c.to \in H.asked[c.req] /\ (c.answered => <<c.req, c.to>> \in H.handled)

\* A request has one call to a node at a time.
OneCall(C) == \A c, d \in C : c.req = d.req /\ c.to = d.to /\ c.req # 0 => c = d

\* The siblings that have handled request r, and whose answer is not still to come.
Done(H, W, r) == {n \in H.asked[r] : <<r, n>> \in H.handled /\ n \notin W}

RequestOK(S, H, W, r, e) ==
    /\ e \in PendingSet /\ e.numSent <= S.replicas
    /\ NoNodeTwice(e, W)
    /\ IF e.state = "LOOKUP_STARTED" THEN e = Pending /\ r \notin DOMAIN H.asked
       ELSE r \in DOMAIN H.asked
    /\ e.state = "PUT_SENT" =>
        /\ S.requests[r].type = "put" /\ e.replica = << >> /\ DOMAIN e.hashes = {}
        /\ Cardinality(H.asked[r]) <= e.numSent
        /\ e.numResponses <= Cardinality(Done(H, W, r))
    /\ e.state \in Asking =>
        /\ S.requests[r].type = "get"
        /\ e.hashVector # NoHash => e.hashVector \in DOMAIN e.hashes

\* What was told about the puts is true.
Reported(S, H) ==
    \A r \in DOMAIN H.told : S.requests[r].type = "put" /\ H.told[r].success =>
        /\ r \in DOMAIN H.asked
        /\ 2 * Cardinality({n \in H.asked[r] : <<r, n>> \in H.handled}) > Cardinality(H.asked[r])

CallsOK(S, H, C) == OneCall(C) /\ \A c \in C : CallOK(S, H, c)

ClientOK(S, H, C, rpcs) ==
    /\ HistoryOK(S, H, DOMAIN rpcs)
    /\ CallsOK(S, H, C)
    /\ \A r \in DOMAIN rpcs : RequestOK(S, H, Waiting(C, r), r, rpcs[r])
    /\ Reported(S, H)

IInv ==
    /\ scenario \in Scenario /\ MembersOK
    /\ DataOK(dataMap, members)
    /\ ClientOK(scenario, history, calls, pendingRpcs)
    /\ updates \in SUBSET (Node \X Node \X BOOLEAN)

(***************************************************************************)
(* The history, and what adding to it leaves true                          *)
(***************************************************************************)
SameRequests(S, T) == T.requests = S.requests /\ T.replicas = S.replicas

\* Nothing is taken back of what the nodes were asked and have handled.
Grows(H, G) ==
    /\ DOMAIN H.asked \subseteq DOMAIN G.asked
    /\ \A r \in DOMAIN H.asked : G.asked[r] = H.asked[r]
    /\ H.handled \subseteq G.handled

LEMMA CallStays ==
    ASSUME NEW S, NEW T, NEW H, NEW G, NEW c, CallOK(S, H, c), SameRequests(S, T), Grows(H, G)
    PROVE  CallOK(T, G, c)
BY DEF CallOK, SameRequests, Grows

LEMMA CallsStay ==
    ASSUME NEW S, NEW T, NEW H, NEW G, NEW C, CallsOK(S, H, C), SameRequests(S, T), Grows(H, G)
    PROVE  CallsOK(T, G, C)
BY CallStays DEF CallsOK

LEMMA DoneGrows ==
    ASSUME NEW H, NEW G, NEW W, NEW V, NEW r, Grows(H, G), r \in DOMAIN H.asked,
           IsFiniteSet(H.asked[r]), V \subseteq W
    PROVE  /\ Cardinality(Done(H, W, r)) \in Nat
           /\ Cardinality(Done(H, W, r)) <= Cardinality(Done(G, V, r))
           /\ Cardinality(Done(G, V, r)) \in Nat
<1>1. Done(H, W, r) \in SUBSET Done(G, V, r) /\ Done(G, V, r) \in SUBSET H.asked[r]
  BY DEF Done, Grows
<1>2. IsFiniteSet(Done(G, V, r))
  BY <1>1, FS_Subset
<1>3. IsFiniteSet(Done(H, W, r)) /\ Cardinality(Done(H, W, r)) <= Cardinality(Done(G, V, r))
  BY <1>1, <1>2, FS_Subset
<1> QED
  BY <1>2, <1>3, FS_CardinalityType

LEMMA NodesStay ==
    ASSUME NEW e, NEW W, NEW V, NoNodeTwice(e, W), V \subseteq W
    PROVE  NoNodeTwice(e, V)
BY DEF NoNodeTwice

LEMMA RequestStays ==
    ASSUME NEW S, NEW T, NEW H, NEW G, NEW W, NEW V, NEW r, NEW e,
           RequestOK(S, H, W, r, e), SameRequests(S, T), Grows(H, G), V \subseteq W,
           r \in DOMAIN H.asked => IsFiniteSet(H.asked[r]),
           r \in DOMAIN G.asked => r \in DOMAIN H.asked
    PROVE  RequestOK(T, G, V, r, e)
<1>1. NoNodeTwice(e, V)
  BY NodesStay DEF RequestOK
<1>2. ASSUME e.state = "PUT_SENT"
      PROVE  /\ r \in DOMAIN H.asked /\ G.asked[r] = H.asked[r]
             /\ e.numResponses <= Cardinality(Done(G, V, r))
  <2>1. /\ r \in DOMAIN H.asked /\ e.numResponses \in Nat
        /\ e.numResponses <= Cardinality(Done(H, W, r))
    BY <1>2 DEF RequestOK, PendingSet
  <2>2. /\ Cardinality(Done(H, W, r)) \in Nat /\ Cardinality(Done(G, V, r)) \in Nat
        /\ Cardinality(Done(H, W, r)) <= Cardinality(Done(G, V, r))
    BY <2>1, DoneGrows
  <2> QED
    BY <2>1, <2>2 DEF Grows
<1>3. r \in DOMAIN H.asked <=> r \in DOMAIN G.asked
  BY DEF Grows
<1> QED
  BY <1>1, <1>2, <1>3 DEF RequestOK, SameRequests

LEMMA ReportedStays ==
    ASSUME NEW S, NEW T, NEW H, NEW G, Reported(S, H), SameRequests(S, T), Grows(H, G),
           \A r \in DOMAIN H.asked : IsFiniteSet(H.asked[r]), G.told = H.told
    PROVE  Reported(T, G)
<1> SUFFICES ASSUME NEW r \in DOMAIN H.told, S.requests[r].type = "put", H.told[r].success
             PROVE  /\ r \in DOMAIN G.asked
                    /\ 2 * Cardinality({n \in G.asked[r] : <<r, n>> \in G.handled})
                           > Cardinality(G.asked[r])
  BY DEF Reported, SameRequests
<1> DEFINE old == {n \in H.asked[r] : <<r, n>> \in H.handled}
           new == {n \in G.asked[r] : <<r, n>> \in G.handled}
<1>1. r \in DOMAIN H.asked /\ 2 * Cardinality(old) > Cardinality(H.asked[r])
  BY DEF Reported
<1>2. r \in DOMAIN G.asked /\ G.asked[r] = H.asked[r] /\ IsFiniteSet(H.asked[r])
  BY <1>1 DEF Grows
<1>3. old \in SUBSET new /\ new \in SUBSET H.asked[r]
  BY <1>2 DEF Grows
<1> HIDE DEF old, new
<1>4. IsFiniteSet(new) /\ IsFiniteSet(old) /\ Cardinality(old) <= Cardinality(new)
  BY <1>2, <1>3, FS_Subset
<1>5. Cardinality(old) \in Nat /\ Cardinality(new) \in Nat /\ Cardinality(H.asked[r]) \in Nat
  BY <1>2, <1>4, FS_CardinalityType
<1>6. 2 * Cardinality(new) > Cardinality(G.asked[r])
  BY <1>1, <1>2, <1>4, <1>5
<1> QED
  BY <1>2, <1>6 DEF new

\* G is the history H but for what it says in field told, and so on.
SameBut(H, G, told, began, asked, handled) ==
    /\ IsHistory(G)
    /\ G.told = told /\ G.began = began /\ G.asked = asked /\ G.handled = handled

LEMMA HistoryFields ==
    ASSUME NEW H, IsHistory(H), NEW x
    PROVE  /\ SameBut(H, [H EXCEPT !.told = x], x, H.began, H.asked, H.handled)
           /\ SameBut(H, [H EXCEPT !.began = x], H.told, x, H.asked, H.handled)
           /\ SameBut(H, [H EXCEPT !.asked = x], H.told, H.began, x, H.handled)
           /\ SameBut(H, [H EXCEPT !.handled = x], H.told, H.began, H.asked, x)
           /\ SameBut(H, [H EXCEPT !.guarded = x], H.told, H.began, H.asked, H.handled)
<1> DEFINE R(told, began, asked, handled, guarded) ==
               [told |-> told, began |-> began, asked |-> asked, handled |-> handled,
                guarded |-> guarded, planned |-> H.planned]
<1>1. H = R(H.told, H.began, H.asked, H.handled, H.guarded)
  BY DEF IsHistory
<1>2. /\ [H EXCEPT !.told = x] = R(x, H.began, H.asked, H.handled, H.guarded)
      /\ [H EXCEPT !.began = x] = R(H.told, x, H.asked, H.handled, H.guarded)
      /\ [H EXCEPT !.asked = x] = R(H.told, H.began, x, H.handled, H.guarded)
      /\ [H EXCEPT !.handled = x] = R(H.told, H.began, H.asked, x, H.guarded)
      /\ [H EXCEPT !.guarded = x] = R(H.told, H.began, H.asked, H.handled, x)
  BY <1>1
<1>3. \A a, b, c, d, e : SameBut(H, R(a, b, c, d, e), a, b, c, d)
  BY DEF SameBut, IsHistory
<1> HIDE DEF R
<1> QED
  BY <1>2, <1>3

(***************************************************************************)
(* What the client does with an answer or a timeout                        *)
(***************************************************************************)
LEMMA ClientStays ==
    ASSUME NEW S, NEW T, NEW H, NEW C, NEW rpcs, ClientOK(S, H, C, rpcs), SameRequests(S, T)
    PROVE  ClientOK(T, H, C, rpcs)
<1>1. Grows(H, H)
  BY DEF Grows
<1>2. \A r \in DOMAIN H.asked : IsFiniteSet(H.asked[r])
  BY DEF ClientOK, HistoryOK
<1>3. HistoryOK(T, H, DOMAIN rpcs)
  BY DEF ClientOK, HistoryOK, SameRequests
<1>4. CallsOK(T, H, C) /\ Reported(T, H)
  BY <1>1, <1>2, CallsStay, ReportedStays DEF ClientOK
<1>5. ASSUME NEW r \in DOMAIN rpcs
      PROVE  RequestOK(T, H, Waiting(C, r), r, rpcs[r])
  BY <1>1, <1>2, RequestStays DEF ClientOK
<1> QED
  BY <1>3, <1>4, <1>5 DEF ClientOK

\* Request r ends.
LEMMA ClientTells ==
    ASSUME NEW S, NEW H, NEW C, NEW rpcs, ClientOK(S, H, C, rpcs), NEW r \in DOMAIN rpcs, NEW answer,
           S.requests[r].type = "put" /\ answer.success =>
               /\ r \in DOMAIN H.asked
               /\ 2 * Cardinality({n \in H.asked[r] : <<r, n>> \in H.handled})
                      > Cardinality(H.asked[r])
    PROVE  ClientOK(S, [H EXCEPT !.told = With(H.told, r, answer)], C,
                    Restrict(rpcs, DOMAIN rpcs \ {r}))
<1> DEFINE G == [H EXCEPT !.told = With(H.told, r, answer)]
           rest == Restrict(rpcs, DOMAIN rpcs \ {r})
<1>1. /\ IsHistory(G) /\ G.told = With(H.told, r, answer)
      /\ G.began = H.began /\ G.asked = H.asked /\ G.handled = H.handled
  <2>1. IsHistory(H)
    BY DEF ClientOK, HistoryOK
  <2>2. SameBut(H, G, With(H.told, r, answer), H.began, H.asked, H.handled)
    BY <2>1, HistoryFields
  <2> QED BY <2>2 DEF SameBut
<1> HIDE DEF G
<1>2. DOMAIN rest = DOMAIN rpcs \ {r} /\ \A q \in DOMAIN rest : rest[q] = rpcs[q]
  BY DEF Restrict
<1>3. DOMAIN G.told = DOMAIN H.told \cup {r} /\ G.told[r] = answer
      /\ \A q \in DOMAIN H.told : q # r => G.told[q] = H.told[q]
  <2> DEFINE t == With(H.told, r, answer)
  <2>1. DOMAIN t = DOMAIN H.told \cup {r} /\ t[r] = answer
        /\ \A q \in DOMAIN H.told : q # r => t[q] = H.told[q]
    BY DEF With
  <2> HIDE DEF t
  <2>2. G.told = t
    BY <1>1 DEF t
  <2> QED BY <2>1, <2>2
<1> HIDE DEF rest
<1>4. Grows(H, G) /\ SameRequests(S, S)
  BY <1>1 DEF Grows, SameRequests
<1>5. \A q \in DOMAIN H.asked : IsFiniteSet(H.asked[q])
  BY DEF ClientOK, HistoryOK
<1>6. HistoryOK(S, G, DOMAIN rest)
  BY <1>1, <1>2, <1>3 DEF ClientOK, HistoryOK
<1>7. CallsOK(S, G, C)
  BY <1>4, CallsStay DEF ClientOK
<1>8. ASSUME NEW q \in DOMAIN rest
      PROVE  RequestOK(S, G, Waiting(C, q), q, rest[q])
  BY <1>1, <1>2, <1>4, <1>5, RequestStays DEF ClientOK
<1>9. Reported(S, G)
  BY <1>1, <1>3 DEF Reported, ClientOK
<1> QED
  BY <1>6, <1>7, <1>8, <1>9 DEF ClientOK, G, rest

\* Request r goes on with entry e, and calls D are on their way.
LEMMA ClientKeeps ==
    ASSUME NEW S, NEW H, NEW C, NEW D, NEW rpcs, ClientOK(S, H, C, rpcs), NEW r \in DOMAIN rpcs, NEW e,
           CallsOK(S, H, D), \A q \in DOMAIN rpcs : q # r => Waiting(D, q) \subseteq Waiting(C, q),
           RequestOK(S, H, Waiting(D, r), r, e)
    PROVE  ClientOK(S, H, D, [rpcs EXCEPT ![r] = e])
<1>1. Grows(H, H) /\ SameRequests(S, S)
  BY DEF Grows, SameRequests
<1>2. \A q \in DOMAIN H.asked : IsFiniteSet(H.asked[q])
  BY DEF ClientOK, HistoryOK
<1> DEFINE new == [rpcs EXCEPT ![r] = e]
<1>3. DOMAIN new = DOMAIN rpcs /\ new[r] = e /\ \A q \in DOMAIN rpcs : q # r => new[q] = rpcs[q]
  OBVIOUS
<1> HIDE DEF new
<1>4. ASSUME NEW q \in DOMAIN rpcs, q # r
      PROVE  RequestOK(S, H, Waiting(D, q), q, rpcs[q])
  BY <1>1, <1>2, <1>4, RequestStays DEF ClientOK
<1> QED
  BY <1>3, <1>4 DEF ClientOK, new

\* Calls end.
LEMMA ClientDrops ==
    ASSUME NEW S, NEW H, NEW C, NEW D, NEW rpcs, ClientOK(S, H, C, rpcs), D \subseteq C
    PROVE  ClientOK(S, H, D, rpcs) /\ CallsOK(S, H, D) /\ \A r : Waiting(D, r) \subseteq Waiting(C, r)
<1>1. Grows(H, H) /\ SameRequests(S, S)
  BY DEF Grows, SameRequests
<1>2. \A q \in DOMAIN H.asked : IsFiniteSet(H.asked[q])
  BY DEF ClientOK, HistoryOK
<1>3. \A r : Waiting(D, r) \subseteq Waiting(C, r)
  BY DEF Waiting
<1>4. CallsOK(S, H, D)
  BY DEF ClientOK, CallsOK, OneCall
<1>5. ASSUME NEW q \in DOMAIN rpcs
      PROVE  RequestOK(S, H, Waiting(D, q), q, rpcs[q])
  BY <1>1, <1>2, <1>3, RequestStays DEF ClientOK
<1> QED
  BY <1>3, <1>4, <1>5 DEF ClientOK

\* A call to a node that none of the request's calls is on its way to.
LEMMA AddCall ==
    ASSUME NEW S, NEW H, NEW C, CallsOK(S, H, C),
           NEW r \in DOMAIN H.asked, r \in Nat \ {0}, S.requests[r].type = "get",
           NEW kind \in {"hash", "value"}, NEW n \in Node, n \notin Waiting(C, r)
    PROVE  LET D == C \cup {RequestCall(r, kind, n, NoValue)}
           IN  /\ CallsOK(S, H, D) /\ Waiting(D, r) = Waiting(C, r) \cup {n}
               /\ \A q : q # r => Waiting(D, q) = Waiting(C, q)
<1> DEFINE c == RequestCall(r, kind, n, NoValue)
           D == C \cup {c}
<1>1. /\ c \in CallSet /\ c.req = r /\ c.kind = kind /\ c.to = n
  BY DHTAssumption DEF RequestCall, Call, CallSet, Stored
<1> HIDE DEF c
<1>2. CallOK(S, H, c)
  BY <1>1 DEF CallOK
<1>3. Waiting(D, r) = Waiting(C, r) \cup {n} /\ \A q : q # r => Waiting(D, q) = Waiting(C, q)
  BY <1>1 DEF Waiting
<1>4. \A d \in C : d.req = r => d.to # n
  BY DEF Waiting
<1>5. OneCall(D)
  BY <1>1, <1>4 DEF OneCall, CallsOK
<1>6. \A d \in D : CallOK(S, H, d)
  BY <1>2 DEF CallsOK
<1> QED
  BY <1>3, <1>5, <1>6 DEF c, CallsOK

\* Call c becomes d, which waits for the same node.
LEMMA AnswerCall ==
    ASSUME NEW S, NEW H, NEW C, CallsOK(S, H, C), NEW c \in C, NEW d,
           d.req = c.req, d.to = c.to, CallOK(S, H, d)
    PROVE  LET D == (C \ {c}) \cup {d}
           IN  CallsOK(S, H, D) /\ \A q : Waiting(D, q) = Waiting(C, q)
BY DEF CallsOK, OneCall, Waiting

(***************************************************************************)
(* The entry of a get                                                      *)
(***************************************************************************)
\* The entry of a get that asks the nodes, while calls to the nodes W are on their way.
GetOK(e, W) ==
    /\ e \in PendingSet /\ e.state \in Asking /\ NoNodeTwice(e, W)
    /\ e.hashVector # NoHash => e.hashVector \in DOMAIN e.hashes

LEMMA GetIsRequest ==
    ASSUME NEW S, NEW H, NEW W, NEW r, NEW e, S.requests[r].type = "get", r \in DOMAIN H.asked,
           e.state \in Asking
    PROVE  RequestOK(S, H, W, r, e) <=> GetOK(e, W) /\ e.numSent <= S.replicas
BY DEF RequestOK, GetOK, Asking

LEMMA HashesOfEntry ==
    ASSUME NEW e \in PendingSet
    PROVE  /\ DOMAIN e.hashes \in SUBSET Stored
           /\ \A h \in DOMAIN e.hashes : e.hashes[h] \in Seq(Node)
           /\ e.hashes = [h \in DOMAIN e.hashes |-> e.hashes[h]]
<1>1. e.hashes \in HashMaps
  BY DEF PendingSet
<1>2. PICK V \in SUBSET Stored : e.hashes \in [V -> Seq(Node)]
  BY <1>1 DEF HashMaps
<1> QED
  BY <1>2

LEMMA HashMap ==
    ASSUME NEW f, f = [h \in DOMAIN f |-> f[h]], DOMAIN f \in SUBSET Stored,
           \A h \in DOMAIN f : f[h] \in Seq(Node)
    PROVE  f \in HashMaps
<1>1. f \in [DOMAIN f -> Seq(Node)]
  OBVIOUS
<1> QED
  BY <1>1 DEF HashMaps

\* Changing one field of an entry.
LEMMA EntryFields ==
    ASSUME NEW e \in PendingSet
    PROVE  /\ \A x \in States : LET g == [e EXCEPT !.state = x]
                IN  /\ g \in PendingSet /\ g.state = x /\ g.replica = e.replica /\ g.hashes = e.hashes
                    /\ g.hashVector = e.hashVector /\ g.numSent = e.numSent
           /\ \A x \in Stored \cup {NoHash} : LET g == [e EXCEPT !.hashVector = x]
                IN  /\ g \in PendingSet /\ g.state = e.state /\ g.replica = e.replica /\ g.hashes = e.hashes
                    /\ g.hashVector = x /\ g.numSent = e.numSent
           /\ \A x \in Seq(Node) : LET g == [e EXCEPT !.replica = x]
                IN  /\ g \in PendingSet /\ g.state = e.state /\ g.replica = x /\ g.hashes = e.hashes
                    /\ g.hashVector = e.hashVector /\ g.numSent = e.numSent
           /\ \A x \in HashMaps : LET g == [e EXCEPT !.hashes = x]
                IN  /\ g \in PendingSet /\ g.state = e.state /\ g.replica = e.replica /\ g.hashes = x
                    /\ g.hashVector = e.hashVector /\ g.numSent = e.numSent
BY DEF PendingSet

LEMMA ChoosesVector ==
    ASSUME NEW e, NEW W, GetOK(e, W), NEW h \in DOMAIN e.hashes \cup {NoHash}
    PROVE  GetOK([e EXCEPT !.hashVector = h], W)
<1> DEFINE g == [e EXCEPT !.hashVector = h]
<1>1. e \in PendingSet /\ h \in Stored \cup {NoHash}
  BY HashesOfEntry DEF GetOK
<1>2. g \in PendingSet /\ g.state = e.state /\ g.replica = e.replica /\ g.hashes = e.hashes /\ g.hashVector = h
  BY <1>1, EntryFields
<1> HIDE DEF g
<1>3. GetOK(g, W)
  BY <1>2 DEF GetOK, NoNodeTwice
<1> QED
  BY <1>3 DEF g

LEMMA AsksForValue ==
    ASSUME NEW e, NEW W, GetOK(e, W)
    PROVE  GetOK(ValueSent(e), W)
<1> DEFINE g == [e EXCEPT !.state = "GET_VALUE_SENT"]
<1>1. e \in PendingSet /\ "GET_VALUE_SENT" \in States
  BY DEF GetOK, States
<1>2. /\ g \in PendingSet /\ g.state = "GET_VALUE_SENT" /\ g.replica = e.replica /\ g.hashes = e.hashes
      /\ g.hashVector = e.hashVector
  BY <1>1, EntryFields
<1> HIDE DEF g
<1>3. GetOK(g, W)
  BY <1>2 DEF GetOK, NoNodeTwice, Asking
<1> QED
  BY <1>3 DEF g, ValueSent

LEMMA AsksReplica ==
    ASSUME NEW e, NEW W, GetOK(e, W), e.replica # << >>
    PROVE  /\ Last(e.replica) \in Node \ W
           /\ GetOK([e EXCEPT !.replica = Front(@)], W \cup {Last(e.replica)})
<1> DEFINE n == Last(e.replica)
           f == Front(e.replica)
           g == [e EXCEPT !.replica = f]
<1>1. e \in PendingSet /\ e.replica \in Seq(Node) /\ IsInjective(e.replica)
  BY DEF GetOK, NoNodeTwice, PendingSet
<1>2. /\ f \in Seq(Node) /\ IsInjective(f) /\ n \in Node /\ n \in Range(e.replica)
      /\ Range(f) = Range(e.replica) \ {n}
  BY <1>1, FrontOfInjective
<1>3. g \in PendingSet /\ g.state = e.state /\ g.replica = f /\ g.hashes = e.hashes /\ g.hashVector = e.hashVector
  BY <1>1, <1>2, EntryFields
<1>4. [e EXCEPT !.replica = Front(@)] = g
  BY <1>1
<1> HIDE DEF g, n, f
<1>5. n \notin W
  BY <1>2 DEF GetOK, NoNodeTwice
<1>6. NoNodeTwice(g, W \cup {n})
  BY <1>2, <1>3 DEF GetOK, NoNodeTwice
<1>7. GetOK(g, W \cup {n})
  BY <1>3, <1>6 DEF GetOK
<1> QED
  BY <1>2, <1>4, <1>5, <1>7 DEF n

LEMMA AsksVector ==
    ASSUME NEW e, NEW W, GetOK(e, W), CanAsk(e)
    PROVE  LET n == Last(e.hashes[e.hashVector])
           IN  n \in Node \ W /\ GetOK(Popped(e), W \cup {n}) /\ Popped(e).numSent = e.numSent
<1> DEFINE v == e.hashVector
           s == e.hashes[v]
           n == Last(s)
           f == Front(s)
           m == [e.hashes EXCEPT ![v] = f]
           g == [e EXCEPT !.hashes = m]
<1>1. e \in PendingSet /\ v \in DOMAIN e.hashes /\ s # << >>
  BY DEF GetOK, CanAsk
<1>2. s \in Seq(Node) /\ IsInjective(s)
  BY <1>1, HashesOfEntry DEF GetOK, NoNodeTwice
<1>3. f \in Seq(Node) /\ IsInjective(f) /\ n \in Node /\ n \in Range(s) /\ Range(f) = Range(s) \ {n}
  BY <1>1, <1>2, FrontOfInjective
<1>4. DOMAIN m = DOMAIN e.hashes /\ m[v] = f /\ \A h \in DOMAIN e.hashes : h # v => m[h] = e.hashes[h]
  BY <1>1
<1>5. m \in HashMaps
  <2>1. m = [h \in DOMAIN m |-> m[h]]
    OBVIOUS
  <2> HIDE DEF m, f
  <2>2. DOMAIN m \in SUBSET Stored /\ \A h \in DOMAIN m : m[h] \in Seq(Node)
    BY <1>1, <1>3, <1>4, HashesOfEntry
  <2> QED BY <2>1, <2>2, HashMap
<1>6. /\ g \in PendingSet /\ g.state = e.state /\ g.replica = e.replica /\ g.hashes = m
      /\ g.hashVector = v /\ g.numSent = e.numSent
  <2> HIDE DEF m
  <2> QED BY <1>1, <1>5, EntryFields
<1>7. Popped(e) = g
  BY DEF Popped
<1> HIDE DEF g, m, n, f
<1>8. n \notin W
  BY <1>1, <1>3 DEF GetOK, NoNodeTwice
<1>9. NoNodeTwice(g, W \cup {n})
  <2> SUFFICES ASSUME NEW h \in DOMAIN e.hashes
               PROVE  /\ IsInjective(m[h]) /\ Range(m[h]) \cap (W \cup {n} \cup Range(e.replica)) = {}
                      /\ \A k \in DOMAIN e.hashes \ {h} : Range(m[h]) \cap Range(m[k]) = {}
                      /\ n \notin Range(e.replica)
    BY <1>1, <1>4, <1>6 DEF GetOK, NoNodeTwice
  <2>1. \A k \in DOMAIN e.hashes : Range(m[k]) \subseteq Range(e.hashes[k]) /\ n \notin Range(m[k])
    BY <1>1, <1>3, <1>4 DEF GetOK, NoNodeTwice
  <2>2. IsInjective(m[h])
    BY <1>3, <1>4 DEF GetOK, NoNodeTwice
  <2>3. n \notin Range(e.replica)
    BY <1>1, <1>3 DEF GetOK, NoNodeTwice
  <2>4. Range(m[h]) \cap (W \cup Range(e.replica)) = {}
    BY <2>1 DEF GetOK, NoNodeTwice
  <2>5. \A k \in DOMAIN e.hashes \ {h} : Range(m[h]) \cap Range(m[k]) = {}
    BY <2>1 DEF GetOK, NoNodeTwice
  <2> QED
    BY <2>1, <2>2, <2>3, <2>4, <2>5
<1>10. GetOK(g, W \cup {n})
  BY <1>1, <1>4, <1>6, <1>9 DEF GetOK
<1> QED
  BY <1>3, <1>6, <1>7, <1>8, <1>10 DEF n

\* An answer of node c.to, which was waited for, is counted.
LEMMA CountsHash ==
    ASSUME NEW e, NEW W, GetOK(e, W), NEW c, c.value \in Stored, c.to \in Node, c.to \in W
    PROVE  GetOK(Counted(e, c), W \ {c.to}) /\ Counted(e, c).numSent = e.numSent
           /\ c.value \in DOMAIN Counted(e, c).hashes
           /\ Counted(e, c).state = e.state
<1> DEFINE v == c.value
           n == c.to
           s == IF v \in DOMAIN e.hashes THEN e.hashes[v] ELSE << >>
           f == Append(s, n)
           m == With(e.hashes, v, f)
           count == e.numResponses + 1
           g == [e EXCEPT !.hashes = m, !.numResponses = count]
<1>1. e \in PendingSet /\ count \in Nat
  BY DEF GetOK, PendingSet
<1>2. s \in Seq(Node) /\ IsInjective(s) /\ n \notin Range(s)
  <2>1. CASE v \in DOMAIN e.hashes
    BY <1>1, <2>1, HashesOfEntry DEF GetOK, NoNodeTwice
  <2>2. CASE v \notin DOMAIN e.hashes
    BY <2>2, EmptySeq DEF IsInjective, Range
  <2> QED BY <2>1, <2>2
<1>3. v \in DOMAIN e.hashes => s = e.hashes[v]
  OBVIOUS
<1>4. v \notin DOMAIN e.hashes => Range(s) = {}
  BY DEF Range
<1> HIDE DEF s
<1>5. f \in Seq(Node) /\ IsInjective(f) /\ Range(f) = Range(s) \cup {n}
  BY <1>2, AppendToInjective
<1> HIDE DEF f
<1>6. /\ DOMAIN m = DOMAIN e.hashes \cup {v} /\ m[v] = f
      /\ \A h \in DOMAIN e.hashes : h # v => m[h] = e.hashes[h]
  BY DEF With
<1>7. m \in HashMaps
  <2>1. m = [h \in DOMAIN m |-> m[h]]
    BY DEF With
  <2> HIDE DEF m
  <2>2. DOMAIN m \in SUBSET Stored /\ \A h \in DOMAIN m : m[h] \in Seq(Node)
    BY <1>1, <1>5, <1>6, HashesOfEntry
  <2> QED BY <2>1, <2>2, HashMap
<1> HIDE DEF m, count
<1>8. /\ g \in PendingSet /\ g.state = e.state /\ g.replica = e.replica /\ g.hashes = m
      /\ g.hashVector = e.hashVector /\ g.numSent = e.numSent
  BY <1>1, <1>7 DEF PendingSet
<1>9. Counted(e, c) = g
  BY DEF Counted, g, m, f, s, count
<1> HIDE DEF g
<1>10. NoNodeTwice(g, W \ {n})
  <2> SUFFICES ASSUME NEW h \in DOMAIN m
               PROVE  /\ IsInjective(m[h]) /\ Range(m[h]) \cap ((W \ {n}) \cup Range(e.replica)) = {}
                      /\ \A k \in DOMAIN m \ {h} : Range(m[h]) \cap Range(m[k]) = {}
    BY <1>1, <1>6, <1>8 DEF GetOK, NoNodeTwice
  <2>1. \A k \in DOMAIN m : k # v => /\ k \in DOMAIN e.hashes /\ m[k] = e.hashes[k]
                                     /\ n \notin Range(m[k])
    BY <1>6 DEF GetOK, NoNodeTwice
  <2>2. n \notin Range(e.replica)
    BY DEF GetOK, NoNodeTwice
  <2>3. /\ Range(s) \cap (W \cup Range(e.replica)) = {}
        /\ \A k \in DOMAIN e.hashes : k # v => Range(s) \cap Range(e.hashes[k]) = {}
    BY <1>3, <1>4 DEF GetOK, NoNodeTwice
  <2>4. CASE h = v
    BY <1>5, <1>6, <2>1, <2>2, <2>3, <2>4
  <2>5. CASE h # v
    <3>1. h \in DOMAIN e.hashes /\ m[h] = e.hashes[h] /\ n \notin Range(m[h])
      BY <2>1, <2>5
    <3>2. IsInjective(m[h]) /\ Range(m[h]) \cap ((W \ {n}) \cup Range(e.replica)) = {}
      BY <3>1 DEF GetOK, NoNodeTwice
    <3>3. ASSUME NEW k \in DOMAIN m, k # h
          PROVE  Range(m[h]) \cap Range(m[k]) = {}
      <4>1. CASE k = v
        BY <1>5, <1>6, <2>3, <2>5, <3>1, <4>1
      <4>2. CASE k # v
        BY <2>1, <3>1, <3>3, <4>2 DEF GetOK, NoNodeTwice
      <4> QED BY <4>1, <4>2
    <3> QED BY <3>2, <3>3
  <2> QED BY <2>4, <2>5
<1>11. GetOK(g, W \ {n}) /\ v \in DOMAIN g.hashes
  BY <1>6, <1>8, <1>10 DEF GetOK
<1> QED
  BY <1>8, <1>9, <1>11

(***************************************************************************)
(* The handlers of the client                                              *)
(***************************************************************************)
\* What is known when an answer or a timeout of get r is handled, with entry e and the
\* calls rest on their way.
Getting(r, e, rest) ==
    /\ ClientOK(scenario, history, calls, pendingRpcs)
    /\ r \in Open /\ r \in DOMAIN history.asked /\ r \in Nat \ {0}
    /\ scenario.requests[r].type = "get"
    /\ CallsOK(scenario, history, rest)
    /\ \A q \in Open : q # r => Waiting(rest, q) \subseteq Waiting(calls, q)
    /\ GetOK(e, Waiting(rest, r)) /\ e.numSent <= NumReplica

ClientOKNext == ClientOK(scenario, history', calls', pendingRpcs')

LEMMA GetKeeps ==
    ASSUME NEW r, NEW e, NEW rest, Getting(r, e, rest), Keep(r, e), calls' = rest
    PROVE  ClientOKNext
<1>1. RequestOK(scenario, history, Waiting(rest, r), r, e)
  BY GetIsRequest DEF Getting, GetOK, NumReplica
<1>2. ClientOK(scenario, history, rest, [pendingRpcs EXCEPT ![r] = e])
  BY <1>1, ClientKeeps DEF Getting, Open
<1> QED
  BY <1>2 DEF Keep, ClientOKNext

\* A node that is in no place of the entry is asked.
LEMMA GettingWith ==
    ASSUME NEW r, NEW e, NEW rest, NEW f, NEW kind \in {"hash", "value"}, NEW n \in Node,
           Getting(r, e, rest), n \notin Waiting(rest, r),
           GetOK(f, Waiting(rest, r) \cup {n}), f.numSent <= NumReplica
    PROVE  Getting(r, f, rest \cup {RequestCall(r, kind, n, NoValue)})
<1> DEFINE D == rest \cup {RequestCall(r, kind, n, NoValue)}
<1>1. /\ CallsOK(scenario, history, D) /\ Waiting(D, r) = Waiting(rest, r) \cup {n}
      /\ \A q : q # r => Waiting(D, q) = Waiting(rest, q)
  <2>1. /\ CallsOK(scenario, history, rest) /\ r \in DOMAIN history.asked /\ r \in Nat \ {0}
        /\ scenario.requests[r].type = "get"
    BY DEF Getting
  <2> QED BY <2>1, AddCall
<1> HIDE DEF D
<1> QED
  BY <1>1 DEF Getting, D

LEMMA GetFails ==
    ASSUME NEW r, NEW e, NEW rest, Getting(r, e, rest), Fail(r), calls' = rest
    PROVE  ClientOKNext
<1> DEFINE rpcs == [pendingRpcs EXCEPT ![r] = e]
<1>1. RequestOK(scenario, history, Waiting(rest, r), r, e)
  BY GetIsRequest DEF Getting, GetOK, NumReplica
<1>2. ClientOK(scenario, history, rest, rpcs)
  BY <1>1, ClientKeeps DEF Getting, Open
<1>3. Restrict(rpcs, DOMAIN rpcs \ {r}) = Restrict(pendingRpcs, Open \ {r})
  BY DEF Restrict, Open
<1>4. r \in DOMAIN rpcs /\ scenario.requests[r].type # "put"
  BY DEF Getting, Open
<1> HIDE DEF rpcs
<1>5. ClientOK(scenario, [history EXCEPT !.told = With(history.told, r, Told(FALSE, NoValue))], rest,
               Restrict(rpcs, DOMAIN rpcs \ {r}))
  BY <1>2, <1>4, ClientTells
<1> QED
  BY <1>3, <1>5 DEF Fail, Tell, Close, ClientOKNext

LEMMA BestOK ==
    ASSUME NEW r, NEW e, NEW rest, Getting(r, e, rest)
    PROVE  Getting(r, [e EXCEPT !.hashVector = Best(e.hashes)], rest)
<1> DEFINE best == Best(e.hashes)
           W    == Waiting(rest, r)
           g    == [e EXCEPT !.hashVector = best]
<1>1. GetOK(e, W) /\ e \in PendingSet
  BY DEF Getting, GetOK
<1>2. best \in DOMAIN e.hashes \cup {NoHash}
  <2> DEFINE long == {h \in DOMAIN e.hashes : e.hashes[h] # << >> /\ \A k \in DOMAIN e.hashes :
                                                  Len(e.hashes[k]) <= Len(e.hashes[h])}
  <2>1. best = IF long = {} THEN NoHash ELSE Min(long)
    BY DEF Best
  <2>2. long \subseteq DOMAIN e.hashes
    OBVIOUS
  <2> HIDE DEF long
  <2>3. DOMAIN e.hashes \in SUBSET Nat
    BY <1>1, HashesOfEntry, StoredAreNumbers
  <2>4. long # {} => Min(long) \in long
    BY <2>2, <2>3, MinIsMember
  <2> QED
    BY <2>1, <2>2, <2>4
<1> HIDE DEF best
<1>3. GetOK(g, W)
  BY <1>1, <1>2, ChoosesVector
<1>4. g.numSent = e.numSent
  BY <1>1, <1>2, EntryFields, HashesOfEntry
<1> HIDE DEF g
<1>5. Getting(r, g, rest)
  BY <1>3, <1>4 DEF Getting
<1> QED
  BY <1>5 DEF g, best

LEMMA HashCallOK ==
    ASSUME NEW r, NEW e, NEW rest, Getting(r, e, rest), e.replica # << >>
    PROVE  Getting(r, [e EXCEPT !.replica = Front(@)], rest \cup {HashCall(r, e)})
<1> DEFINE g == [e EXCEPT !.replica = Front(@)]
           n == Last(e.replica)
           W == Waiting(rest, r)
<1>1. n \in Node \ W /\ GetOK(g, W \cup {n})
  BY AsksReplica DEF Getting
<1>2. g.numSent = e.numSent
  BY DEF Getting, GetOK, PendingSet
<1>3. HashCall(r, e) = RequestCall(r, "hash", n, NoValue)
  BY DEF HashCall
<1> HIDE DEF g, n
<1>4. g.numSent <= NumReplica
  BY <1>2 DEF Getting
<1> QED
  BY <1>1, <1>3, <1>4, GettingWith DEF g

LEMMA ValueCallOK ==
    ASSUME NEW r, NEW e, NEW rest, Getting(r, e, rest), CanAsk(e)
    PROVE  Getting(r, Popped(e), rest \cup {ValueCall(r, e)})
<1> DEFINE n == Last(e.hashes[e.hashVector])
           W == Waiting(rest, r)
<1>1. n \in Node \ W /\ GetOK(Popped(e), W \cup {n}) /\ Popped(e).numSent = e.numSent
  BY AsksVector DEF Getting
<1>2. ValueCall(r, e) = RequestCall(r, "value", n, NoValue)
  BY DEF ValueCall
<1> HIDE DEF n
<1>3. Popped(e).numSent <= NumReplica
  BY <1>1 DEF Getting
<1> QED
  BY <1>1, <1>2, <1>3, GettingWith

LEMMA DecideOK ==
    ASSUME NEW r, NEW e, NEW rest, Getting(r, e, rest), Decide(r, e, rest)
    PROVE  ClientOKNext
<1>1. CASE e.hashVector = NoHash
  BY <1>1, GetKeeps DEF Decide
<1>2. CASE e.hashVector # NoHash /\ CanAsk(e)
  <2> DEFINE D == rest \cup {ValueCall(r, e)}
             p == Popped(e)
             f == ValueSent(p)
  <2>1. Getting(r, p, D)
    BY <1>2, ValueCallOK
  <2> HIDE DEF D, p
  <2>2. GetOK(f, Waiting(D, r))
    BY <2>1, AsksForValue DEF Getting
  <2>3. f.numSent = p.numSent
    BY <2>1 DEF ValueSent, Getting, GetOK, PendingSet
  <2> HIDE DEF f
  <2>4. Getting(r, f, D)
    BY <2>1, <2>2, <2>3 DEF Getting
  <2>5. Keep(r, f) /\ calls' = D
    BY <1>2 DEF Decide, f, p, D
  <2> QED
    BY <2>4, <2>5, GetKeeps
<1>3. CASE e.hashVector # NoHash /\ ~CanAsk(e)
  BY <1>3, GetFails DEF Decide
<1> QED
  BY <1>1, <1>2, <1>3

\* What is known about a call of an open request that ends.
LEMMA EndingCall ==
    ASSUME ClientOK(scenario, history, calls, pendingRpcs), NEW c \in calls, c.req \in Open
    PROVE  /\ c \in CallSet /\ c.req \in Nat \ {0} /\ c.req \in DOMAIN history.asked
           /\ c.kind = "put" <=> scenario.requests[c.req].type = "put"
           /\ CallsOK(scenario, history, calls \ {c})
           /\ Waiting(calls \ {c}, c.req) = Waiting(calls, c.req) \ {c.to}
           /\ c.to \in Waiting(calls, c.req)
           /\ \A q : Waiting(calls \ {c}, q) \subseteq Waiting(calls, q)
<1>1. CallOK(scenario, history, c) /\ OneCall(calls)
  BY DEF ClientOK, CallsOK
<1>2. c.req \in Nat \ {0}
  <2>1. PICK k \in 0 .. Len(scenario.requests) : DOMAIN history.began = 1 .. k
    BY DEF ClientOK, HistoryOK
  <2>2. c.req \in 1 .. k
    BY <2>1 DEF ClientOK, HistoryOK, Open
  <2> QED
    BY <2>2
<1>3. CallsOK(scenario, history, calls \ {c}) /\ \A q : Waiting(calls \ {c}, q) \subseteq Waiting(calls, q)
  <2>1. calls \ {c} \subseteq calls
    OBVIOUS
  <2> QED BY <2>1, ClientDrops
<1>4. Waiting(calls \ {c}, c.req) = Waiting(calls, c.req) \ {c.to} /\ c.to \in Waiting(calls, c.req)
  BY <1>1, <1>2 DEF Waiting, OneCall
<1> QED
  BY <1>1, <1>2, <1>3, <1>4 DEF CallOK

\* The request of a call to a get is asking.
LEMMA EndingGet ==
    ASSUME scenario \in Scenario, ClientOK(scenario, history, calls, pendingRpcs),
           NEW c \in calls, c.req \in Open, c.kind # "put"
    PROVE  Getting(c.req, pendingRpcs[c.req], calls \ {c})
<1> DEFINE r == c.req
           e == pendingRpcs[r]
<1>1. RequestOK(scenario, history, Waiting(calls, r), r, e)
  BY DEF ClientOK, Open
<1>2. /\ r \in Nat \ {0} /\ r \in DOMAIN history.asked /\ scenario.requests[r].type # "put"
      /\ CallsOK(scenario, history, calls \ {c})
      /\ Waiting(calls \ {c}, r) \subseteq Waiting(calls, r)
      /\ \A q : Waiting(calls \ {c}, q) \subseteq Waiting(calls, q)
  BY EndingCall
<1>3. e.state \in Asking /\ scenario.requests[r].type = "get"
  BY <1>1, <1>2 DEF RequestOK, PendingSet, States, Asking
<1>4. GetOK(e, Waiting(calls, r)) /\ e.numSent <= NumReplica
  BY <1>1, <1>2, <1>3, GetIsRequest DEF NumReplica
<1>5. GetOK(e, Waiting(calls \ {c}, r))
  BY <1>2, <1>4, NodesStay DEF GetOK
<1> QED
  BY <1>2, <1>3, <1>4, <1>5 DEF Getting

\* The entry of a get after an answer with a hash was counted.
LEMMA CountedOK ==
    ASSUME scenario \in Scenario, ClientOK(scenario, history, calls, pendingRpcs),
           NEW c \in calls, c.req \in Open, c.kind = "hash"
    PROVE  /\ Getting(c.req, Counted(pendingRpcs[c.req], c), calls \ {c})
           /\ pendingRpcs[c.req] \in PendingSet /\ pendingRpcs[c.req].state \in Asking
           /\ c.value \in Stored /\ c.to \in Node
<1> DEFINE r    == c.req
           rest == calls \ {c}
           e    == Counted(pendingRpcs[r], c)
           W    == Waiting(rest, r)
<1>1. Getting(r, pendingRpcs[r], rest)
  BY EndingGet
<1>2. GetOK(pendingRpcs[r], Waiting(calls, r)) /\ c.to \in Waiting(calls, r) /\ W = Waiting(calls, r) \ {c.to}
      /\ c.value \in Stored /\ c.to \in Node
  <2>1. RequestOK(scenario, history, Waiting(calls, r), r, pendingRpcs[r])
    BY DEF ClientOK, Open
  <2>2. pendingRpcs[r].state \in Asking /\ scenario.requests[r].type = "get" /\ r \in DOMAIN history.asked
    BY <1>1 DEF Getting, GetOK
  <2>3. GetOK(pendingRpcs[r], Waiting(calls, r))
    BY <2>1, <2>2, GetIsRequest
  <2> QED
    BY <2>3, EndingCall DEF CallSet
<1>3. GetOK(e, W) /\ e.numSent = pendingRpcs[r].numSent
  BY <1>2, CountsHash, SMTT(30)
<1> HIDE DEF e, rest, W
<1>4. Getting(r, e, rest)
  BY <1>1, <1>3 DEF Getting, W
<1> QED
  BY <1>2, <1>4 DEF GetOK, e, rest

LEMMA HashOK ==
    ASSUME scenario \in Scenario, ClientOK(scenario, history, calls, pendingRpcs),
           NEW c \in calls, c.req \in Open, c.kind = "hash", HandleHash(c.req, c)
    PROVE  ClientOKNext
<1> DEFINE r    == c.req
           rest == calls \ {c}
           e    == Counted(pendingRpcs[r], c)
           best == Best(e.hashes)
<1>1. Getting(r, e, rest)
  BY CountedOK
<1> HIDE DEF e, rest
<1>2. Getting(r, [e EXCEPT !.hashVector = best], rest)
  BY <1>1, BestOK
<1> HIDE DEF best
<1>3. CASE Keep(r, e) /\ calls' = rest
  BY <1>1, <1>3, GetKeeps
<1>4. CASE Decide(r, [e EXCEPT !.hashVector = best], rest)
  BY <1>2, <1>4, DecideOK
<1>5. CASE Decide(r, e, rest)
  BY <1>1, <1>5, DecideOK
<1>6. CASE e.replica # << >> /\ Decide(r, [e EXCEPT !.replica = Front(@)], rest \cup {HashCall(r, e)})
  BY <1>1, <1>6, HashCallOK, DecideOK
<1> QED
  BY <1>3, <1>4, <1>5, <1>6 DEF HandleHash, e, rest, best

LEMMA ValueOK ==
    ASSUME scenario \in Scenario, ClientOK(scenario, history, calls, pendingRpcs),
           NEW c \in calls, c.req \in Open, c.kind = "value", HandleValue(c.req, c)
    PROVE  ClientOKNext
<1> DEFINE r    == c.req
           rest == calls \ {c}
<1>1. Getting(r, pendingRpcs[r], rest)
  BY EndingGet
<1>2. CASE Decide(r, pendingRpcs[r], rest)
  BY <1>1, <1>2, DecideOK
<1>3. CASE Tell(r, Told(TRUE, c.value)) /\ calls' = rest
  <2>1. ClientOK(scenario, history, rest, pendingRpcs)
    BY ClientDrops
  <2>2. scenario.requests[r].type # "put" /\ r \in DOMAIN pendingRpcs
    BY <1>1 DEF Getting, Open
  <2>3. ClientOK(scenario, [history EXCEPT !.told = With(history.told, r, Told(TRUE, c.value))], rest,
                 Restrict(pendingRpcs, DOMAIN pendingRpcs \ {r}))
    BY <2>1, <2>2, ClientTells
  <2> QED
    BY <1>3, <2>3 DEF Tell, Close, Open, ClientOKNext
<1> QED
  BY <1>2, <1>3 DEF HandleValue

LEMMA GetTimeoutOK ==
    ASSUME scenario \in Scenario, ClientOK(scenario, history, calls, pendingRpcs),
           NEW c \in calls, c.req \in Open, c.kind # "put", HandleGetTimeout(c.req, c)
    PROVE  ClientOKNext
<1> DEFINE r    == c.req
           e    == pendingRpcs[r]
           last == IF e.numResponses > 0 THEN [e EXCEPT !.hashVector = Best(e.hashes)] ELSE e
           rest == calls \ {c}
<1>1. Getting(r, e, rest)
  BY EndingGet
<1> HIDE DEF rest, e
<1>2. Getting(r, last, rest)
  BY <1>1, BestOK
<1> HIDE DEF last
<1>3. CASE Fail(r) /\ calls' = rest
  BY <1>1, <1>3, GetFails
<1>4. CASE CanAsk(e) /\ Keep(r, Popped(e)) /\ calls' = rest \cup {ValueCall(r, e)}
  BY <1>1, <1>4, ValueCallOK, GetKeeps
<1>5. CASE CanAsk(last) /\ Keep(r, Popped(last)) /\ calls' = rest \cup {ValueCall(r, last)}
  BY <1>2, <1>5, ValueCallOK, GetKeeps
<1>6. CASE e.replica # << >> /\ Keep(r, [e EXCEPT !.replica = Front(@)])
           /\ calls' = rest \cup {HashCall(r, e)}
  BY <1>1, <1>6, HashCallOK, GetKeeps
<1> QED
  BY <1>3, <1>4, <1>5, <1>6 DEF HandleGetTimeout, e, rest, last

\* The request of a call to a put waits for the answers.
LEMMA EndingPut ==
    ASSUME scenario \in Scenario, ClientOK(scenario, history, calls, pendingRpcs),
           NEW c \in calls, c.req \in Open, c.kind = "put"
    PROVE  /\ pendingRpcs[c.req].state = "PUT_SENT"
           /\ c.to \in history.asked[c.req]
           /\ c.answered => <<c.req, c.to>> \in history.handled
<1>1. RequestOK(scenario, history, Waiting(calls, c.req), c.req, pendingRpcs[c.req])
  BY DEF ClientOK, Open
<1>2. CallOK(scenario, history, c)
  BY DEF ClientOK, CallsOK
<1>3. c.req # 0
  BY EndingCall
<1> QED
  BY <1>1, <1>2, <1>3 DEF RequestOK, CallOK, PendingSet, States, Asking

\* One more answer is counted, of a node whose call is over.
LEMMA OneMoreDone ==
    ASSUME ClientOK(scenario, history, calls, pendingRpcs),
           NEW c \in calls, c.req \in Open, c.to \in history.asked[c.req],
           <<c.req, c.to>> \in history.handled
    PROVE  LET old == Done(history, Waiting(calls, c.req), c.req)
               new == Done(history, Waiting(calls \ {c}, c.req), c.req)
           IN  /\ IsFiniteSet(new) /\ Cardinality(old) \in Nat /\ Cardinality(new) \in Nat
               /\ Cardinality(new) = Cardinality(old) + 1
<1> DEFINE old == Done(history, Waiting(calls, c.req), c.req)
           new == Done(history, Waiting(calls \ {c}, c.req), c.req)
<1>1. Waiting(calls \ {c}, c.req) = Waiting(calls, c.req) \ {c.to} /\ c.to \in Waiting(calls, c.req)
  BY EndingCall
<1>2. new = old \cup {c.to} /\ c.to \notin old
  BY <1>1 DEF Done
<1>3. old \in SUBSET history.asked[c.req] /\ IsFiniteSet(history.asked[c.req])
  BY EndingCall DEF Done, ClientOK, HistoryOK
<1> HIDE DEF old, new
<1>4. IsFiniteSet(old)
  BY <1>3, FS_Subset
<1>5. IsFiniteSet(new) /\ Cardinality(new) = Cardinality(old) + 1
  BY <1>2, <1>4, FS_AddElement
<1> QED
  BY <1>4, <1>5, FS_CardinalityType DEF old, new

LEMMA PutResponseOK ==
    ASSUME scenario \in Scenario, ClientOK(scenario, history, calls, pendingRpcs),
           NEW c \in calls, c.req \in Open, c.kind = "put", c.answered, HandlePutResponse(c.req, c)
    PROVE  ClientOKNext
<1> DEFINE r    == c.req
           old  == pendingRpcs[r]
           k    == old.numResponses + 1
           e    == [old EXCEPT !.numResponses = k]
           rest == calls \ {c}
           W    == Waiting(rest, r)
           done == Done(history, W, r)
           answer == Told(TRUE, scenario.requests[r].value)
<1>1. /\ old.state = "PUT_SENT" /\ c.to \in history.asked[r] /\ <<r, c.to>> \in history.handled
  BY EndingPut
<1>2. RequestOK(scenario, history, Waiting(calls, r), r, old)
  BY DEF ClientOK, Open
<1>3. /\ r \in DOMAIN history.asked /\ scenario.requests[r].type = "put"
      /\ CallsOK(scenario, history, rest) /\ W \subseteq Waiting(calls, r)
      /\ \A q : Waiting(rest, q) \subseteq Waiting(calls, q)
  BY EndingCall
<1>4. /\ IsFiniteSet(done) /\ Cardinality(done) \in Nat
      /\ Cardinality(done) = Cardinality(Done(history, Waiting(calls, r), r)) + 1
      /\ Cardinality(Done(history, Waiting(calls, r), r)) \in Nat
  BY <1>1, OneMoreDone
<1>5. old \in PendingSet /\ k \in Nat /\ k <= Cardinality(done)
  <2>1. old \in PendingSet /\ old.numResponses \in Nat
    BY <1>2 DEF RequestOK, PendingSet
  <2>2. old.numResponses <= Cardinality(Done(history, Waiting(calls, r), r))
    BY <1>1, <1>2 DEF RequestOK
  <2> HIDE DEF done, old
  <2> QED
    BY <1>4, <2>1, <2>2
<1> HIDE DEF k
<1>6. /\ e \in PendingSet /\ e.numResponses = k /\ e.state = old.state /\ e.replica = old.replica
      /\ e.hashes = old.hashes /\ e.numSent = old.numSent /\ e.hashVector = old.hashVector
  <2> HIDE DEF old
  <2> QED BY <1>5 DEF PendingSet
<1> HIDE DEF e, done
<1>7. RequestOK(scenario, history, W, r, e)
  <2>1. NoNodeTwice(e, W)
    BY <1>2, <1>3, <1>6 DEF RequestOK, NoNodeTwice
  <2> QED
    BY <1>1, <1>2, <1>3, <1>5, <1>6, <2>1 DEF RequestOK, Asking, done
<1>8. CASE MostPut(e) /\ Tell(r, answer)
  <2>1. ClientOK(scenario, history, rest, pendingRpcs)
    BY ClientDrops
  <2> DEFINE handled == {n \in history.asked[r] : <<r, n>> \in history.handled}
  <2>2. done \in SUBSET handled /\ handled \in SUBSET history.asked[r]
    BY DEF done, Done
  <2>3. IsFiniteSet(history.asked[r])
    BY <1>3 DEF ClientOK, HistoryOK
  <2> HIDE DEF handled
  <2>4. IsFiniteSet(handled) /\ Cardinality(done) <= Cardinality(handled)
    BY <2>2, <2>3, FS_Subset
  <2>5. Cardinality(handled) \in Nat /\ Cardinality(history.asked[r]) \in Nat
    BY <2>3, <2>4, FS_CardinalityType
  <2>6. 2 * k > e.numSent /\ e.numSent \in Nat
    BY <1>6, <1>8 DEF MostPut, PendingSet
  <2>7. Cardinality(history.asked[r]) <= e.numSent
    BY <1>1, <1>2, <1>6 DEF RequestOK
  <2>8. 2 * Cardinality(handled) > Cardinality(history.asked[r])
    BY <1>4, <1>5, <2>4, <2>5, <2>6, <2>7
  <2>9. ClientOK(scenario, [history EXCEPT !.told = With(history.told, r, answer)], rest,
                 Restrict(pendingRpcs, DOMAIN pendingRpcs \ {r}))
    <3> HIDE DEF answer
    <3>1. r \in DOMAIN pendingRpcs
      BY DEF Open
    <3> QED BY <1>3, <2>1, <2>8, <3>1, ClientTells DEF handled
  <2>10. calls' = rest
    BY DEF HandlePutResponse
  <2> QED
    BY <1>8, <2>9, <2>10 DEF Tell, Close, Open, ClientOKNext
<1>9. CASE Keep(r, e)
  <2>1. ClientOK(scenario, history, rest, [pendingRpcs EXCEPT ![r] = e])
    BY <1>3, <1>7, ClientKeeps DEF Open
  <2>2. calls' = rest
    BY DEF HandlePutResponse
  <2> QED
    BY <1>9, <2>1, <2>2 DEF Keep, ClientOKNext
<1>10. e = [pendingRpcs[r] EXCEPT !.numResponses = @ + 1]
  BY DEF e, k
<1> QED
  BY <1>8, <1>9, <1>10 DEF HandlePutResponse

LEMMA PutTimeoutOK ==
    ASSUME scenario \in Scenario, ClientOK(scenario, history, calls, pendingRpcs),
           NEW c \in calls, c.req \in Open, c.kind = "put", HandlePutTimeout(c.req, c)
    PROVE  ClientOKNext
<1> DEFINE r    == c.req
           old  == pendingRpcs[r]
           k    == old.numFailed + 1
           e    == [old EXCEPT !.numFailed = k]
           rest == calls \ {c}
           W    == Waiting(rest, r)
<1>1. ClientOK(scenario, history, rest, pendingRpcs) /\ calls' = rest
  BY ClientDrops DEF HandlePutTimeout
<1>2. RequestOK(scenario, history, W, r, old) /\ old.state = "PUT_SENT"
  BY <1>1, EndingPut DEF ClientOK, Open
<1>3. old \in PendingSet /\ k \in Nat
  BY <1>2 DEF RequestOK, PendingSet
<1> HIDE DEF k
<1>4. /\ e \in PendingSet /\ e.numResponses = old.numResponses /\ e.state = old.state /\ e.replica = old.replica
      /\ e.hashes = old.hashes /\ e.numSent = old.numSent /\ e.hashVector = old.hashVector
  <2> HIDE DEF old
  <2> QED BY <1>3 DEF PendingSet
<1> HIDE DEF e
<1>5. RequestOK(scenario, history, W, r, e)
  BY <1>2, <1>4 DEF RequestOK, NoNodeTwice, Asking
<1>6. CASE Fail(r)
  <2> DEFINE answer == Told(FALSE, NoValue)
  <2>1. ~answer.success
    BY DEF Told
  <2> HIDE DEF answer
  <2>2. ClientOK(scenario, [history EXCEPT !.told = With(history.told, r, answer)], rest,
                 Restrict(pendingRpcs, DOMAIN pendingRpcs \ {r}))
    BY <1>1, <2>1, ClientTells DEF Open
  <2> QED
    BY <1>1, <1>6, <2>2 DEF Fail, Tell, Close, Open, ClientOKNext, answer
<1>7. CASE Keep(r, e)
  <2>1. r \in DOMAIN pendingRpcs /\ CallsOK(scenario, history, rest)
    BY <1>1 DEF Open, ClientOK
  <2>2. ClientOK(scenario, history, rest, [pendingRpcs EXCEPT ![r] = e])
    BY <1>1, <1>5, <2>1, ClientKeeps
  <2> QED
    BY <1>1, <1>7, <2>2 DEF Keep, ClientOKNext
<1>8. e = [pendingRpcs[r] EXCEPT !.numFailed = @ + 1]
  BY DEF e, k
<1> QED
  BY <1>6, <1>7, <1>8 DEF HandlePutTimeout

LEMMA TimesOutOK ==
    ASSUME scenario \in Scenario, ClientOK(scenario, history, calls, pendingRpcs),
           NEW c \in calls, TimesOut(c)
    PROVE  ClientOKNext
<1>1. CASE c.req \notin Open
  <2>1. calls' = calls \ {c} /\ pendingRpcs' = pendingRpcs /\ history' = history
    BY <1>1 DEF TimesOut
  <2>2. calls \ {c} \subseteq calls
    OBVIOUS
  <2> QED
    BY <2>1, <2>2, ClientDrops DEF ClientOKNext
<1>2. CASE c.req \in Open /\ c.kind = "put"
  BY <1>2, PutTimeoutOK DEF TimesOut
<1>3. CASE c.req \in Open /\ c.kind # "put"
  BY <1>3, GetTimeoutOK DEF TimesOut
<1> QED
  BY <1>1, <1>2, <1>3

LEMMA ResponseOK ==
    ASSUME scenario \in Scenario, ClientOK(scenario, history, calls, pendingRpcs),
           NEW c \in calls, HandleRpcResponse(c)
    PROVE  ClientOKNext
<1>1. CASE c.req \notin Open
  <2>1. calls' = calls \ {c} /\ pendingRpcs' = pendingRpcs /\ history' = history
    BY <1>1 DEF HandleRpcResponse
  <2>2. calls \ {c} \subseteq calls
    OBVIOUS
  <2> QED
    BY <2>1, <2>2, ClientDrops DEF ClientOKNext
<1>2. CASE c.req \in Open
  <2>1. c.kind \in {"put", "hash", "value"} /\ c.answered
    BY <1>2, EndingCall DEF CallSet, HandleRpcResponse
  <2>2. CASE c.kind = "put"
    BY <1>2, <2>1, <2>2, PutResponseOK DEF HandleRpcResponse
  <2>3. CASE c.kind = "hash"
    BY <1>2, <2>3, HashOK DEF HandleRpcResponse
  <2>4. CASE c.kind = "value"
    BY <1>2, <2>4, ValueOK DEF HandleRpcResponse
  <2> QED
    BY <2>1, <2>2, <2>3, <2>4
<1> QED
  BY <1>1, <1>2

(***************************************************************************)
(* A request begins, and its lookup ends                                   *)
(***************************************************************************)
LEMMA PendingIsFresh ==
    /\ Pending \in PendingSet /\ Pending.state = "LOOKUP_STARTED" /\ Pending.numSent = 0
    /\ Pending.replica = << >> /\ DOMAIN Pending.hashes = {}
    /\ Pending.hashVector = NoHash
    /\ \A W : NoNodeTwice(Pending, W)
<1>1. << >> \in Seq(Node) /\ DOMAIN << >> = {}
  BY EmptySeq
<1> DEFINE none == [h \in {} |-> << >>]
<1>2. none \in HashMaps
  <2>1. none \in [{} -> Seq(Node)]
    OBVIOUS
  <2> QED BY <2>1 DEF HashMaps
<1>3. DOMAIN none = {}
  OBVIOUS
<1> HIDE DEF none
<1>4. Pending = [state |-> "LOOKUP_STARTED", replica |-> << >>, hashVector |-> NoHash,
                 hashes |-> none, numSent |-> 0,
                 numAvailableReplica |-> 0, numFailed |-> 0, numResponses |-> 0]
  BY DEF Pending, none
<1>5. /\ Pending \in PendingSet /\ Pending.state = "LOOKUP_STARTED" /\ Pending.numSent = 0
      /\ Pending.replica = << >> /\ Pending.hashes = none /\ Pending.hashVector = NoHash
  BY <1>1, <1>2, <1>4 DEF PendingSet, States
<1>6. IsInjective(<< >>) /\ Range(<< >>) = {}
  BY <1>1 DEF IsInjective, Range
<1> QED
  BY <1>3, <1>5, <1>6 DEF NoNodeTwice

LEMMA Begins ==
    ASSUME scenario \in Scenario, ClientOK(scenario, history, calls, pendingRpcs), HandleCAPIRequest
    PROVE  ClientOKNext
<1> DEFINE r    == Cardinality(DOMAIN history.began) + 1
           rpcs == With(pendingRpcs, r, Pending)
           G    == [history EXCEPT !.began = With(history.began, r, DOMAIN history.told)]
<1>1. PICK k \in 0 .. Len(scenario.requests) : DOMAIN history.began = 1 .. k
  BY DEF ClientOK, HistoryOK
<1>2. Len(scenario.requests) \in Nat
  BY LenProperties DEF Scenario
<1>3. k \in Nat /\ Cardinality(DOMAIN history.began) = k
  BY <1>1, <1>2, FS_Interval
<1>4. r = k + 1 /\ r \notin DOMAIN history.began /\ DOMAIN history.began \cup {r} = 1 .. r
      /\ r \in 0 .. Len(scenario.requests)
  BY <1>1, <1>2, <1>3 DEF HandleCAPIRequest
<1>5. pendingRpcs' = rpcs /\ history' = G /\ calls' = calls
  BY DEF HandleCAPIRequest
<1> HIDE DEF r
<1>6. /\ IsHistory(G) /\ G.began = With(history.began, r, DOMAIN history.told)
      /\ G.told = history.told /\ G.asked = history.asked /\ G.handled = history.handled
  <2>1. IsHistory(history)
    BY DEF ClientOK, HistoryOK
  <2>2. SameBut(history, G, history.told, With(history.began, r, DOMAIN history.told), history.asked, history.handled)
    BY <2>1, HistoryFields
  <2> QED BY <2>2 DEF SameBut
<1> HIDE DEF G
<1>7. DOMAIN rpcs = Open \cup {r} /\ rpcs[r] = Pending /\ \A q \in Open : q # r => rpcs[q] = pendingRpcs[q]
  BY DEF With, Open
<1> HIDE DEF rpcs
<1>8. DOMAIN G.began = DOMAIN history.began \cup {r}
  BY <1>6 DEF With
<1>9. r \notin Open /\ r \notin DOMAIN history.told /\ r \notin DOMAIN history.asked
  BY <1>4 DEF ClientOK, HistoryOK, Open
<1>10. HistoryOK(scenario, G, DOMAIN rpcs)
  <2>1. \E j \in 0 .. Len(scenario.requests) : DOMAIN G.began = 1 .. j
    BY <1>4, <1>8
  <2> QED
    BY <1>6, <1>7, <1>8, <1>9, <2>1 DEF ClientOK, HistoryOK, Open
<1>11. Grows(history, G) /\ SameRequests(scenario, scenario)
  BY <1>6 DEF Grows, SameRequests
<1>12. \A q \in DOMAIN history.asked : IsFiniteSet(history.asked[q])
  BY DEF ClientOK, HistoryOK
<1>13. CallsOK(scenario, G, calls) /\ Reported(scenario, G)
  BY <1>6, <1>11, <1>12, CallsStay, ReportedStays DEF ClientOK
<1>14. ASSUME NEW q \in DOMAIN rpcs
       PROVE  RequestOK(scenario, G, Waiting(calls, q), q, rpcs[q])
  <2>1. CASE q = r
    <3>1. NumReplica \in Nat
      BY DEF NumReplica, Scenario
    <3> QED
      BY <1>6, <1>7, <1>9, <2>1, <3>1, PendingIsFresh DEF RequestOK, Asking, NumReplica
  <2>2. CASE q # r
    <3>1. q \in Open /\ rpcs[q] = pendingRpcs[q] /\ RequestOK(scenario, history, Waiting(calls, q), q, pendingRpcs[q])
      BY <1>7, <2>2 DEF ClientOK, Open
    <3> QED
      BY <1>6, <1>11, <1>12, <3>1, RequestStays
  <2> QED BY <2>1, <2>2
<1> QED
  BY <1>5, <1>10, <1>13, <1>14 DEF ClientOK, ClientOKNext

\* The siblings are asked: the calls and the entry of request r are new.
LEMMA AsksSiblings ==
    ASSUME scenario \in Scenario, ClientOK(scenario, history, calls, pendingRpcs),
           NEW r \in Open, pendingRpcs[r].state = "LOOKUP_STARTED",
           NEW nodes \in SUBSET Node, IsFiniteSet(nodes), NEW asked \in SUBSET nodes,
           NEW kind \in {"put", "hash"}, NEW value \in Stored, NEW e,
           kind = "put" <=> scenario.requests[r].type = "put",
           e \in PendingSet, e.numSent <= scenario.replicas, NoNodeTwice(e, asked),
           \/ /\ kind = "put" /\ e.state = "PUT_SENT" /\ e.replica = << >> /\ DOMAIN e.hashes = {}
              /\ Cardinality(nodes) <= e.numSent /\ e.numResponses = 0
           \/ /\ kind = "hash" /\ e.state = "GET_HASH_SENT" /\ e.hashVector = NoHash
              /\ scenario.requests[r].type = "get"
    PROVE  ClientOK(scenario, [history EXCEPT !.asked = With(history.asked, r, nodes)],
                    calls \cup {RequestCall(r, kind, n, value) : n \in asked},
                    [pendingRpcs EXCEPT ![r] = e])
<1> DEFINE G    == [history EXCEPT !.asked = With(history.asked, r, nodes)]
           D    == calls \cup {RequestCall(r, kind, n, value) : n \in asked}
           rpcs == [pendingRpcs EXCEPT ![r] = e]
<1>1. /\ IsHistory(G) /\ G.asked = With(history.asked, r, nodes)
      /\ G.told = history.told /\ G.began = history.began /\ G.handled = history.handled
  <2>1. IsHistory(history)
    BY DEF ClientOK, HistoryOK
  <2>2. SameBut(history, G, history.told, history.began, With(history.asked, r, nodes), history.handled)
    BY <2>1, HistoryFields
  <2> QED BY <2>2 DEF SameBut
<1> HIDE DEF G
<1>2. r \notin DOMAIN history.asked
  BY DEF ClientOK, RequestOK, Open
<1>3. /\ DOMAIN G.asked = DOMAIN history.asked \cup {r} /\ G.asked[r] = nodes
      /\ \A q \in DOMAIN history.asked : q # r => G.asked[q] = history.asked[q]
  BY <1>1 DEF With
<1>4. Grows(history, G) /\ SameRequests(scenario, scenario)
  BY <1>1, <1>2, <1>3 DEF Grows, SameRequests
<1>5. \A q \in DOMAIN history.asked : IsFiniteSet(history.asked[q])
  BY DEF ClientOK, HistoryOK
<1>6. /\ r \in DOMAIN history.began
      /\ r \in Nat \ {0}
  <2>1. PICK k \in 0 .. Len(scenario.requests) : DOMAIN history.began = 1 .. k
    BY DEF ClientOK, HistoryOK
  <2>2. r \in 1 .. k
    BY <2>1 DEF ClientOK, HistoryOK, Open
  <2> QED
    BY <2>1, <2>2
<1>7. \A c \in calls : c.req # r
  BY <1>2, <1>6 DEF ClientOK, CallsOK, CallOK
<1>8. ASSUME NEW n \in asked
      PROVE  LET c == RequestCall(r, kind, n, value)
             IN  c.req = r /\ c.to = n /\ CallOK(scenario, G, c)
  <2> DEFINE c == RequestCall(r, kind, n, value)
  <2>1. c \in CallSet /\ c.req = r /\ c.to = n /\ c.kind = kind /\ c.answered = FALSE
    BY <1>6, DHTAssumption DEF RequestCall, Call, CallSet
  <2> HIDE DEF c
  <2>2. CallOK(scenario, G, c)
    BY <1>3, <1>6, <2>1 DEF CallOK
  <2> QED BY <2>1, <2>2 DEF c
<1>9. CallsOK(scenario, G, calls)
  BY <1>4, CallsStay DEF ClientOK
<1>10. CallsOK(scenario, G, D)
  BY <1>7, <1>8, <1>9 DEF CallsOK, OneCall
<1>11. Waiting(D, r) = asked /\ \A q : q # r => Waiting(D, q) = Waiting(calls, q)
  BY <1>7, <1>8 DEF Waiting
<1>12. DOMAIN rpcs = Open /\ rpcs[r] = e /\ \A q \in Open : q # r => rpcs[q] = pendingRpcs[q]
  BY DEF Open
<1> HIDE DEF D, rpcs
<1>13. HistoryOK(scenario, G, DOMAIN rpcs)
  BY <1>1, <1>2, <1>3, <1>6, <1>12 DEF ClientOK, HistoryOK, Open
<1>14. ASSUME NEW q \in DOMAIN rpcs
       PROVE  RequestOK(scenario, G, Waiting(D, q), q, rpcs[q])
  <2>1. CASE q = r
    <3>1. IsFiniteSet(Done(G, asked, r)) /\ Cardinality(Done(G, asked, r)) \in Nat
      <4>1. Done(G, asked, r) \in SUBSET nodes
        BY <1>3 DEF Done
      <4> QED BY <4>1, FS_Subset, FS_CardinalityType
    <3> QED
      BY <1>3, <1>11, <1>12, <2>1, <3>1 DEF RequestOK, Asking
  <2>2. CASE q # r
    <3>1. q \in Open /\ rpcs[q] = pendingRpcs[q] /\ RequestOK(scenario, history, Waiting(calls, q), q, pendingRpcs[q])
      BY <1>12, <2>2 DEF ClientOK, Open
    <3>2. q \in DOMAIN G.asked => q \in DOMAIN history.asked
      BY <1>3, <2>2
    <3>3. RequestOK(scenario, G, Waiting(calls, q), q, pendingRpcs[q])
      BY <1>4, <1>5, <3>1, <3>2, RequestStays
    <3> QED
      BY <1>11, <2>2, <3>1, <3>3
  <2> QED BY <2>1, <2>2
<1>15. Reported(scenario, G)
  BY <1>1, <1>4, <1>5, ReportedStays DEF ClientOK
<1> QED
  BY <1>10, <1>13, <1>14, <1>15 DEF ClientOK, G, D, rpcs

\* What is known of the siblings that a lookup returns.
LEMMA LookedUp ==
    ASSUME scenario \in Scenario, MembersOK
    PROVE  LET s == Siblings(NumReplica)
           IN  /\ s \in Seq(Node) /\ IsInjective(s) /\ Len(s) \in 1 .. NumReplica
               /\ Range(s) \in SUBSET members /\ members \in SUBSET Node
               /\ IsFiniteSet(Range(s)) /\ Cardinality(Range(s)) <= Len(s)
               /\ Last(s) \in members
<1> DEFINE s == Siblings(NumReplica)
<1>1. members \in SUBSET Nat /\ IsFiniteSet(members) /\ members # {}
  BY DHTAssumption DEF MembersOK
<1>2. NumReplica \in Nat \ {0}
  BY DEF NumReplica, Scenario
<1>3. /\ s \in Seq(members) /\ IsInjective(s) /\ Len(s) \in 1 .. NumReplica
      /\ IsFiniteSet(Range(s)) /\ Cardinality(Range(s)) <= Len(s)
  BY <1>1, <1>2, SiblingsAreMembers
<1> HIDE DEF s
<1>4. s \in Seq(Node)
  BY <1>3, SeqMonotonic DEF MembersOK
<1>5. Range(s) \in SUBSET members
  BY <1>3, LenProperties, ElementOfSeq DEF Range
<1>6. Last(s) \in members
  BY <1>2, <1>3, ElementOfSeq DEF Last
<1> QED
  BY <1>3, <1>4, <1>5, <1>6 DEF s, MembersOK

LEMMA BoundIsUsed ==
    ASSUME NEW S \in Scenario, NEW T,
           \/ S.invalid > 0 /\ T = [S EXCEPT !.invalid = @ - 1]
           \/ S.losses > 0 /\ T = [S EXCEPT !.losses = @ - 1]
           \/ S.joins > 0 /\ T = [S EXCEPT !.joins = @ - 1]
           \/ S.leaves > 0 /\ T = [S EXCEPT !.leaves = @ - 1]
           \/ S.expiries > 0 /\ T = [S EXCEPT !.expiries = @ - 1]
    PROVE  SameRequests(S, T) /\ T \in Scenario
<1>1. CASE S.invalid > 0 /\ T = [S EXCEPT !.invalid = @ - 1]
  <2>1. S.invalid - 1 \in Nat
    BY <1>1 DEF Scenario
  <2>2. T = [S EXCEPT !.invalid = S.invalid - 1]
    BY <1>1
  <2> QED BY <2>1, <2>2, ZenonT(30) DEF SameRequests, Scenario
<1>2. CASE S.losses > 0 /\ T = [S EXCEPT !.losses = @ - 1]
  <2>1. S.losses - 1 \in Nat
    BY <1>2 DEF Scenario
  <2>2. T = [S EXCEPT !.losses = S.losses - 1]
    BY <1>2
  <2> QED BY <2>1, <2>2, ZenonT(30) DEF SameRequests, Scenario
<1>3. CASE S.joins > 0 /\ T = [S EXCEPT !.joins = @ - 1]
  <2>1. S.joins - 1 \in Nat
    BY <1>3 DEF Scenario
  <2>2. T = [S EXCEPT !.joins = S.joins - 1]
    BY <1>3
  <2> QED BY <2>1, <2>2, ZenonT(30) DEF SameRequests, Scenario
<1>4. CASE S.leaves > 0 /\ T = [S EXCEPT !.leaves = @ - 1]
  <2>1. S.leaves - 1 \in Nat
    BY <1>4 DEF Scenario
  <2>2. T = [S EXCEPT !.leaves = S.leaves - 1]
    BY <1>4
  <2> QED BY <2>1, <2>2, ZenonT(30) DEF SameRequests, Scenario
<1>5. CASE S.expiries > 0 /\ T = [S EXCEPT !.expiries = @ - 1]
  <2>1. S.expiries - 1 \in Nat
    BY <1>5 DEF Scenario
  <2>2. T = [S EXCEPT !.expiries = S.expiries - 1]
    BY <1>5
  <2> QED BY <2>1, <2>2, ZenonT(30) DEF SameRequests, Scenario
<1> QED
  BY <1>1, <1>2, <1>3, <1>4, <1>5

LEMMA LookupOK ==
    ASSUME scenario \in Scenario, MembersOK, ClientOK(scenario, history, calls, pendingRpcs),
           NEW r \in Open, HandleLookupResponse(r)
    PROVE  ClientOKNext /\ SameRequests(scenario, scenario') /\ scenario' \in Scenario
<1> DEFINE s == Siblings(NumReplica)
           nodes == Range(s)
           old == pendingRpcs[r]
<1>1. /\ s \in Seq(Node) /\ IsInjective(s) /\ Len(s) \in 1 .. NumReplica
      /\ nodes \in SUBSET Node /\ IsFiniteSet(nodes) /\ Cardinality(nodes) <= Len(s)
  BY LookedUp
<1>2. /\ old.state = "LOOKUP_STARTED" /\ old = Pending
  BY DEF HandleLookupResponse, ClientOK, RequestOK, Open
<1>3. scenario.requests[r] \in Request
  <2>1. PICK k \in 0 .. Len(scenario.requests) : DOMAIN history.began = 1 .. k
    BY DEF ClientOK, HistoryOK
  <2>2. r \in 1 .. k /\ scenario.requests \in Seq(Request)
    BY <2>1 DEF ClientOK, HistoryOK, Open, Scenario
  <2>3. r \in 1 .. Len(scenario.requests)
    BY <2>1, <2>2, LenProperties
  <2> QED
    BY <2>2, <2>3, ElementOfSeq
<1>4. /\ scenario.requests[r].type \in {"put", "get"} /\ scenario.requests[r].value \in Stored
  BY <1>3 DEF Request, Stored
<1>5. CASE scenario.invalid > 0 /\ scenario' = [scenario EXCEPT !.invalid = @ - 1] /\ Fail(r) /\ UNCHANGED calls
  <2> DEFINE answer == Told(FALSE, NoValue)
  <2>1. ~answer.success /\ r \in DOMAIN pendingRpcs
    BY DEF Told, Open
  <2> HIDE DEF answer
  <2>2. ClientOK(scenario, [history EXCEPT !.told = With(history.told, r, answer)], calls,
                 Restrict(pendingRpcs, DOMAIN pendingRpcs \ {r}))
    BY <2>1, ClientTells
  <2>3. ClientOKNext
    BY <1>5, <2>2 DEF Fail, Tell, Close, Open, ClientOKNext, answer
  <2>4. SameRequests(scenario, scenario') /\ scenario' \in Scenario
    BY <1>5, BoundIsUsed
  <2> QED
    BY <2>3, <2>4
<1>6. ASSUME scenario.requests[r].type = "put", PutToSiblings(r, pendingRpcs[r], s),
             history' = [history EXCEPT !.asked = With(history.asked, r, nodes)]
      PROVE  ClientOKNext
  <2> DEFINE e == [Pending EXCEPT !.state = "PUT_SENT", !.numSent = Len(s)]
             value == scenario.requests[r].value
  <2>1. Len(s) \in Nat /\ Len(s) <= scenario.replicas
    BY <1>1 DEF NumReplica, Scenario
  <2>2. /\ e \in PendingSet /\ e.state = "PUT_SENT" /\ e.numSent = Len(s) /\ e.replica = << >>
        /\ e.hashes = Pending.hashes /\ e.numResponses = 0
    <3>1. Pending.numResponses = 0
      BY DEF Pending
    <3> HIDE DEF s
    <3> QED BY <2>1, <3>1, PendingIsFresh DEF PendingSet, States
  <2>3. /\ calls' = calls \cup {RequestCall(r, "put", n, value) : n \in nodes}
        /\ pendingRpcs' = [pendingRpcs EXCEPT ![r] = e]
    BY <1>2, <1>6 DEF PutToSiblings
  <2> HIDE DEF e, s
  <2>4. NoNodeTwice(e, nodes) /\ DOMAIN e.hashes = {}
    BY <2>2, PendingIsFresh DEF NoNodeTwice
  <2>5. ClientOK(scenario, [history EXCEPT !.asked = With(history.asked, r, nodes)],
                 calls \cup {RequestCall(r, "put", n, value) : n \in nodes}, [pendingRpcs EXCEPT ![r] = e])
    <3>1. nodes \in SUBSET nodes
      OBVIOUS
    <3> HIDE DEF nodes
    <3> QED BY <1>1, <1>2, <1>4, <1>6, <2>1, <2>2, <2>4, <3>1, AsksSiblings, ZenonT(120)
  <2> QED
    BY <1>6, <2>3, <2>5 DEF ClientOKNext
<1>7. ASSUME scenario.requests[r].type # "put", GetHashes(r, pendingRpcs[r], s),
             history' = [history EXCEPT !.asked = With(history.asked, r, nodes)]
      PROVE  ClientOKNext
  <2> DEFINE k     == Min({NumGetRequests, Len(s)})
             first == SubSeq(s, 1, k)
             rest  == SubSeq(s, k + 1, Len(s))
             e     == [Pending EXCEPT !.state = "GET_HASH_SENT", !.numSent = k, !.replica = rest,
                                      !.numAvailableReplica = Len(s)]
  <2>1. k \in 0 .. Len(s) /\ k \in Nat /\ k <= scenario.replicas /\ Len(s) \in Nat
    <3>1. NumGetRequests \in Nat /\ Len(s) \in Nat /\ Len(s) <= scenario.replicas /\ scenario.replicas \in Nat
      BY <1>1 DEF NumReplica, NumGetRequests, Scenario
    <3>2. k \in {NumGetRequests, Len(s)} /\ k <= Len(s)
      BY <3>1, MinIsMember
    <3> HIDE DEF k, s
    <3> QED BY <3>1, <3>2
  <2> HIDE DEF k
  <2>2. /\ first \in Seq(Node) /\ Len(first) = k
        /\ rest \in Seq(Node) /\ IsInjective(rest)
        /\ Range(first) \subseteq nodes /\ Range(rest) \subseteq nodes
        /\ Range(first) \cap Range(rest) = {}
    BY <1>1, <2>1, PartsOfInjective
  <2>3. /\ calls' = calls \cup {RequestCall(r, "hash", n, NoValue) : n \in Range(first)}
        /\ pendingRpcs' = [pendingRpcs EXCEPT ![r] = e]
    BY <1>2, <1>7, <2>2 DEF GetHashes, k
  <2> HIDE DEF first, rest
  <2>4. /\ e \in PendingSet /\ e.state = "GET_HASH_SENT" /\ e.numSent = k /\ e.replica = rest
        /\ e.hashes = Pending.hashes /\ e.hashVector = NoHash
    <3> HIDE DEF s
    <3> QED BY <2>1, <2>2, PendingIsFresh DEF PendingSet, States
  <2> HIDE DEF e
  <2>5. NoNodeTwice(e, Range(first))
    BY <2>2, <2>4, PendingIsFresh DEF NoNodeTwice
  <2>6. Range(first) \in SUBSET nodes /\ scenario.requests[r].type = "get" /\ NoValue \in Stored
    BY <1>4, <1>7, <2>2 DEF Stored
  <2>7. ClientOK(scenario, [history EXCEPT !.asked = With(history.asked, r, nodes)],
                 calls \cup {RequestCall(r, "hash", n, NoValue) : n \in Range(first)},
                 [pendingRpcs EXCEPT ![r] = e])
    <3> HIDE DEF nodes, s
    <3> QED BY <1>1, <1>2, <2>1, <2>4, <2>5, <2>6, AsksSiblings
  <2> QED
    BY <1>7, <2>3, <2>7 DEF ClientOKNext
<1>8. scenario' = scenario => SameRequests(scenario, scenario') /\ scenario' \in Scenario
  BY DEF SameRequests
<1> QED
  BY <1>5, <1>6, <1>7, <1>8 DEF HandleLookupResponse

(***************************************************************************)
(* The nodes that are called                                               *)
(***************************************************************************)
\* There is a value with most votes, and of those a first one.
LEMMA MajorityOK ==
    ASSUME NEW votes, DOMAIN votes \in SUBSET Value, IsFiniteSet(DOMAIN votes), DOMAIN votes # {},
           \A v \in DOMAIN votes : IsFiniteSet(votes[v])
    PROVE  Majority(votes) \in DOMAIN votes
<1> DEFINE V == DOMAIN votes
           N(v) == Cardinality(votes[v])
           Counts == {N(v) : v \in V}
<1>1. V \in SUBSET Nat
  <2>1. Value \subseteq Nat
    BY DHTAssumption
  <2> QED BY <2>1
<1>2. \A v \in V : N(v) \in Nat
  BY FS_CardinalityType
<1> HIDE DEF V, N
<1>3. Counts \in SUBSET Nat /\ Counts # {}
  BY <1>2 DEF V
<1>4. IsFiniteSet(Counts)
  <2> DEFINE f == [v \in V |-> N(v)]
  <2>1. f \in Surjection(V, Counts)
    BY DEF Surjection
  <2>2. IsFiniteSet(V)
    BY DEF V
  <2> HIDE DEF f, Counts
  <2> QED BY <2>1, <2>2, FS_Surjection
<1>5. PICK k \in Counts : \A j \in Counts : j <= k
  <2> HIDE DEF Counts
  <2> QED BY <1>3, <1>4, Greatest
<1> DEFINE Most == {v \in V : N(v) = k}
<1>6. Most \in SUBSET Nat /\ Most # {}
  BY <1>1, <1>5
<1>7. PICK v \in Most : \A w \in Most : v <= w
  <2> HIDE DEF Most
  <2> QED BY <1>6, Least
<1>8. \A w \in V : N(w) < N(v) \/ (N(w) = N(v) /\ v <= w)
  <2> SUFFICES ASSUME NEW w \in V, ~(N(w) < N(v))
               PROVE  N(w) = N(v) /\ v <= w
    OBVIOUS
  <2>1. N(w) <= k /\ N(v) = k /\ N(w) \in Nat /\ k \in Nat
    BY <1>2, <1>3, <1>5, <1>7
  <2>2. N(w) = k
    BY <2>1
  <2> QED BY <1>7, <2>1, <2>2
<1>9. v \in V
  BY <1>7
<1> QED
  BY <1>8, <1>9 DEF Majority, V, N

LEMMA VoteFields ==
    ASSUME NEW f, f = [v \in DOMAIN f |-> f[v]], DOMAIN f \in SUBSET Value, IsFiniteSet(DOMAIN f),
           \A v \in DOMAIN f : f[v] \in SUBSET Node /\ IsFiniteSet(f[v])
    PROVE  f \in VoteMaps
<1>1. f \in [DOMAIN f -> {X \in SUBSET Node : IsFiniteSet(X)}]
  OBVIOUS
<1> QED
  BY <1>1 DEF VoteMaps

LEMMA VotesOfEntry ==
    ASSUME NEW e \in EntrySet
    PROVE  /\ DOMAIN e.votes \in SUBSET Value /\ IsFiniteSet(DOMAIN e.votes)
           /\ \A v \in DOMAIN e.votes : e.votes[v] \in SUBSET Node /\ IsFiniteSet(e.votes[v])
<1>1. e.votes \in VoteMaps
  BY DEF EntrySet
<1>2. PICK V \in SUBSET Value : IsFiniteSet(V) /\ e.votes \in [V -> {X \in SUBSET Node : IsFiniteSet(X)}]
  BY <1>1 DEF VoteMaps
<1> QED
  BY <1>2

LEMMA EntryOK ==
    ASSUME NEW value \in Value, NEW responsible \in BOOLEAN
    PROVE  Entry(value, responsible) \in EntrySet /\ NoVotes \in VoteMaps
<1>1. NoVotes = [v \in DOMAIN NoVotes |-> NoVotes[v]] /\ DOMAIN NoVotes = {}
  BY DEF NoVotes
<1> HIDE DEF NoVotes
<1>2. NoVotes \in VoteMaps
  BY <1>1, VoteFields, FS_EmptySet
<1> QED
  BY <1>2 DEF Entry, EntrySet

LEMMA EntryIsNotNothing == \A e \in EntrySet : e # Nothing /\ e.value \in Value /\ e.value # Nothing.value
BY StoredAreNumbers DEF EntrySet, Nothing

LEMMA VoteOK ==
    ASSUME DataOK(dataMap, members), NEW n \in Node, NEW c, c.value \in Value, c.src \in Node
    PROVE  Vote(n, c) \in EntrySet
<1> DEFINE e     == IF Stores(n) THEN dataMap[n] ELSE Entry(c.value, IsSiblingFor(n, NumReplica))
           was   == IF c.value \in DOMAIN e.votes THEN e.votes[c.value] ELSE {}
           some  == was \cup {c.src}
           votes == With(e.votes, c.value, some)
           v     == Majority(votes)
           left  == IF Cardinality(votes[v]) > NumReplica THEN NoVotes ELSE votes
<1>1. e \in EntrySet
  <2>1. CASE Stores(n)
    BY <2>1 DEF DataOK, Stores
  <2>2. CASE ~Stores(n)
    <3>1. IsSiblingFor(n, NumReplica) \in BOOLEAN
      BY DEF IsSiblingFor
    <3> HIDE DEF IsSiblingFor
    <3> QED BY <2>2, <3>1, EntryOK
  <2> QED BY <2>1, <2>2
<1> HIDE DEF e
<1>2. was \in SUBSET Node /\ IsFiniteSet(was)
  BY <1>1, VotesOfEntry, FS_EmptySet
<1> HIDE DEF was
<1>3. some \in SUBSET Node /\ IsFiniteSet(some)
  BY <1>2, FS_AddElement
<1> HIDE DEF some
<1>4. /\ DOMAIN votes = DOMAIN e.votes \cup {c.value} /\ votes[c.value] = some
      /\ \A x \in DOMAIN e.votes : x # c.value => votes[x] = e.votes[x]
      /\ votes = [x \in DOMAIN votes |-> votes[x]]
  BY DEF With
<1> HIDE DEF votes
<1>5. /\ DOMAIN votes \in SUBSET Value /\ IsFiniteSet(DOMAIN votes) /\ DOMAIN votes # {}
      /\ \A x \in DOMAIN votes : votes[x] \in SUBSET Node /\ IsFiniteSet(votes[x])
  <2>1. /\ DOMAIN e.votes \in SUBSET Value /\ IsFiniteSet(DOMAIN e.votes)
        /\ \A x \in DOMAIN e.votes : e.votes[x] \in SUBSET Node /\ IsFiniteSet(e.votes[x])
    BY <1>1, VotesOfEntry
  <2>2. IsFiniteSet(DOMAIN e.votes \cup {c.value})
    BY <2>1, FS_AddElement
  <2>3. ASSUME NEW x \in DOMAIN votes
        PROVE  votes[x] \in SUBSET Node /\ IsFiniteSet(votes[x])
    BY <1>3, <1>4, <2>1
  <2> QED
    BY <1>4, <2>1, <2>2, <2>3
<1>6. votes \in VoteMaps
  BY <1>4, <1>5, VoteFields
<1>7. v \in Value
  BY <1>5, MajorityOK
<1> HIDE DEF v
<1>8. left \in VoteMaps
  BY <1>6, <1>7, EntryOK
<1> HIDE DEF left
<1>9. [value |-> v, responsible |-> TRUE, votes |-> left] \in EntrySet
  BY <1>7, <1>8 DEF EntrySet
<1> QED
  BY <1>9 DEF Vote, left, v, votes, some, was, e

LEMMA StoreOK ==
    ASSUME NEW n, NEW c, c.value \in Stored
    PROVE  Store(n, c) \in EntrySet \cup {Nothing}
<1>1. Responsible(n) \in BOOLEAN
  BY DEF Responsible, IsSiblingFor
<1> HIDE DEF Responsible
<1> QED
  BY <1>1, EntryOK DEF Store, Stored

\* What a member stores changes.
LEMMA DataStays ==
    ASSUME NEW data, NEW ms, DataOK(data, ms), NEW n \in ms, NEW x \in EntrySet \cup {Nothing}
    PROVE  DataOK([data EXCEPT ![n] = x], ms)
BY DEF DataOK

LEMMA PutRequestOK ==
    ASSUME scenario \in Scenario, MembersOK, DataOK(dataMap, members),
           ClientOK(scenario, history, calls, pendingRpcs), NEW c \in calls, HandlePutRequest(c)
    PROVE  ClientOKNext /\ DataOK(dataMap', members)
<1>1. CallOK(scenario, history, c) /\ c \in CallSet /\ c.kind = "put" /\ ~c.answered /\ c.to \in members
  BY DEF HandlePutRequest, ClientOK, CallsOK, CallOK
<1>2. c.to \in Node /\ c.src \in Node /\ c.value \in Stored
  BY <1>1 DEF CallSet
<1>3. DataOK(dataMap', members)
  <2>1. CASE dataMap' = dataMap
    BY <2>1
  <2>2. CASE c.req = 0 /\ dataMap' = [dataMap EXCEPT ![c.to] = Vote(c.to, c)]
    <3>1. c.value \in Value
      BY <1>1, <2>2 DEF CallOK
    <3>2. Vote(c.to, c) \in EntrySet \cup {Nothing}
      BY <1>2, <3>1, VoteOK
    <3> QED BY <1>1, <2>2, <3>2, DataStays
  <2>3. CASE dataMap' = [dataMap EXCEPT ![c.to] = Store(c.to, c)]
    <3>1. Store(c.to, c) \in EntrySet \cup {Nothing}
      BY <1>2, StoreOK
    <3> QED BY <1>1, <2>3, <3>1, DataStays
  <2> QED
    BY <2>1, <2>2, <2>3 DEF HandlePutRequest
<1>4. CASE c.req = 0
  <2>1. calls' = calls \ {c} /\ pendingRpcs' = pendingRpcs
    BY <1>4 DEF HandlePutRequest
  <2>2. IsHistory(history)
    BY DEF ClientOK, HistoryOK
  <2>3. history' = history
    <3>1. history' = [history EXCEPT !.handled = history.handled]
      BY <1>4 DEF HandlePutRequest
    <3> QED BY <2>2, <3>1 DEF IsHistory
  <2>4. calls \ {c} \subseteq calls
    OBVIOUS
  <2> QED
    BY <1>3, <2>1, <2>3, <2>4, ClientDrops DEF ClientOKNext
<1>5. CASE c.req # 0
  <2> DEFINE d == [c EXCEPT !.answered = TRUE]
             G == [history EXCEPT !.handled = history.handled \cup {<<c.req, c.to>>}]
             D == (calls \ {c}) \cup {d}
  <2>1. calls' = D /\ pendingRpcs' = pendingRpcs
    BY <1>5 DEF HandlePutRequest
  <2>2. history' = G
    BY <1>5 DEF HandlePutRequest
  <2>3. /\ IsHistory(G) /\ G.handled = history.handled \cup {<<c.req, c.to>>}
        /\ G.told = history.told /\ G.began = history.began /\ G.asked = history.asked
    <3> DEFINE x == history.handled \cup {<<c.req, c.to>>}
    <3>1. IsHistory(history)
      BY DEF ClientOK, HistoryOK
    <3>2. SameBut(history, G, history.told, history.began, history.asked, x)
      BY <3>1, HistoryFields
    <3> QED BY <3>2 DEF SameBut
  <2> HIDE DEF G
  <2>4. Grows(history, G) /\ SameRequests(scenario, scenario)
    BY <2>3 DEF Grows, SameRequests
  <2>5. \A q \in DOMAIN history.asked : IsFiniteSet(history.asked[q])
    BY DEF ClientOK, HistoryOK
  <2>6. /\ d \in CallSet /\ d.req = c.req /\ d.to = c.to /\ d.kind = c.kind
    BY <1>1 DEF CallSet
  <2> HIDE DEF d
  <2>7. CallsOK(scenario, G, calls)
    BY <2>4, CallsStay DEF ClientOK
  <2>8. CallOK(scenario, G, d)
    BY <1>1, <1>5, <2>3, <2>6 DEF CallOK
  <2>9. CallsOK(scenario, G, D) /\ \A q : Waiting(D, q) = Waiting(calls, q)
    BY <2>6, <2>7, <2>8, AnswerCall
  <2> HIDE DEF D
  <2>10. HistoryOK(scenario, G, Open) /\ Reported(scenario, G)
    BY <2>3, <2>4, <2>5, ReportedStays DEF ClientOK, HistoryOK, Open
  <2>11. ASSUME NEW q \in Open
         PROVE  RequestOK(scenario, G, Waiting(D, q), q, pendingRpcs[q])
    <3>1. RequestOK(scenario, history, Waiting(calls, q), q, pendingRpcs[q])
      BY DEF ClientOK, Open
    <3>2. Waiting(D, q) \subseteq Waiting(calls, q)
      BY <2>9
    <3> QED BY <2>3, <2>4, <2>5, <3>1, <3>2, RequestStays
  <2>12. ClientOK(scenario, G, D, pendingRpcs)
    BY <2>9, <2>10, <2>11 DEF ClientOK, Open
  <2> QED
    BY <1>3, <2>1, <2>2, <2>12 DEF ClientOKNext
<1> QED
  BY <1>4, <1>5

LEMMA GetRequestOK ==
    ASSUME scenario \in Scenario, DataOK(dataMap, members),
           ClientOK(scenario, history, calls, pendingRpcs), NEW c \in calls, HandleGetRequest(c)
    PROVE  ClientOKNext
<1> DEFINE x == dataMap[c.to].value
           d == [c EXCEPT !.answered = TRUE, !.value = x]
           D == (calls \ {c}) \cup {d}
<1>1. CallOK(scenario, history, c) /\ c \in CallSet /\ c.kind # "put"
  BY DEF HandleGetRequest, ClientOK, CallsOK, CallOK
<1>2. x \in Stored
  <2>1. dataMap[c.to] \in EntrySet \cup {Nothing}
    BY <1>1 DEF CallSet, DataOK
  <2> QED
    BY <2>1, EntryIsNotNothing DEF Stored, Nothing
<1> HIDE DEF x
<1>3. d \in CallSet /\ d.req = c.req /\ d.to = c.to /\ d.kind = c.kind
  BY <1>1, <1>2 DEF CallSet
<1>4. calls' = D /\ pendingRpcs' = pendingRpcs /\ history' = history
  BY DEF HandleGetRequest, x
<1> HIDE DEF d
<1>5. CallOK(scenario, history, d)
  BY <1>1, <1>3 DEF CallOK
<1>6. CallsOK(scenario, history, D) /\ \A q : Waiting(D, q) = Waiting(calls, q)
  BY <1>3, <1>5, AnswerCall DEF ClientOK
<1> HIDE DEF D
<1>7. ASSUME NEW q \in DOMAIN pendingRpcs
      PROVE  RequestOK(scenario, history, Waiting(D, q), q, pendingRpcs[q])
  <2>1. RequestOK(scenario, history, Waiting(calls, q), q, pendingRpcs[q]) /\ Waiting(D, q) = Waiting(calls, q)
    BY <1>6 DEF ClientOK
  <2> QED BY <2>1
<1> QED
  BY <1>4, <1>6, <1>7 DEF ClientOK, ClientOKNext

(***************************************************************************)
(* Maintenance, and the overlay                                            *)
(***************************************************************************)
\* Maintenance calls are no request's.
LEMMA MaintenanceCalls ==
    ASSUME NEW S, NEW H, NEW C, NEW rpcs, ClientOK(S, H, C, rpcs),
           NEW n \in Node, NEW to \in SUBSET Node, NEW value \in Value, NEW about \in Node
    PROVE  ClientOK(S, H, C \cup {Call(0, "put", n, m, value, about) : m \in to}, rpcs)
<1> DEFINE D == C \cup {Call(0, "put", n, m, value, about) : m \in to}
<1>1. ASSUME NEW m \in to
      PROVE  LET c == Call(0, "put", n, m, value, about) IN c.req = 0 /\ CallOK(S, H, c)
  <2> DEFINE c == Call(0, "put", n, m, value, about)
  <2>1. c \in CallSet /\ c.req = 0 /\ c.kind = "put" /\ c.answered = FALSE /\ c.value = value
    BY DEF Call, CallSet, Stored
  <2> HIDE DEF c
  <2>2. CallOK(S, H, c)
    BY <2>1 DEF CallOK
  <2> QED BY <2>1, <2>2 DEF c
<1>2. \A c \in D : c \in C \/ (c.req = 0 /\ CallOK(S, H, c))
  BY <1>1
<1>3. C \subseteq D
  OBVIOUS
<1> HIDE DEF D
<1>4. CallsOK(S, H, D)
  BY <1>2 DEF ClientOK, CallsOK, OneCall
<1>5. ASSUME NEW q \in DOMAIN rpcs
      PROVE  RequestOK(S, H, Waiting(D, q), q, rpcs[q])
  <2>1. q # 0
    <3>1. PICK k \in 0 .. Len(S.requests) : DOMAIN H.began = 1 .. k
      BY DEF ClientOK, HistoryOK
    <3>2. q \in 1 .. k
      BY <3>1 DEF ClientOK, HistoryOK
    <3> QED BY <3>2
  <2>2. Waiting(D, q) = Waiting(C, q)
    BY <1>2, <1>3, <2>1 DEF Waiting
  <2>3. RequestOK(S, H, Waiting(C, q), q, rpcs[q])
    BY DEF ClientOK
  <2> QED
    BY <2>2, <2>3
<1> QED
  BY <1>4, <1>5 DEF ClientOK, D

LEMMA UpdateOK ==
    ASSUME scenario \in Scenario, MembersOK, DataOK(dataMap, members),
           ClientOK(scenario, history, calls, pendingRpcs),
           NEW u \in Node \X Node \X BOOLEAN, Update(u)
    PROVE  ClientOKNext /\ DataOK(dataMap', members)
<1> DEFINE n == u[1]
           node == u[2]
           joined == u[3]
           e == dataMap[n]
<1>1. n \in Node /\ node \in Node /\ joined \in BOOLEAN /\ pendingRpcs' = pendingRpcs /\ history' = history
  BY DEF Update
<1>2. CASE UNCHANGED <<calls, dataMap>>
  BY <1>1, <1>2 DEF ClientOKNext
<1>3. ASSUME Stores(n),
             calls' = calls \cup {Call(0, "put", n, to, e.value, node) : to \in Receivers(node, joined)},
             dataMap' = [dataMap EXCEPT ![n].responsible = StaysResponsible(n, joined)]
      PROVE  ClientOKNext /\ DataOK(dataMap', members)
  <2>1. e \in EntrySet /\ n \in members
    BY <1>1, <1>3 DEF Stores, DataOK
  <2>2. e.value \in Value
    BY <2>1, EntryIsNotNothing
  <2>3. Receivers(node, joined) \in SUBSET Node
    <3>1. Last(Siblings(NumReplica)) \in Node
      BY LookedUp DEF MembersOK
    <3>2. scenario.secure \in BOOLEAN
      BY DEF Scenario
    <3> HIDE DEF node, joined
    <3>3. CASE scenario.secure /\ joined
      BY <1>1, <3>3 DEF Receivers
    <3>4. CASE scenario.secure /\ ~joined
      <4>1. Receivers(node, joined) = {m \in {Last(Siblings(NumReplica))} : node < Last(Siblings(NumReplica))}
        BY <3>4 DEF Receivers
      <4> QED BY <3>1, <4>1
    <3>5. CASE ~scenario.secure
      <4>1. Receivers(node, joined) = {m \in {node} : joined /\ IsSiblingFor(m, NumReplica)}
        BY <3>5 DEF Receivers
      <4> QED BY <1>1, <4>1
    <3> QED BY <1>1, <3>2, <3>3, <3>4, <3>5
  <2>4. ClientOKNext
    <3> HIDE DEF n, node, e, joined
    <3>1. ClientOK(scenario, history, calls \cup {Call(0, "put", n, to, e.value, node) : to \in Receivers(node, joined)},
                   pendingRpcs)
      BY <1>1, <2>2, <2>3, MaintenanceCalls
    <3> QED BY <1>1, <1>3, <3>1 DEF ClientOKNext
  <2>5. DataOK(dataMap', members)
    <3> DEFINE b == StaysResponsible(n, joined)
               x == [e EXCEPT !.responsible = b]
    <3>1. b \in BOOLEAN
      BY DEF StaysResponsible
    <3>2. dataMap' = [dataMap EXCEPT ![n] = x]
      BY <1>3
    <3> HIDE DEF b
    <3>3. x \in EntrySet
      BY <2>1, <3>1 DEF EntrySet
    <3> QED BY <2>1, <3>2, <3>3, DataStays
  <2> QED BY <2>4, <2>5
<1> QED
  BY <1>2, <1>3 DEF Update

LEMMA GuardedOK ==
    ASSUME NEW S, NEW H, NEW C, NEW rpcs, ClientOK(S, H, C, rpcs), NEW x
    PROVE  ClientOK(S, [H EXCEPT !.guarded = x], C, rpcs)
<1> DEFINE G == [H EXCEPT !.guarded = x]
<1>1. /\ IsHistory(G) /\ G.told = H.told /\ G.began = H.began /\ G.asked = H.asked /\ G.handled = H.handled
  <2>1. IsHistory(H)
    BY DEF ClientOK, HistoryOK
  <2>2. SameBut(H, G, H.told, H.began, H.asked, H.handled)
    BY <2>1, HistoryFields
  <2> QED BY <2>2 DEF SameBut
<1> HIDE DEF G
<1>2. Grows(H, G) /\ SameRequests(S, S)
  BY <1>1 DEF Grows, SameRequests
<1>3. \A q \in DOMAIN H.asked : IsFiniteSet(H.asked[q])
  BY DEF ClientOK, HistoryOK
<1>4. HistoryOK(S, G, DOMAIN rpcs) /\ CallsOK(S, G, C) /\ Reported(S, G)
  BY <1>1, <1>2, <1>3, CallsStay, ReportedStays DEF ClientOK, HistoryOK
<1>5. ASSUME NEW q \in DOMAIN rpcs
      PROVE  RequestOK(S, G, Waiting(C, q), q, rpcs[q])
  BY <1>1, <1>2, <1>3, RequestStays DEF ClientOK
<1> QED
  BY <1>4, <1>5 DEF ClientOK, G

LEMMA ChangeOK ==
    ASSUME IInv, NEW ms \in SUBSET Node, IsFiniteSet(ms), Client \in ms, NEW node \in Node, NEW joined \in BOOLEAN,
           members \subseteq ms \cup {node}, Change(ms, node, joined),
           scenario' \in Scenario, SameRequests(scenario, scenario')
    PROVE  IInv'
<1> DEFINE x == history.guarded /\ Guarded(ms, joined)
<1>1. calls' = calls /\ pendingRpcs' = pendingRpcs /\ members' = ms
      /\ history' = [history EXCEPT !.guarded = x]
  BY DEF Change
<1> HIDE DEF x
<1>2. ClientOK(scenario', history', calls', pendingRpcs')
  <2>1. ClientOK(scenario', history, calls, pendingRpcs)
    BY ClientStays DEF IInv
  <2> QED BY <1>1, <2>1, GuardedOK
<1>3. MembersOK'
  BY <1>1 DEF MembersOK
<1>4. DataOK(dataMap', members')
  <2>1. dataMap' = [dataMap EXCEPT ![node] = Nothing]
    BY DEF Change
  <2> QED BY <1>1, <2>1 DEF DataOK, IInv
<1>5. updates' \in SUBSET (Node \X Node \X BOOLEAN)
  BY DEF Change, IInv
<1> QED
  BY <1>2, <1>3, <1>4, <1>5 DEF IInv

(***************************************************************************)
(* The theorems                                                            *)
(***************************************************************************)
LEMMA Initially == Init => IInv
<1> SUFFICES ASSUME Init
             PROVE  IInv
  OBVIOUS
<1> DEFINE H == history
<1>1. scenario \in Scenario /\ MembersOK
  <2>1. scenario \in Scenario /\ Client \in scenario.members /\ IsFiniteSet(scenario.members)
    BY DHTAssumption DEF Init
  <2> QED BY <2>1 DEF Init, MembersOK, Scenario
<1>2. DataOK(dataMap, members)
  BY DEF Init, DataOK
<1>3. /\ DOMAIN H.told = {} /\ DOMAIN H.began = {} /\ DOMAIN H.asked = {} /\ IsHistory(H)
      /\ Open = {} /\ calls = {}
  BY DEF Init, IsHistory, Open
<1>4. {} = 1 .. 0 /\ 0 \in 0 .. Len(scenario.requests)
  <2>1. Len(scenario.requests) \in Nat
    BY <1>1, LenProperties DEF Scenario
  <2> QED BY <2>1
<1> HIDE DEF H
<1>5. HistoryOK(scenario, H, Open)
  BY <1>3, <1>4 DEF HistoryOK
<1>6. ClientOK(scenario, H, calls, pendingRpcs)
  BY <1>3, <1>5 DEF ClientOK, CallsOK, OneCall, Reported, Open
<1> QED
  BY <1>1, <1>2, <1>6 DEF IInv, H, Init

\* The inductive invariant IInv holds in every state.
LEMMA Inductive == IInv /\ [Next]_vars => IInv'
<1> SUFFICES ASSUME IInv, [Next]_vars
             PROVE  IInv'
  OBVIOUS
<1> USE DEF IInv
<1>1. CASE HandleCAPIRequest
  <2>1. ClientOKNext
    BY <1>1, Begins
  <2> QED BY <1>1, <2>1 DEF HandleCAPIRequest, ClientOKNext, MembersOK
<1>2. ASSUME NEW r \in Open, HandleLookupResponse(r)
      PROVE  IInv'
  <2>1. ClientOKNext /\ SameRequests(scenario, scenario') /\ scenario' \in Scenario
    BY <1>2, LookupOK
  <2>2. ClientOK(scenario', history', calls', pendingRpcs')
    BY <2>1, ClientStays DEF ClientOKNext
  <2> QED BY <1>2, <2>1, <2>2 DEF HandleLookupResponse, MembersOK
<1>3. ASSUME NEW c \in calls, HandlePutRequest(c)
      PROVE  IInv'
  <2>1. ClientOKNext /\ DataOK(dataMap', members)
    BY <1>3, PutRequestOK
  <2> QED BY <1>3, <2>1 DEF HandlePutRequest, ClientOKNext, MembersOK
<1>4. ASSUME NEW c \in calls, HandleGetRequest(c)
      PROVE  IInv'
  <2>1. ClientOKNext
    BY <1>4, GetRequestOK
  <2> QED BY <1>4, <2>1 DEF HandleGetRequest, ClientOKNext, MembersOK
<1>5. ASSUME NEW c \in calls, HandleRpcResponse(c)
      PROVE  IInv'
  <2>1. ClientOKNext
    BY <1>5, ResponseOK
  <2> QED BY <1>5, <2>1 DEF HandleRpcResponse, ClientOKNext, MembersOK
<1>6. ASSUME NEW c \in calls, HandleRpcTimeout(c)
      PROVE  IInv'
  <2>1. ClientOKNext
    BY <1>6, TimesOutOK DEF HandleRpcTimeout
  <2> QED BY <1>6, <2>1 DEF HandleRpcTimeout, ClientOKNext, MembersOK
<1>7. ASSUME NEW c \in calls, Lose(c)
      PROVE  IInv'
  <2>1. ClientOKNext
    BY <1>7, TimesOutOK DEF Lose
  <2>2. SameRequests(scenario, scenario') /\ scenario' \in Scenario
    BY <1>7, BoundIsUsed DEF Lose
  <2>3. ClientOK(scenario', history', calls', pendingRpcs')
    BY <2>1, <2>2, ClientStays DEF ClientOKNext
  <2> QED BY <1>7, <2>2, <2>3 DEF Lose, MembersOK
<1>8. ASSUME NEW u \in updates, Update(u)
      PROVE  IInv'
  <2>1. u \in Node \X Node \X BOOLEAN
    OBVIOUS
  <2>2. ClientOKNext /\ DataOK(dataMap', members)
    BY <1>8, <2>1, UpdateOK
  <2> QED BY <1>8, <2>2 DEF Update, ClientOKNext, MembersOK
<1>9. ASSUME NEW n \in Node, Join(n)
      PROVE  IInv'
  <2>1. SameRequests(scenario, scenario') /\ scenario' \in Scenario
    BY <1>9, BoundIsUsed DEF Join
  <2>2. members \cup {n} \in SUBSET Node /\ IsFiniteSet(members \cup {n}) /\ Client \in members \cup {n}
    BY FS_AddElement DEF MembersOK
  <2>3. Change(members \cup {n}, n, TRUE)
    BY <1>9 DEF Join
  <2> QED BY <2>1, <2>2, <2>3, ChangeOK
<1>10. ASSUME NEW n \in Node, Leave(n)
       PROVE  IInv'
  <2>1. SameRequests(scenario, scenario') /\ scenario' \in Scenario
    BY <1>10, BoundIsUsed DEF Leave
  <2>2. members \ {n} \in SUBSET Node /\ IsFiniteSet(members \ {n}) /\ Client \in members \ {n}
    BY <1>10, FS_RemoveElement DEF MembersOK, Leave
  <2>3. Change(members \ {n}, n, FALSE) /\ members \subseteq (members \ {n}) \cup {n}
    BY <1>10 DEF Leave
  <2> QED BY <2>1, <2>2, <2>3, ChangeOK
<1>11. ASSUME NEW n \in Node, HandleTtlTimer(n)
       PROVE  IInv'
  <2>1. SameRequests(scenario, scenario') /\ scenario' \in Scenario
    BY <1>11, BoundIsUsed DEF HandleTtlTimer
  <2>2. ClientOK(scenario', history', calls', pendingRpcs')
    BY <1>11, <2>1, ClientStays DEF HandleTtlTimer
  <2>3. DataOK(dataMap', members)
    BY <1>11, DataStays DEF HandleTtlTimer, Stores, DataOK
  <2> QED BY <1>11, <2>1, <2>2, <2>3 DEF HandleTtlTimer, MembersOK
<1>12. CASE UNCHANGED vars
  BY <1>12 DEF vars, MembersOK
<1> QED
  BY <1>1, <1>2, <1>3, <1>4, <1>5, <1>6, <1>7, <1>8, <1>9, <1>10, <1>11, <1>12 DEF Next, Handle

\* Every step keeps the inductive invariant: the requests of the client, its calls, what
\* the nodes store, and what was told agree.
THEOREM Invariance == Spec => []IInv
<1> QED
  BY Initially, Inductive, PTL DEF Spec

\* A put that was told to have succeeded was handled by more than half of the siblings that
\* its lookup found, whatever is lost, expires, joins or leaves (handlePutResponse()).
THEOREM PutSuccess == Spec => []PutSuccessMeansMajority
<1>1. IInv => PutSuccessMeansMajority
  BY DEF IInv, ClientOK, Reported, PutSuccessMeansMajority, Succeeded, WasTold, Puts, IsPut
<1> QED
  BY <1>1, Invariance, PTL

\* The types are right, and no get asks a node for the hash twice, or one for the value that is
\* still to be asked (handleGetResponse(), handleRpcTimeout()).
THEOREM NobodyAskedTwice == Spec => []AskedOnce
<1>1. IInv => AskedOnce
  <2> SUFFICES ASSUME IInv
               PROVE  AskedOnce
    OBVIOUS
  <2>1. \A r \in Open : /\ NoNodeTwice(pendingRpcs[r], Waiting(calls, r)) /\ pendingRpcs[r] \in PendingSet
                        /\ pendingRpcs[r].numSent <= NumReplica
    BY DEF IInv, ClientOK, RequestOK, Open, NumReplica
  <2>2. members \subseteq Node /\ Client \in members
    BY DEF IInv, MembersOK
  <2>3. ASSUME NEW n \in Node, Stores(n)
        PROVE  n \in members /\ dataMap[n].value \in Value /\ DOMAIN dataMap[n].votes \subseteq Value
    <3>1. dataMap[n] \in EntrySet /\ n \in members
      BY <2>3 DEF IInv, DataOK, Stores
    <3> QED BY <3>1, EntryIsNotNothing, VotesOfEntry
  <2>4. Open \subseteq Requests
    <3>1. PICK k \in 0 .. Len(scenario.requests) : DOMAIN history.began = 1 .. k
      BY DEF IInv, ClientOK, HistoryOK
    <3>2. Len(scenario.requests) \in Nat
      BY LenProperties DEF IInv, Scenario
    <3>3. Open \subseteq 1 .. k
      BY <3>1 DEF IInv, ClientOK, HistoryOK, Open
    <3> QED BY <3>1, <3>2, <3>3 DEF Requests
  <2>5. ASSUME NEW r \in Open
        PROVE  /\ Range(pendingRpcs[r].replica) \subseteq Node
               /\ DOMAIN pendingRpcs[r].hashes \subseteq Value \cup {NoValue}
               /\ pendingRpcs[r].numSent \in 0 .. NumReplica
    <3>1. pendingRpcs[r] \in PendingSet /\ pendingRpcs[r].replica \in Seq(Node) /\ pendingRpcs[r].numSent \in Nat
      BY <2>1 DEF PendingSet
    <3>2. DOMAIN pendingRpcs[r].hashes \subseteq Value \cup {NoValue}
      BY <3>1, HashesOfEntry DEF Stored
    <3>3. Range(pendingRpcs[r].replica) \subseteq Node
      BY <3>1, LenProperties, ElementOfSeq DEF Range
    <3>4. NumReplica \in Nat
      BY DEF IInv, Scenario, NumReplica
    <3> QED BY <2>1, <3>1, <3>2, <3>3, <3>4
  <2>6. \A c \in calls : c.kind \in {"put", "hash", "value"} /\ {c.src, c.to} \subseteq Node
    BY DEF IInv, ClientOK, CallsOK, CallOK, CallSet
  <2>7. TypeOK
    BY <2>2, <2>3, <2>4, <2>5, <2>6 DEF TypeOK, IInv
  <2> QED
    BY <2>1, <2>7 DEF AskedOnce
<1> QED
  BY <1>1, Invariance, PTL

(***************************************************************************)
(* What happens to the table, of what was planned                          *)
(***************************************************************************)
UsesBound(S, T) ==
    \/ S.invalid > 0 /\ T = [S EXCEPT !.invalid = @ - 1]
    \/ S.losses > 0 /\ T = [S EXCEPT !.losses = @ - 1]
    \/ S.joins > 0 /\ T = [S EXCEPT !.joins = @ - 1]
    \/ S.leaves > 0 /\ T = [S EXCEPT !.leaves = @ - 1]
    \/ S.expiries > 0 /\ T = [S EXCEPT !.expiries = @ - 1]

\* No more is left of the bounds of scenario S than was planned.
Within(S, P) ==
    /\ P \in Scenario
    /\ S.invalid <= P.invalid /\ S.losses <= P.losses /\ S.joins <= P.joins
    /\ S.leaves <= P.leaves /\ S.expiries <= P.expiries

LEMMA BoundIsGone ==
    ASSUME NEW S \in Scenario, NEW T, NEW P, Within(S, P), UsesBound(S, T)
    PROVE  Within(T, P) /\ T # P
<1>1. /\ S.invalid \in Nat /\ S.losses \in Nat /\ S.joins \in Nat /\ S.leaves \in Nat /\ S.expiries \in Nat
      /\ P.invalid \in Nat /\ P.losses \in Nat /\ P.joins \in Nat /\ P.leaves \in Nat /\ P.expiries \in Nat
      /\ P \in Scenario
  BY DEF Within, Scenario
<1>2. \A a, b \in Nat : a <= b /\ a > 0 => a - 1 <= b /\ a - 1 # b
  OBVIOUS
<1>3. CASE S.invalid > 0 /\ T = [S EXCEPT !.invalid = @ - 1]
  <2>1. /\ T.invalid = S.invalid - 1 /\ T.losses = S.losses /\ T.joins = S.joins /\ T.leaves = S.leaves
        /\ T.expiries = S.expiries
    BY <1>3 DEF Scenario
  <2> QED BY <1>1, <1>2, <1>3, <2>1 DEF Within
<1>4. CASE S.losses > 0 /\ T = [S EXCEPT !.losses = @ - 1]
  <2>1. /\ T.invalid = S.invalid /\ T.losses = S.losses - 1 /\ T.joins = S.joins /\ T.leaves = S.leaves
        /\ T.expiries = S.expiries
    BY <1>4 DEF Scenario
  <2> QED BY <1>1, <1>2, <1>4, <2>1 DEF Within
<1>5. CASE S.joins > 0 /\ T = [S EXCEPT !.joins = @ - 1]
  <2>1. /\ T.invalid = S.invalid /\ T.losses = S.losses /\ T.joins = S.joins - 1 /\ T.leaves = S.leaves
        /\ T.expiries = S.expiries
    BY <1>5 DEF Scenario
  <2> QED BY <1>1, <1>2, <1>5, <2>1 DEF Within
<1>6. CASE S.leaves > 0 /\ T = [S EXCEPT !.leaves = @ - 1]
  <2>1. /\ T.invalid = S.invalid /\ T.losses = S.losses /\ T.joins = S.joins /\ T.leaves = S.leaves - 1
        /\ T.expiries = S.expiries
    BY <1>6 DEF Scenario
  <2> QED BY <1>1, <1>2, <1>6, <2>1 DEF Within
<1>7. CASE S.expiries > 0 /\ T = [S EXCEPT !.expiries = @ - 1]
  <2>1. /\ T.invalid = S.invalid /\ T.losses = S.losses /\ T.joins = S.joins /\ T.leaves = S.leaves
        /\ T.expiries = S.expiries - 1
    BY <1>7 DEF Scenario
  <2> QED BY <1>1, <1>2, <1>7, <2>1 DEF Within
<1> QED
  BY <1>3, <1>4, <1>5, <1>6, <1>7 DEF UsesBound

\* What is planned does not change.
LEMMA PlanStays ==
    ASSUME NEW H, IsHistory(H), NEW x
    PROVE  /\ [H EXCEPT !.told = x].planned = H.planned
           /\ [H EXCEPT !.began = x].planned = H.planned
           /\ [H EXCEPT !.asked = x].planned = H.planned
           /\ [H EXCEPT !.handled = x].planned = H.planned
           /\ [H EXCEPT !.guarded = x].planned = H.planned
           /\ [H EXCEPT !.told = x].guarded = H.guarded
           /\ [H EXCEPT !.began = x].guarded = H.guarded
           /\ [H EXCEPT !.asked = x].guarded = H.guarded
           /\ [H EXCEPT !.handled = x].guarded = H.guarded
           /\ [H EXCEPT !.guarded = x].guarded = x
<1>1. \A a, b, c, d, e, f : LET R == [told |-> a, began |-> b, asked |-> c, handled |-> d,
                                      guarded |-> e, planned |-> f]
      IN  /\ [R EXCEPT !.told = x].planned = R.planned
          /\ [R EXCEPT !.began = x].planned = R.planned
          /\ [R EXCEPT !.asked = x].planned = R.planned
          /\ [R EXCEPT !.handled = x].planned = R.planned
          /\ [R EXCEPT !.guarded = x].planned = R.planned
          /\ [R EXCEPT !.told = x].guarded = R.guarded
          /\ [R EXCEPT !.began = x].guarded = R.guarded
          /\ [R EXCEPT !.asked = x].guarded = R.guarded
          /\ [R EXCEPT !.handled = x].guarded = R.guarded
          /\ [R EXCEPT !.guarded = x].guarded = x
  OBVIOUS
<1> QED
  BY <1>1 DEF IsHistory

\* The plan stays, and if everything is guarded, it was before.
PlanKept == history'.planned = history.planned /\ (history'.guarded => history.guarded)

\* A step uses a bound, or the overlay and what is left of the bounds stay.
LEMMA BoundOrNot ==
    ASSUME IInv, Next
    PROVE  /\ PlanKept
           /\ \/ UsesBound(scenario, scenario')
              \/ UNCHANGED <<scenario, members>> /\ (HandleCAPIRequest \/ Handle)
<1>0. IsHistory(history)
  BY DEF IInv, ClientOK, HistoryOK
<1>a. \A x : /\ history' = [history EXCEPT !.told = x] => PlanKept
             /\ history' = [history EXCEPT !.began = x] => PlanKept
             /\ history' = [history EXCEPT !.asked = x] => PlanKept
             /\ history' = [history EXCEPT !.handled = x] => PlanKept
             /\ history' = [history EXCEPT !.guarded = x] =>
                    history'.planned = history.planned /\ history'.guarded = x
  <2> TAKE x
  <2>1. /\ [history EXCEPT !.told = x].planned = history.planned
        /\ [history EXCEPT !.began = x].planned = history.planned
        /\ [history EXCEPT !.asked = x].planned = history.planned
        /\ [history EXCEPT !.handled = x].planned = history.planned
        /\ [history EXCEPT !.guarded = x].planned = history.planned
        /\ [history EXCEPT !.told = x].guarded = history.guarded
        /\ [history EXCEPT !.began = x].guarded = history.guarded
        /\ [history EXCEPT !.asked = x].guarded = history.guarded
        /\ [history EXCEPT !.handled = x].guarded = history.guarded
        /\ [history EXCEPT !.guarded = x].guarded = x
    BY <1>0, PlanStays
  <2> QED BY <2>1, Zenon DEF PlanKept
<1>b. ASSUME NEW r, NEW answer, Tell(r, answer)
      PROVE  PlanKept
  BY <1>a, <1>b DEF Tell
<1>c. ASSUME NEW r, NEW e, Keep(r, e)
      PROVE  PlanKept
  BY <1>c DEF Keep, PlanKept
<1>d. ASSUME NEW r, NEW e, NEW rest, Decide(r, e, rest)
      PROVE  PlanKept
  BY <1>b, <1>c, <1>d DEF Decide, Fail
<1>e. ASSUME NEW r, NEW c, HandleHash(r, c)
      PROVE  PlanKept
  BY <1>c, <1>d, <1>e DEF HandleHash
<1>f. ASSUME NEW c, TimesOut(c)
      PROVE  PlanKept
  BY <1>b, <1>c, <1>f DEF TimesOut, HandlePutTimeout, HandleGetTimeout, Fail, PlanKept
<1>1. CASE HandleCAPIRequest
  <2>1. PlanKept /\ UNCHANGED <<scenario, members>>
    BY <1>a, <1>1 DEF HandleCAPIRequest
  <2> QED BY <1>1, <2>1
<1>2. ASSUME NEW r \in Open, HandleLookupResponse(r)
      PROVE  /\ PlanKept
             /\ UsesBound(scenario, scenario') \/ UNCHANGED <<scenario, members>>
  BY <1>a, <1>b, <1>2 DEF HandleLookupResponse, Fail, UsesBound
<1>3. ASSUME NEW c \in calls, HandlePutRequest(c)
      PROVE  PlanKept /\ UNCHANGED <<scenario, members>>
  BY <1>a, <1>3 DEF HandlePutRequest
<1>4. ASSUME NEW c \in calls, HandleGetRequest(c)
      PROVE  PlanKept /\ UNCHANGED <<scenario, members>>
  BY <1>4 DEF HandleGetRequest, PlanKept
<1>5. ASSUME NEW c \in calls, HandleRpcResponse(c)
      PROVE  PlanKept /\ UNCHANGED <<scenario, members>>
  <2>1. CASE c.req \notin Open
    BY <1>5, <2>1 DEF HandleRpcResponse, PlanKept
  <2>2. CASE c.req \in Open
    <3>1. c.kind \in {"put", "hash", "value"}
      BY DEF IInv, ClientOK, CallsOK, CallOK, CallSet
    <3>2. CASE c.kind = "put"
      BY <1>b, <1>c, <1>5, <2>2, <3>2 DEF HandleRpcResponse, HandlePutResponse
    <3>3. CASE c.kind = "hash"
      BY <1>e, <1>5, <2>2, <3>3 DEF HandleRpcResponse
    <3>4. CASE c.kind = "value"
      BY <1>b, <1>d, <1>5, <2>2, <3>4 DEF HandleRpcResponse, HandleValue
    <3> QED BY <3>1, <3>2, <3>3, <3>4
  <2> QED BY <2>1, <2>2
<1>6. ASSUME NEW c \in calls, HandleRpcTimeout(c)
      PROVE  PlanKept /\ UNCHANGED <<scenario, members>>
  BY <1>f, <1>6 DEF HandleRpcTimeout
<1>7. ASSUME NEW c \in calls, Lose(c)
      PROVE  PlanKept /\ UsesBound(scenario, scenario')
  BY <1>f, <1>7 DEF Lose, UsesBound
<1>8. ASSUME NEW u \in updates, Update(u)
      PROVE  PlanKept /\ UNCHANGED <<scenario, members>>
  BY <1>8 DEF Update, PlanKept
<1>9. ASSUME NEW ms, NEW n, NEW joined, Change(ms, n, joined)
      PROVE  PlanKept
  <2> DEFINE x == history.guarded /\ Guarded(ms, joined)
  <2>1. history' = [history EXCEPT !.guarded = x]
    BY <1>9 DEF Change
  <2> HIDE DEF x
  <2>2. history'.planned = history.planned /\ history'.guarded = x
    BY <1>a, <2>1
  <2>3. x => history.guarded
    BY DEF x
  <2>4. history'.guarded => x
    BY <2>2
  <2> QED BY <2>2, <2>3, <2>4 DEF PlanKept
<1>10. ASSUME NEW n \in Node, Join(n) \/ Leave(n)
       PROVE  PlanKept /\ UsesBound(scenario, scenario')
  BY <1>9, <1>10 DEF Join, Leave, UsesBound
<1>11. ASSUME NEW n \in Node, HandleTtlTimer(n)
       PROVE  PlanKept /\ UsesBound(scenario, scenario')
  BY <1>11 DEF HandleTtlTimer, UsesBound, PlanKept
<1>12. CASE Handle
  <2>1. CASE \E r \in Open : HandleLookupResponse(r)
    BY <1>2, <1>12, <2>1
  <2>2. CASE \E c \in calls : \/ HandlePutRequest(c) \/ HandleGetRequest(c)
                             \/ HandleRpcResponse(c) \/ HandleRpcTimeout(c)
    BY <1>3, <1>4, <1>5, <1>6, <1>12, <2>2
  <2>3. CASE \E u \in updates : Update(u)
    BY <1>8, <1>12, <2>3
  <2> QED BY <1>12, <2>1, <2>2, <2>3 DEF Handle
<1>13. CASE \E c \in calls : Lose(c)
  BY <1>7, <1>13
<1>14. CASE \E n \in Node : Join(n) \/ Leave(n) \/ HandleTtlTimer(n)
  BY <1>10, <1>11, <1>14
<1> QED
  BY <1>1, <1>12, <1>13, <1>14 DEF Next

(***************************************************************************)
(* What a get asks for next                                                *)
(***************************************************************************)
LEMMA InjectiveSize ==
    ASSUME NEW S, NEW s \in Seq(S), IsInjective(s)
    PROVE  IsFiniteSet(Range(s)) /\ Cardinality(Range(s)) = Len(s)
<1>1. Len(s) \in Nat /\ DOMAIN s = 1 .. Len(s)
  BY LenProperties
<1>2. s \in Surjection(1 .. Len(s), Range(s)) /\ s \in Injection(1 .. Len(s), Range(s))
  <2>1. s \in [1 .. Len(s) -> Range(s)]
    BY <1>1 DEF Range
  <2>2. s \in Surjection(1 .. Len(s), Range(s))
    BY <1>1, <2>1 DEF Range, Surjection
  <2>3. s \in Injection(1 .. Len(s), Range(s))
    BY <1>1, <2>1 DEF IsInjective, Injection
  <2> QED BY <2>2, <2>3
<1>3. IsFiniteSet(1 .. Len(s)) /\ Cardinality(1 .. Len(s)) = Len(s)
  BY <1>1, FS_Interval
<1> QED
  BY <1>2, <1>3, FS_Surjection

\* The best vector is a longest one.
LEMMA BestIsLongest ==
    ASSUME NEW hashes, DOMAIN hashes \in SUBSET Stored, \A h \in DOMAIN hashes : hashes[h] \in Seq(Node),
           NEW bound \in Nat, \A h \in DOMAIN hashes : Len(hashes[h]) <= bound,
           NEW some \in DOMAIN hashes, hashes[some] # << >>
    PROVE  /\ Best(hashes) \in DOMAIN hashes /\ hashes[Best(hashes)] # << >>
           /\ \A g \in DOMAIN hashes : Len(hashes[g]) <= Len(hashes[Best(hashes)])
<1> DEFINE D == DOMAIN hashes
           L(h) == Len(hashes[h])
           Lens == {L(h) : h \in D}
           long == {h \in D : hashes[h] # << >> /\ \A g \in D : Len(hashes[g]) <= Len(hashes[h])}
<1>1. \A h \in D : L(h) \in Nat /\ L(h) <= bound
  BY LenProperties
<1> HIDE DEF L
<1>2. Lens \in SUBSET Nat /\ Lens # {} /\ \A x \in Lens : x <= bound
  BY <1>1
<1>3. IsFiniteSet(Lens)
  <2> HIDE DEF Lens
  <2> QED BY <1>2, FS_BoundedSetOfNaturals
<1>4. PICK x \in Lens : \A y \in Lens : y <= x
  <2> HIDE DEF Lens
  <2> QED BY <1>2, <1>3, Greatest
<1>5. PICK h \in D : x = L(h)
  BY <1>4
<1>6. \A g \in D : Len(hashes[g]) <= Len(hashes[h])
  BY <1>4, <1>5 DEF L
<1>7. hashes[h] # << >>
  <2>1. Len(hashes[some]) \in Nat /\ Len(hashes[some]) # 0
    BY EmptySeq, LenProperties
  <2>2. Len(hashes[h]) # 0
    BY <1>1, <1>6, <2>1 DEF L
  <2> QED BY <2>2, EmptySeq
<1>8. long \in SUBSET Nat /\ long # {}
  BY <1>5, <1>6, <1>7, StoredAreNumbers
<1>9. Best(hashes) = Min(long)
  BY <1>8 DEF Best
<1>10. Min(long) \in long
  <2> HIDE DEF long
  <2> QED BY <1>8, MinIsMember
<1> QED
  BY <1>9, <1>10

LEMMA CountedFields ==
    ASSUME NEW e \in PendingSet, NEW c, c.value \in Stored, c.to \in Node
    PROVE  LET g == Counted(e, c)
           IN  /\ g \in PendingSet
               /\ g.state = e.state /\ g.replica = e.replica /\ g.hashVector = e.hashVector
               /\ g.numAvailableReplica = e.numAvailableReplica /\ g.numResponses = e.numResponses + 1
               /\ DOMAIN g.hashes = DOMAIN e.hashes \cup {c.value}
               /\ \A h \in DOMAIN e.hashes : h # c.value => g.hashes[h] = e.hashes[h]
               /\ g.hashes[c.value] # << >>
               /\ \A n : n \in Range(g.hashes[c.value]) <=>
                       \/ n = c.to
                       \/ c.value \in DOMAIN e.hashes /\ n \in Range(e.hashes[c.value])
<1> DEFINE v == c.value
           s == IF v \in DOMAIN e.hashes THEN e.hashes[v] ELSE << >>
           f == Append(s, c.to)
           m == With(e.hashes, v, f)
           count == e.numResponses + 1
           g == [e EXCEPT !.hashes = m, !.numResponses = count]
<1>1. count \in Nat
  BY DEF PendingSet
<1>2. s \in Seq(Node)
  BY HashesOfEntry, EmptySeq
<1>3. \A n : n \in Range(s) <=> v \in DOMAIN e.hashes /\ n \in Range(e.hashes[v])
  BY EmptySeq DEF Range
<1> HIDE DEF s
<1>4. f \in Seq(Node) /\ f # << >> /\ Range(f) = Range(s) \cup {c.to}
  <2>1. /\ f \in Seq(Node) /\ Len(f) = Len(s) + 1
        /\ \A i \in 1 .. Len(s) : f[i] = s[i]
        /\ f[Len(s) + 1] = c.to
    BY <1>2, AppendProperties
  <2>2. Len(s) \in Nat /\ DOMAIN s = 1 .. Len(s) /\ DOMAIN f = 1 .. Len(s) + 1
    BY <1>2, <2>1, LenProperties
  <2> HIDE DEF f
  <2>3. f # << >>
    BY <2>1, <2>2, EmptySeq
  <2> QED BY <2>1, <2>2, <2>3 DEF Range
<1> HIDE DEF f
<1>5. /\ DOMAIN m = DOMAIN e.hashes \cup {v} /\ m[v] = f
      /\ \A h \in DOMAIN e.hashes : h # v => m[h] = e.hashes[h]
  BY DEF With
<1>6. m \in HashMaps
  <2>1. m = [h \in DOMAIN m |-> m[h]]
    BY DEF With
  <2> HIDE DEF m
  <2>2. DOMAIN m \in SUBSET Stored /\ \A h \in DOMAIN m : m[h] \in Seq(Node)
    BY <1>4, <1>5, HashesOfEntry
  <2> QED BY <2>1, <2>2, HashMap
<1> HIDE DEF m
<1>7. /\ g \in PendingSet /\ g.state = e.state /\ g.replica = e.replica /\ g.hashes = m
      /\ g.hashVector = e.hashVector /\ g.numResponses = count
      /\ g.numAvailableReplica = e.numAvailableReplica
  <2> HIDE DEF count
  <2>1. /\ g \in PendingSet /\ g.state = e.state /\ g.replica = e.replica /\ g.hashes = m
        /\ g.hashVector = e.hashVector
    BY <1>1, <1>6 DEF PendingSet
  <2>2. g.numResponses = count /\ g.numAvailableReplica = e.numAvailableReplica
    BY DEF PendingSet
  <2> QED BY <2>1, <2>2
<1>8. Counted(e, c) = g
  BY DEF Counted, g, m, f, s
<1> HIDE DEF g
<1> QED
  BY <1>3, <1>4, <1>5, <1>7, <1>8

\* The entry after the node at the end of replica was asked.
LEMMA ReplicaFields ==
    ASSUME NEW e \in PendingSet, e.replica # << >>, IsInjective(e.replica)
    PROVE  LET g == [e EXCEPT !.replica = Front(@)]
           IN  /\ g.state = e.state /\ g.hashVector = e.hashVector /\ g.hashes = e.hashes
               /\ g.numAvailableReplica = e.numAvailableReplica /\ g.numResponses = e.numResponses
               /\ Range(g.replica) = Range(e.replica) \ {Last(e.replica)}
               /\ Last(e.replica) \in Range(e.replica)
<1>1. e.replica \in Seq(Node)
  BY DEF PendingSet
<1>2. Last(e.replica) \in Range(e.replica) /\ Range(Front(e.replica)) = Range(e.replica) \ {Last(e.replica)}
  BY <1>1, FrontOfInjective
<1> QED
  BY <1>2 DEF PendingSet

\* The entry after the node at the end of vector h was asked for the value.
LEMMA ValueFields ==
    ASSUME NEW e \in PendingSet, NEW h \in DOMAIN e.hashes, e.hashes[h] # << >>, IsInjective(e.hashes[h])
    PROVE  LET f == [e EXCEPT !.hashVector = h]
               g == ValueSent(Popped(f))
           IN  /\ f.hashes = e.hashes /\ f.hashVector = h /\ CanAsk(f)
               /\ g.state = "GET_VALUE_SENT" /\ g.replica = e.replica
               /\ g.numAvailableReplica = e.numAvailableReplica
               /\ DOMAIN g.hashes = DOMAIN e.hashes
               /\ \A k \in DOMAIN e.hashes : Range(g.hashes[k]) \subseteq Range(e.hashes[k])
               /\ Last(e.hashes[h]) \in Range(e.hashes[h])
<1> DEFINE f == [e EXCEPT !.hashVector = h]
           p == [f EXCEPT !.hashes[h] = Front(e.hashes[h])]
           g == ValueSent(p)
<1>1. e.hashes[h] \in Seq(Node) /\ h \in Stored /\ h # NoHash
  BY HashesOfEntry, StoredAreNumbers
<1>2. Range(Front(e.hashes[h])) \subseteq Range(e.hashes[h]) /\ Last(e.hashes[h]) \in Range(e.hashes[h])
  BY <1>1, FrontOfInjective
<1>3. /\ f \in PendingSet /\ f.hashes = e.hashes /\ f.hashVector = h /\ f.replica = e.replica
      /\ f.numAvailableReplica = e.numAvailableReplica
  BY <1>1 DEF PendingSet
<1>4. Popped(f) = p
  BY <1>3 DEF Popped
<1> HIDE DEF f
<1>5. /\ p.hashes = [e.hashes EXCEPT ![h] = Front(e.hashes[h])] /\ p.replica = e.replica
      /\ p.numAvailableReplica = e.numAvailableReplica
      /\ g.state = "GET_VALUE_SENT" /\ g.hashes = p.hashes /\ g.replica = p.replica
      /\ g.numAvailableReplica = p.numAvailableReplica
  BY <1>3 DEF PendingSet, ValueSent
<1> HIDE DEF p, g
<1>6. /\ DOMAIN g.hashes = DOMAIN e.hashes
      /\ \A k \in DOMAIN e.hashes : g.hashes[k] = IF k = h THEN Front(e.hashes[h]) ELSE e.hashes[k]
  BY <1>5
<1>7. CanAsk(f)
  BY <1>1, <1>3 DEF CanAsk
<1> QED
  BY <1>2, <1>3, <1>4, <1>5, <1>6, <1>7 DEF f, g

(***************************************************************************)
(* As long as nothing is lost and nobody joins or leaves                   *)
(***************************************************************************)
Replicas == Range(Siblings(NumReplica))

\* The entry of a request that asks nobody but the nodes A.
Names(A, e) ==
    /\ Range(e.replica) \subseteq A
    /\ \A h \in DOMAIN e.hashes : Range(e.hashes[h]) \subseteq A

\* The siblings A are called, nobody else, and everybody who is called answers.
NoFailures(A, H, C, rpcs) ==
    /\ \A c \in C : c.req # 0 /\ c.to \in A
    /\ \A r \in DOMAIN H.asked : H.asked[r] = A
    /\ \A r \in DOMAIN rpcs : /\ Names(A, rpcs[r])
                              /\ rpcs[r].state = "GET_HASH_SENT" => rpcs[r].hashVector = NoHash
    /\ \A r \in DOMAIN H.told : H.told[r].success

LEMMA ReplicasOK ==
    ASSUME scenario \in Scenario, MembersOK
    PROVE  /\ Replicas \in SUBSET members /\ Replicas \in SUBSET Node /\ IsFiniteSet(Replicas)
           /\ Cardinality(Replicas) \in Nat /\ Cardinality(Replicas) = Len(Siblings(NumReplica))
<1>1. Siblings(NumReplica) \in Seq(Node) /\ IsInjective(Siblings(NumReplica))
      /\ Range(Siblings(NumReplica)) \in SUBSET members /\ members \in SUBSET Node
  BY LookedUp
<1>2. /\ IsFiniteSet(Range(Siblings(NumReplica)))
      /\ Cardinality(Range(Siblings(NumReplica))) = Len(Siblings(NumReplica))
  BY <1>1, InjectiveSize
<1> QED
  BY <1>1, <1>2, FS_CardinalityType DEF Replicas

\* What a get that has counted an answer does: it waits, asks another node for the hash,
\* or one of the best vector for the value.  It does not fail.
AsksNext(r, e, rest) ==
    LET best == Best(e.hashes)
        f    == [e EXCEPT !.hashVector = best]
    IN  \/ e.state = "GET_VALUE_SENT" /\ Keep(r, e) /\ calls' = rest
        \/ /\ e.state = "GET_HASH_SENT" /\ e.numResponses < NumGetRequests
           /\ Keep(r, e) /\ calls' = rest
        \/ /\ e.state = "GET_HASH_SENT" /\ ~(e.numResponses < NumGetRequests) /\ e.replica # << >>
           /\ Keep(r, [e EXCEPT !.replica = Front(@)]) /\ calls' = rest \cup {HashCall(r, e)}
        \/ /\ e.state = "GET_HASH_SENT"
           /\ \/ Identical(Len(e.hashes[best]), e)
              \/ ~(e.numResponses < NumGetRequests) /\ e.replica = << >>
           /\ Keep(r, ValueSent(Popped(f))) /\ calls' = rest \cup {ValueCall(r, f)}

\* The vectors hold some of the nodes A, each once.
Vectors(A, hashes) ==
    /\ DOMAIN hashes \in SUBSET Stored
    /\ \A h \in DOMAIN hashes : /\ hashes[h] \in Seq(Node) /\ IsInjective(hashes[h])
                                /\ Range(hashes[h]) \subseteq A

LEMMA BestOfVectors ==
    ASSUME NEW A, IsFiniteSet(A), NEW hashes, Vectors(A, hashes), NEW some \in DOMAIN hashes, hashes[some] # << >>
    PROVE  /\ Best(hashes) \in DOMAIN hashes /\ hashes[Best(hashes)] # << >>
           /\ \A g \in DOMAIN hashes : Len(hashes[g]) <= Len(hashes[Best(hashes)])
<1>1. Cardinality(A) \in Nat
  BY FS_CardinalityType
<1>2. ASSUME NEW h \in DOMAIN hashes
      PROVE  Len(hashes[h]) <= Cardinality(A)
  <2>1. Cardinality(Range(hashes[h])) = Len(hashes[h])
    BY InjectiveSize DEF Vectors
  <2>2. Cardinality(Range(hashes[h])) <= Cardinality(A)
    BY FS_Subset DEF Vectors
  <2> QED BY <2>1, <2>2
<1> QED
  BY <1>1, <1>2, BestIsLongest DEF Vectors

LEMMA HashIsCounted ==
    ASSUME scenario \in Scenario, ClientOK(scenario, history, calls, pendingRpcs),
           NEW A, IsFiniteSet(A), NoFailures(A, history, calls, pendingRpcs),
           NEW c \in calls, c.req \in Open, c.kind = "hash", HandleHash(c.req, c)
    PROVE  LET r == c.req
               e == Counted(pendingRpcs[r], c)
           IN  /\ Getting(r, e, calls \ {c}) /\ e \in PendingSet
               /\ Names(A, e) /\ Vectors(A, e.hashes) /\ IsInjective(e.replica)
               /\ e.state = "GET_HASH_SENT" => e.hashVector = NoHash
               /\ c.value \in DOMAIN e.hashes /\ e.hashes[c.value] # << >>
               /\ AsksNext(r, e, calls \ {c})
<1> DEFINE r    == c.req
           old  == pendingRpcs[r]
           rest == calls \ {c}
           e    == Counted(old, c)
           best == Best(e.hashes)
           f    == [e EXCEPT !.hashVector = best]
<1>1. Getting(r, e, rest) /\ old \in PendingSet /\ old.state \in Asking /\ c.value \in Stored /\ c.to \in Node
  BY CountedOK
<1>2. Names(A, old) /\ c.to \in A /\ (old.state = "GET_HASH_SENT" => old.hashVector = NoHash)
  BY DEF NoFailures, Open
<1>3. /\ e \in PendingSet
      /\ e.state = old.state /\ e.replica = old.replica /\ e.hashVector = old.hashVector
      /\ DOMAIN e.hashes = DOMAIN old.hashes \cup {c.value}
      /\ \A h \in DOMAIN old.hashes : h # c.value => e.hashes[h] = old.hashes[h]
      /\ e.hashes[c.value] # << >>
      /\ \A n : n \in Range(e.hashes[c.value]) <=>
              \/ n = c.to
              \/ c.value \in DOMAIN old.hashes /\ n \in Range(old.hashes[c.value])
  BY <1>1, CountedFields
<1>4. HandleHash(r, c)
  OBVIOUS
<1>5. /\ HandleHash(r, c) =>
           IF e.state = "GET_VALUE_SENT" THEN Keep(r, e) /\ calls' = rest
           ELSE IF Identical(Len(e.hashes[best]), e)
           THEN Decide(r, f, rest)
           ELSE IF e.numResponses < NumGetRequests THEN Decide(r, e, rest)
           ELSE IF e.replica # << >>
           THEN Decide(r, [e EXCEPT !.replica = Front(@)], rest \cup {HashCall(r, e)})
           ELSE Decide(r, f, rest)
  BY DEF HandleHash
<1> HIDE DEF e, old
<1>6. Names(A, e)
  BY <1>2, <1>3 DEF Names
<1>7. Vectors(A, e.hashes) /\ IsInjective(e.replica)
  BY <1>1, <1>3, <1>6, HashesOfEntry DEF Getting, GetOK, NoNodeTwice, Names, Vectors
<1>8. best \in DOMAIN e.hashes /\ e.hashes[best] # << >>
  BY <1>3, <1>7, BestOfVectors
<1>9. f.hashVector = best /\ CanAsk(f)
  BY <1>3, <1>7, <1>8, ValueFields DEF Vectors
<1>10. e.state = "GET_HASH_SENT" => e.hashVector = NoHash
  BY <1>2, <1>3
<1>11. e.state \in {"GET_HASH_SENT", "GET_VALUE_SENT"}
  BY <1>1, <1>3 DEF Asking
<1>12. ASSUME Decide(r, f, rest)
       PROVE  Keep(r, ValueSent(Popped(f))) /\ calls' = rest \cup {ValueCall(r, f)}
  BY <1>9, <1>12 DEF Decide, CanAsk
<1>13. ASSUME Decide(r, e, rest), e.hashVector = NoHash
       PROVE  Keep(r, e) /\ calls' = rest
  BY <1>13 DEF Decide
<1>14. ASSUME e.hashVector = NoHash, Decide(r, [e EXCEPT !.replica = Front(@)], rest \cup {HashCall(r, e)})
       PROVE  Keep(r, [e EXCEPT !.replica = Front(@)]) /\ calls' = rest \cup {HashCall(r, e)}
  <2>1. [e EXCEPT !.replica = Front(@)].hashVector = NoHash
    BY <1>3, <1>14 DEF PendingSet
  <2> QED BY <1>14, <2>1 DEF Decide
<1>15. AsksNext(r, e, rest)
  <2> HIDE DEF f, best, rest
  <2>1. CASE e.state = "GET_VALUE_SENT"
    BY <1>4, <1>5, <2>1 DEF AsksNext
  <2>2. CASE e.state = "GET_HASH_SENT"
    <3>1. CASE Decide(r, f, rest) /\ (Identical(Len(e.hashes[best]), e)
                                     \/ (~(e.numResponses < NumGetRequests) /\ e.replica = << >>))
      BY <1>12, <2>2, <3>1 DEF AsksNext, f, best
    <3>2. CASE Decide(r, e, rest) /\ e.numResponses < NumGetRequests
      BY <1>10, <1>13, <2>2, <3>2 DEF AsksNext
    <3>3. CASE /\ Decide(r, [e EXCEPT !.replica = Front(@)], rest \cup {HashCall(r, e)})
               /\ ~(e.numResponses < NumGetRequests) /\ e.replica # << >>
      BY <1>10, <1>14, <2>2, <3>3 DEF AsksNext
    <3>4. e.state # "GET_VALUE_SENT"
      BY <2>2
    <3> QED BY <1>4, <1>5, <3>1, <3>2, <3>3, <3>4
  <2> QED BY <1>11, <2>1, <2>2
<1> QED
  BY <1>1, <1>3, <1>6, <1>7, <1>10, <1>15 DEF e, old

NoFailuresNext == NoFailures(Replicas, history', calls', pendingRpcs')

\* A request goes on, and calls one of the nodes A at most.
LEMMA FineKeeps ==
    ASSUME NEW A, NEW H, NEW C, NEW D, NEW rpcs, NoFailures(A, H, C, rpcs), NEW r \in DOMAIN rpcs, NEW e,
           Names(A, e), e.state = "GET_HASH_SENT" => e.hashVector = NoHash,
           \A c \in D : c \in C \/ (c.req # 0 /\ c.to \in A)
    PROVE  NoFailures(A, H, D, [rpcs EXCEPT ![r] = e])
BY DEF NoFailures

\* A request ends well.
LEMMA FineTells ==
    ASSUME NEW A, NEW H, IsHistory(H), NEW C, NEW D, D \subseteq C, NEW rpcs, NoFailures(A, H, C, rpcs),
           NEW r, NEW answer, answer.success
    PROVE  NoFailures(A, [H EXCEPT !.told = With(H.told, r, answer)], D, Restrict(rpcs, DOMAIN rpcs \ {r}))
<1> DEFINE t == With(H.told, r, answer)
           G == [H EXCEPT !.told = t]
           rest == Restrict(rpcs, DOMAIN rpcs \ {r})
<1>1. DOMAIN t = DOMAIN H.told \cup {r} /\ \A q \in DOMAIN t : t[q] = IF q = r THEN answer ELSE H.told[q]
  BY DEF With
<1>2. DOMAIN rest = DOMAIN rpcs \ {r} /\ \A q \in DOMAIN rest : rest[q] = rpcs[q]
  BY DEF Restrict
<1> HIDE DEF t, rest
<1>3. G.told = t /\ G.asked = H.asked
  <2>1. SameBut(H, G, t, H.began, H.asked, H.handled)
    BY HistoryFields
  <2> QED BY <2>1 DEF SameBut
<1> HIDE DEF G
<1>4. NoFailures(A, G, D, rest)
  BY <1>1, <1>2, <1>3 DEF NoFailures
<1> QED
  BY <1>4 DEF G, t, rest

LEMMA FineHash ==
    ASSUME scenario \in Scenario, MembersOK, ClientOK(scenario, history, calls, pendingRpcs),
           NoFailures(Replicas, history, calls, pendingRpcs),
           NEW c \in calls, c.req \in Open, c.kind = "hash", HandleHash(c.req, c)
    PROVE  NoFailuresNext
<1> DEFINE r    == c.req
           rest == calls \ {c}
           e    == Counted(pendingRpcs[r], c)
           best == Best(e.hashes)
           f    == [e EXCEPT !.hashVector = best]
           A    == Replicas
<1>1. /\ Getting(r, e, rest) /\ e \in PendingSet
      /\ Names(A, e) /\ Vectors(A, e.hashes) /\ IsInjective(e.replica)
      /\ e.state = "GET_HASH_SENT" => e.hashVector = NoHash
      /\ c.value \in DOMAIN e.hashes /\ e.hashes[c.value] # << >>
      /\ AsksNext(r, e, rest)
  BY ReplicasOK, HashIsCounted
<1>2. r \in DOMAIN pendingRpcs /\ r \in Nat \ {0}
  BY <1>1 DEF Getting, Open
<1> HIDE DEF e
<1>3. \A d \in rest : d \in calls
  OBVIOUS
<1>4. CASE Keep(r, e) /\ calls' = rest
  BY <1>1, <1>2, <1>3, <1>4, FineKeeps DEF Keep, NoFailuresNext
<1>5. ASSUME e.replica # << >>, Keep(r, [e EXCEPT !.replica = Front(@)]), calls' = rest \cup {HashCall(r, e)}
      PROVE  NoFailuresNext
  <2> DEFINE g == [e EXCEPT !.replica = Front(@)]
  <2>1. /\ g.state = e.state /\ g.hashVector = e.hashVector /\ g.hashes = e.hashes
        /\ Range(g.replica) = Range(e.replica) \ {Last(e.replica)}
        /\ Last(e.replica) \in Range(e.replica)
    BY <1>1, <1>5, ReplicaFields
  <2>2. pendingRpcs' = [pendingRpcs EXCEPT ![r] = g] /\ history' = history
    BY <1>5 DEF Keep
  <2> HIDE DEF g
  <2>3. HashCall(r, e).req # 0 /\ HashCall(r, e).to \in A
    <3> DEFINE n == Last(e.replica)
    <3>1. HashCall(r, e) = RequestCall(r, "hash", n, NoValue) /\ n \in A
      BY <1>1, <2>1 DEF HashCall, Names
    <3>2. RequestCall(r, "hash", n, NoValue).req = r /\ RequestCall(r, "hash", n, NoValue).to = n
      BY DEF RequestCall, Call
    <3> HIDE DEF n, r
    <3> QED BY <1>2, <3>1, <3>2
  <2>4. Names(A, g)
    BY <1>1, <2>1 DEF Names
  <2>5. \A d \in calls' : d \in calls \/ (d.req # 0 /\ d.to \in A)
    BY <1>5, <2>3
  <2>6. NoFailures(A, history, calls', [pendingRpcs EXCEPT ![r] = g])
    BY <1>1, <1>2, <2>1, <2>4, <2>5, FineKeeps
  <2> QED BY <2>2, <2>6 DEF NoFailuresNext
<1>6. ASSUME Keep(r, ValueSent(Popped(f))), calls' = rest \cup {ValueCall(r, f)}
      PROVE  NoFailuresNext
  <2> DEFINE g == ValueSent(Popped(f))
  <2>1. best \in DOMAIN e.hashes /\ e.hashes[best] # << >> /\ IsInjective(e.hashes[best])
    BY <1>1, ReplicasOK, BestOfVectors DEF Vectors
  <2>2. /\ f.hashes = e.hashes /\ f.hashVector = best
        /\ g.state = "GET_VALUE_SENT" /\ g.replica = e.replica
        /\ DOMAIN g.hashes = DOMAIN e.hashes
        /\ \A k \in DOMAIN e.hashes : Range(g.hashes[k]) \subseteq Range(e.hashes[k])
        /\ Last(e.hashes[best]) \in Range(e.hashes[best])
    BY <1>1, <2>1, ValueFields
  <2>3. pendingRpcs' = [pendingRpcs EXCEPT ![r] = g] /\ history' = history
    BY <1>6 DEF Keep
  <2> HIDE DEF f, g
  <2>4. ValueCall(r, f).req # 0 /\ ValueCall(r, f).to \in A
    <3> DEFINE n == Last(e.hashes[best])
    <3>1. ValueCall(r, f) = RequestCall(r, "value", n, NoValue) /\ n \in A
      BY <1>1, <2>1, <2>2 DEF ValueCall, Names
    <3>2. RequestCall(r, "value", n, NoValue).req = r /\ RequestCall(r, "value", n, NoValue).to = n
      BY DEF RequestCall, Call
    <3> HIDE DEF n, r
    <3> QED BY <1>2, <3>1, <3>2
  <2>5. Names(A, g)
    BY <1>1, <2>2 DEF Names
  <2>6. \A d \in calls' : d \in calls \/ (d.req # 0 /\ d.to \in A)
    BY <1>6, <2>4
  <2>7. NoFailures(A, history, calls', [pendingRpcs EXCEPT ![r] = g])
    BY <1>1, <1>2, <2>2, <2>5, <2>6, FineKeeps
  <2> QED BY <2>3, <2>7 DEF NoFailuresNext
<1> QED
  BY <1>1, <1>4, <1>5, <1>6 DEF AsksNext, f, best

LEMMA FineResponse ==
    ASSUME scenario \in Scenario, MembersOK, ClientOK(scenario, history, calls, pendingRpcs),
           NoFailures(Replicas, history, calls, pendingRpcs), NEW c \in calls, HandleRpcResponse(c)
    PROVE  NoFailuresNext
<1> DEFINE r == c.req
           A == Replicas
<1>0. IsHistory(history) /\ calls \ {c} \subseteq calls /\ \A d \in calls \ {c} : d \in calls
  BY DEF ClientOK, HistoryOK
<1>a. ASSUME NEW answer, answer.success, Tell(r, answer), calls' = calls \ {c}
      PROVE  NoFailuresNext
  <2>1. NoFailures(A, [history EXCEPT !.told = With(history.told, r, answer)], calls \ {c},
                   Restrict(pendingRpcs, DOMAIN pendingRpcs \ {r}))
    BY <1>0, <1>a, FineTells
  <2> QED BY <1>a, <2>1 DEF Tell, Close, Open, NoFailuresNext
<1>1. CASE r \notin Open
  BY <1>1 DEF HandleRpcResponse, NoFailures, NoFailuresNext
<1>2. CASE r \in Open
  <2>0. r \in DOMAIN pendingRpcs /\ c.kind \in {"put", "hash", "value"} /\ pendingRpcs[r] \in PendingSet
    BY <1>2 DEF Open, ClientOK, CallsOK, CallOK, CallSet, RequestOK
  <2>1. CASE c.kind = "put"
    <3> DEFINE e == [pendingRpcs[r] EXCEPT !.numResponses = @ + 1]
    <3>1. HandlePutResponse(r, c)
      BY <1>2, <2>1 DEF HandleRpcResponse
    <3>2. e.state = pendingRpcs[r].state /\ e.replica = pendingRpcs[r].replica /\ e.hashes = pendingRpcs[r].hashes
          /\ e.hashVector = pendingRpcs[r].hashVector
      BY <2>0 DEF PendingSet
    <3>3. calls' = calls \ {c} /\ (Tell(r, Told(TRUE, scenario.requests[r].value)) \/ Keep(r, e))
      BY <3>1 DEF HandlePutResponse
    <3> HIDE DEF e
    <3>4. Names(A, e) /\ (e.state = "GET_HASH_SENT" => e.hashVector = NoHash)
      BY <2>0, <3>2 DEF NoFailures, Names
    <3>5. CASE Keep(r, e)
      <4>1. NoFailures(A, history, calls \ {c}, [pendingRpcs EXCEPT ![r] = e])
        BY <1>0, <2>0, <3>4, FineKeeps
      <4> QED BY <3>3, <3>5, <4>1 DEF Keep, NoFailuresNext
    <3>6. CASE Tell(r, Told(TRUE, scenario.requests[r].value))
      BY <1>a, <3>3, <3>6 DEF Told
    <3> QED BY <3>3, <3>5, <3>6
  <2>2. CASE c.kind = "hash"
    BY <1>2, <2>2, FineHash DEF HandleRpcResponse
  <2>3. CASE c.kind = "value"
    <3>1. HandleValue(r, c)
      BY <1>2, <2>3 DEF HandleRpcResponse
    <3>2. CASE pendingRpcs[r].state = "GET_VALUE_SENT"
      <4>1. Tell(r, Told(TRUE, c.value)) /\ calls' = calls \ {c}
        BY <3>1, <3>2 DEF HandleValue
      <4> QED BY <1>a, <4>1 DEF Told
    <3>3. CASE pendingRpcs[r].state # "GET_VALUE_SENT"
      <4>1. Getting(r, pendingRpcs[r], calls \ {c})
        BY <1>2, <2>3, EndingGet
      <4>2. pendingRpcs[r].hashVector = NoHash
        BY <2>0, <3>3, <4>1 DEF Getting, GetOK, Asking, NoFailures
      <4>3. Keep(r, pendingRpcs[r]) /\ calls' = calls \ {c}
        BY <3>1, <3>3, <4>2 DEF HandleValue, Decide
      <4>4. NoFailures(A, history, calls \ {c}, [pendingRpcs EXCEPT ![r] = pendingRpcs[r]])
        BY <1>0, <2>0, <4>2, FineKeeps DEF NoFailures
      <4> QED BY <4>3, <4>4 DEF Keep, NoFailuresNext
    <3> QED BY <3>2, <3>3
  <2> QED BY <2>0, <2>1, <2>2, <2>3
<1> QED BY <1>1, <1>2

\* The first calls of a get, and its entry then.
LEMMA FirstHashes ==
    ASSUME scenario \in Scenario, MembersOK
    PROVE  LET s     == Siblings(NumReplica)
               first == SubSeq(s, 1, Min({NumGetRequests, Len(s)}))
               e     == [Pending EXCEPT !.state = "GET_HASH_SENT", !.numSent = Len(first),
                                        !.replica = SubSeq(s, Len(first) + 1, Len(s)),
                                        !.numAvailableReplica = Len(s)]
           IN  /\ Range(first) \cup Range(e.replica) = Replicas
               /\ IsFiniteSet(Range(first)) /\ Cardinality(Range(first)) \in Nat
               /\ Cardinality(Range(first)) <= NumGetRequests
               /\ e.state = "GET_HASH_SENT" /\ DOMAIN e.hashes = {} /\ e.hashVector = NoHash
               /\ e.numResponses = 0 /\ e.numAvailableReplica = Cardinality(Replicas)
<1> DEFINE s     == Siblings(NumReplica)
           k     == Min({NumGetRequests, Len(s)})
           first == SubSeq(s, 1, k)
           rest  == SubSeq(s, k + 1, Len(s))
           e     == [Pending EXCEPT !.state = "GET_HASH_SENT", !.numSent = k, !.replica = rest,
                                    !.numAvailableReplica = Len(s)]
<1>1. s \in Seq(Node) /\ IsInjective(s) /\ Len(s) \in Nat
  BY LookedUp, LenProperties
<1>2. k \in 0 .. Len(s) /\ k <= NumGetRequests /\ k \in Nat
  <2>1. NumGetRequests \in Nat
    BY DEF NumGetRequests, Scenario
  <2>2. k \in {NumGetRequests, Len(s)} /\ k <= Len(s) /\ k <= NumGetRequests
    BY <1>1, <2>1, MinIsMember
  <2> HIDE DEF k, s
  <2> QED BY <1>1, <2>1, <2>2
<1>3. Replicas = Range(s) /\ Cardinality(Replicas) = Len(s)
  BY ReplicasOK DEF Replicas
<1> HIDE DEF k, s
<1>4. /\ first \in Seq(Node) /\ Len(first) = k /\ IsInjective(first)
      /\ Range(first) \cup Range(rest) = Range(s)
  BY <1>1, <1>2, PartsOfInjective
<1>5. IsFiniteSet(Range(first)) /\ Cardinality(Range(first)) = k
  BY <1>4, InjectiveSize
<1>6. /\ e.replica = rest /\ e.state = "GET_HASH_SENT" /\ e.hashes = Pending.hashes
      /\ e.hashVector = NoHash /\ e.numResponses = 0 /\ e.numAvailableReplica = Len(s)
  <2>1. Pending.numResponses = 0
    BY DEF Pending
  <2> HIDE DEF rest
  <2> QED BY <2>1, PendingIsFresh DEF PendingSet
<1>7. e = [Pending EXCEPT !.state = "GET_HASH_SENT", !.numSent = Len(first),
                          !.replica = SubSeq(s, Len(first) + 1, Len(s)), !.numAvailableReplica = Len(s)]
  BY <1>4
<1> HIDE DEF e, first, rest
<1>8. DOMAIN e.hashes = {}
  BY <1>6, PendingIsFresh
<1> QED
  BY <1>2, <1>3, <1>4, <1>5, <1>6, <1>7, <1>8 DEF s, k, first

\* A lookup that is valid: the history knows who is asked.
LEMMA FineLookup ==
    ASSUME scenario \in Scenario, MembersOK, ClientOK(scenario, history, calls, pendingRpcs),
           NoFailures(Replicas, history, calls, pendingRpcs),
           NEW r \in Open, HandleLookupResponse(r), scenario' = scenario
    PROVE  /\ NoFailuresNext
           /\ history' = [history EXCEPT !.asked = With(history.asked, r, Replicas)]
           /\ pendingRpcs[r] = Pending
           /\ IF scenario.requests[r].type = "put"
              THEN PutToSiblings(r, Pending, Siblings(NumReplica))
              ELSE GetHashes(r, Pending, Siblings(NumReplica))
<1> DEFINE s == Siblings(NumReplica)
           A == Replicas
<1>1. pendingRpcs[r] = Pending
  BY DEF HandleLookupResponse, ClientOK, RequestOK, Open
<1>2. ~(scenario.invalid > 0 /\ scenario' = [scenario EXCEPT !.invalid = @ - 1])
  <2>1. scenario.invalid \in Nat /\ [scenario EXCEPT !.invalid = @ - 1].invalid = scenario.invalid - 1
    BY DEF Scenario
  <2>2. [scenario EXCEPT !.invalid = @ - 1] # scenario
    <3> DEFINE T == [scenario EXCEPT !.invalid = @ - 1]
    <3>1. T.invalid # scenario.invalid
      BY <2>1
    <3> HIDE DEF T
    <3>2. T # scenario
      BY <3>1
    <3> QED BY <3>2 DEF T
  <2> QED BY <2>2
<1>3. /\ history' = [history EXCEPT !.asked = With(history.asked, r, A)]
      /\ IF scenario.requests[r].type = "put" THEN PutToSiblings(r, Pending, s)
         ELSE GetHashes(r, Pending, s)
  BY <1>1, <1>2 DEF HandleLookupResponse, Replicas
<1>4. r \in Nat \ {0} /\ r \in DOMAIN pendingRpcs
  <2>1. PICK k \in 0 .. Len(scenario.requests) : DOMAIN history.began = 1 .. k
    BY DEF ClientOK, HistoryOK
  <2>2. r \in 1 .. k
    BY <2>1 DEF ClientOK, HistoryOK, Open
  <2> QED BY <2>2 DEF Open
<1> DEFINE G == [history EXCEPT !.asked = With(history.asked, r, A)]
<1>5. G.told = history.told /\ G.asked = With(history.asked, r, A)
  <2>1. IsHistory(history)
    BY DEF ClientOK, HistoryOK
  <2>2. SameBut(history, G, history.told, history.began, With(history.asked, r, A), history.handled)
    BY <2>1, HistoryFields
  <2> QED BY <2>2 DEF SameBut
<1> HIDE DEF G, A, s
<1>6. NoFailures(A, G, calls, pendingRpcs)
  BY <1>5 DEF NoFailures, With, A
<1>7. ASSUME NEW kind, NEW n, NEW v
      PROVE  LET c == RequestCall(r, kind, n, v) IN c.req # 0 /\ c.to = n
  BY <1>4 DEF RequestCall, Call
<1>8. ASSUME PutToSiblings(r, Pending, s)
      PROVE  NoFailuresNext
  <2> DEFINE e == [Pending EXCEPT !.state = "PUT_SENT", !.numSent = Len(s)]
             v == scenario.requests[r].value
  <2>1. /\ calls' = calls \cup {RequestCall(r, "put", n, v) : n \in Range(s)}
        /\ pendingRpcs' = [pendingRpcs EXCEPT ![r] = e]
    BY <1>8 DEF PutToSiblings
  <2>2. e.state = "PUT_SENT" /\ e.replica = << >> /\ e.hashes = Pending.hashes
    BY PendingIsFresh DEF PendingSet
  <2> HIDE DEF e, v
  <2>3. Names(A, e)
    BY <2>2, PendingIsFresh, EmptySeq DEF Names, Range
  <2>4. \A c \in calls' : c \in calls \/ (c.req # 0 /\ c.to \in A)
    BY <1>7, <2>1 DEF A, s, Replicas
  <2>5. NoFailures(A, G, calls', [pendingRpcs EXCEPT ![r] = e])
    BY <1>4, <1>6, <2>2, <2>3, <2>4, FineKeeps
  <2> QED BY <1>3, <2>1, <2>5 DEF NoFailuresNext, A, G
<1>9. ASSUME GetHashes(r, Pending, s)
      PROVE  NoFailuresNext
  <2> DEFINE first == SubSeq(s, 1, Min({NumGetRequests, Len(s)}))
             e     == [Pending EXCEPT !.state = "GET_HASH_SENT", !.numSent = Len(first),
                                      !.replica = SubSeq(s, Len(first) + 1, Len(s)),
                                      !.numAvailableReplica = Len(s)]
  <2>1. /\ calls' = calls \cup {RequestCall(r, "hash", n, NoValue) : n \in Range(first)}
        /\ pendingRpcs' = [pendingRpcs EXCEPT ![r] = e]
    BY <1>9 DEF GetHashes
  <2>2. /\ Range(first) \cup Range(e.replica) = A
        /\ e.state = "GET_HASH_SENT" /\ DOMAIN e.hashes = {} /\ e.hashVector = NoHash
    BY FirstHashes DEF A, s
  <2> HIDE DEF e, first
  <2>3. Names(A, e)
    BY <2>2 DEF Names
  <2>4. \A c \in calls' : c \in calls \/ (c.req # 0 /\ c.to \in A)
    BY <1>7, <2>1, <2>2
  <2>5. NoFailures(A, G, calls', [pendingRpcs EXCEPT ![r] = e])
    BY <1>4, <1>6, <2>2, <2>3, <2>4, FineKeeps
  <2> QED BY <1>3, <2>1, <2>5 DEF NoFailuresNext, A, G
<1> QED
  BY <1>1, <1>3, <1>8, <1>9 DEF A, s

\* What holds as long as nothing is lost, and nobody joins or leaves.
Fine == updates = {} /\ NoFailures(Replicas, history, calls, pendingRpcs)

LEMMA FineStep ==
    ASSUME IInv, Fine, Next, UNCHANGED <<scenario, members>>, HandleCAPIRequest \/ Handle
    PROVE  Fine'
<1> DEFINE A == Replicas
<1>0. /\ scenario \in Scenario /\ MembersOK /\ ClientOK(scenario, history, calls, pendingRpcs)
      /\ NoFailures(A, history, calls, pendingRpcs) /\ IsHistory(history)
  BY DEF IInv, Fine, ClientOK, HistoryOK
<1>a. Replicas' = Replicas
  BY DEF Replicas, Siblings, Closer, NumReplica
<1>b. ASSUME NoFailuresNext, updates' = updates
      PROVE  Fine'
  BY <1>a, <1>b DEF Fine, NoFailuresNext
<1> HIDE DEF A
<1>1. CASE HandleCAPIRequest
  <2> DEFINE r == Cardinality(DOMAIN history.began) + 1
             G == [history EXCEPT !.began = With(history.began, r, DOMAIN history.told)]
             rpcs == With(pendingRpcs, r, Pending)
  <2>1. history' = G /\ pendingRpcs' = rpcs /\ calls' = calls /\ updates' = updates
    BY <1>1 DEF HandleCAPIRequest
  <2>2. G.told = history.told /\ G.asked = history.asked
    <3>1. SameBut(history, G, history.told, With(history.began, r, DOMAIN history.told),
                  history.asked, history.handled)
      BY <1>0, HistoryFields
    <3> QED BY <3>1 DEF SameBut
  <2>3. \A q \in DOMAIN rpcs : rpcs[q] = Pending \/ (q \in DOMAIN pendingRpcs /\ rpcs[q] = pendingRpcs[q])
    BY DEF With
  <2> HIDE DEF G, rpcs
  <2>4. Names(A, Pending) /\ Pending.hashVector = NoHash
    BY PendingIsFresh, EmptySeq DEF Names, Range
  <2>5. NoFailures(A, G, calls, rpcs)
    BY <1>0, <2>2, <2>3, <2>4 DEF NoFailures
  <2> QED BY <1>b, <2>1, <2>5 DEF NoFailuresNext, A
<1>2. ASSUME NEW r \in Open, HandleLookupResponse(r)
      PROVE  Fine'
  <2>1. NoFailuresNext
    BY <1>0, <1>2, FineLookup DEF A
  <2> QED BY <1>b, <1>2, <2>1 DEF HandleLookupResponse
<1>3. ASSUME NEW c \in calls, HandlePutRequest(c)
      PROVE  Fine'
  <2> DEFINE d == [c EXCEPT !.answered = TRUE]
             G == [history EXCEPT !.handled = history.handled \cup {<<c.req, c.to>>}]
  <2>1. c.req # 0 /\ c.to \in A /\ c \in CallSet
    BY <1>0 DEF NoFailures, ClientOK, CallsOK, CallOK
  <2>2. /\ calls' = (calls \ {c}) \cup {d} /\ pendingRpcs' = pendingRpcs
        /\ history' = G /\ updates' = updates
    BY <1>3, <2>1 DEF HandlePutRequest
  <2>3. d.req = c.req /\ d.to = c.to
    BY <2>1 DEF CallSet
  <2>4. G.told = history.told /\ G.asked = history.asked
    <3>1. SameBut(history, G, history.told, history.began, history.asked,
                  history.handled \cup {<<c.req, c.to>>})
      BY <1>0, HistoryFields
    <3> QED BY <3>1 DEF SameBut
  <2> HIDE DEF d, G
  <2>5. NoFailures(A, G, calls', pendingRpcs)
    BY <1>0, <2>1, <2>2, <2>3, <2>4 DEF NoFailures
  <2> QED BY <1>b, <2>2, <2>5 DEF NoFailuresNext, A
<1>4. ASSUME NEW c \in calls, HandleGetRequest(c)
      PROVE  Fine'
  <2> DEFINE d == [c EXCEPT !.answered = TRUE, !.value = dataMap[c.to].value]
  <2>1. c.req # 0 /\ c.to \in A /\ c \in CallSet
    BY <1>0 DEF NoFailures, ClientOK, CallsOK, CallOK
  <2>2. /\ calls' = (calls \ {c}) \cup {d} /\ pendingRpcs' = pendingRpcs
        /\ history' = history /\ updates' = updates
    BY <1>4 DEF HandleGetRequest
  <2>3. d.req = c.req /\ d.to = c.to
    BY <2>1 DEF CallSet
  <2> HIDE DEF d
  <2>4. NoFailures(A, history, calls', pendingRpcs)
    BY <1>0, <2>1, <2>2, <2>3 DEF NoFailures
  <2> QED BY <1>b, <2>2, <2>4 DEF NoFailuresNext, A
<1>5. ASSUME NEW c \in calls, HandleRpcResponse(c)
      PROVE  Fine'
  <2>1. NoFailuresNext
    BY <1>0, <1>5, FineResponse DEF A
  <2> QED BY <1>b, <1>5, <2>1 DEF HandleRpcResponse
<1>6. ASSUME NEW c \in calls, HandleRpcTimeout(c)
      PROVE  FALSE
  <2>1. c.to \in A /\ A \in SUBSET members
    BY <1>0, ReplicasOK DEF NoFailures, A
  <2> QED BY <1>6, <2>1 DEF HandleRpcTimeout
<1>7. CASE Handle
  <2>1. updates = {}
    BY DEF Fine
  <2>2. CASE \E r \in Open : HandleLookupResponse(r)
    BY <1>2, <2>2
  <2>3. CASE \E c \in calls : \/ HandlePutRequest(c) \/ HandleGetRequest(c)
                             \/ HandleRpcResponse(c) \/ HandleRpcTimeout(c)
    BY <1>3, <1>4, <1>5, <1>6, <2>3
  <2> QED BY <1>7, <2>1, <2>2, <2>3 DEF Handle
<1> QED BY <1>1, <1>7

\* As long as all that was planned is left of the bounds, nothing fails.
FInv == Within(scenario, history.planned) /\ (scenario = history.planned => Fine)

LEMMA FineInductive == IInv /\ FInv /\ [Next]_vars => FInv'
<1> SUFFICES ASSUME IInv, FInv, [Next]_vars
             PROVE  FInv'
  OBVIOUS
<1>1. CASE UNCHANGED vars
  BY <1>1 DEF vars, FInv, Fine, Replicas, Siblings, Closer, NumReplica
<1>2. ASSUME Next, UsesBound(scenario, scenario'), history'.planned = history.planned
      PROVE  FInv'
  BY <1>2, BoundIsGone DEF FInv, IInv
<1>3. ASSUME Next, UNCHANGED <<scenario, members>>, HandleCAPIRequest \/ Handle, history'.planned = history.planned
      PROVE  FInv'
  BY <1>3, FineStep DEF FInv
<1> QED
  BY <1>1, <1>2, <1>3, BoundOrNot DEF PlanKept

LEMMA FineInitially == Init => FInv
<1> SUFFICES ASSUME Init
             PROVE  FInv
  OBVIOUS
<1>1. scenario \in Scenario /\ history.planned = scenario
  BY DHTAssumption DEF Init
<1>2. Within(scenario, scenario)
  BY <1>1 DEF Within, Scenario
<1>3. calls = {} /\ updates = {} /\ DOMAIN pendingRpcs = {} /\ DOMAIN history.told = {} /\ DOMAIN history.asked = {}
  BY DEF Init
<1> QED
  BY <1>1, <1>2, <1>3 DEF FInv, Fine, NoFailures

\* No put or get fails as long as nothing is lost, no lookup is invalid, nothing expires and nobody joins
\* or leaves, however the requests interleave at the replicas: the vote of handleGetResponse() always
\* finds somebody to ask.
THEOREM NothingFails == Spec => []NothingLostNothingFails
<1>1. Spec => [](IInv /\ FInv)
  BY Initially, Inductive, FineInitially, FineInductive, PTL DEF Spec
<1>2. FInv => NothingLostNothingFails
  BY DEF FInv, Fine, NoFailures, NothingLostNothingFails, Undisturbed
<1> QED
  BY <1>1, <1>2, PTL

(***************************************************************************)
(* A get after the put                                                     *)
(***************************************************************************)
\* The nodes that hold value v.
Holders(data, v) == {n \in Node : data[n].value = v}

\* The vectors of entry e are true: only v and the lack of a value were reported, v by the nodes
\* X that hold it, and nodes of Q have reported nothing but v.
Believes(v, X, Q, e) ==
    /\ DOMAIN e.hashes \subseteq {NoValue, v}
    /\ \A h \in DOMAIN e.hashes : \A n \in Range(e.hashes[h]) : (h = v => n \in X) /\ (n \in Q => h = v)

\* So are the answers that are to come, and the value is asked for where it is.
Hears(v, X, Q, e, c) ==
    /\ c.answered => c.value \in {NoValue, v} /\ (c.value = v => c.to \in X) /\ (c.to \in Q => c.value = v)
    /\ c.kind = "value" => e.state = "GET_VALUE_SENT" /\ c.to \in X /\ (c.answered => c.value = v)

\* Until a hash is chosen, each sibling is to be asked, waited for, or counted; once as many
\* answers as planned were counted, no more than one is waited for.
Counts(A, gets, W, e) ==
    /\ e.state \in Asking => e.numAvailableReplica = Cardinality(A)
    /\ e.state = "GET_HASH_SENT" =>
        /\ A \subseteq Range(e.replica) \cup W \cup UNION {Range(e.hashes[h]) : h \in DOMAIN e.hashes}
        /\ Cardinality(W) <= 1 \/ Cardinality(W) + e.numResponses <= gets

\* Most siblings held v when the request began.
Quorum(A, X, Q) == Q \in SUBSET A /\ Q \in SUBSET X /\ 2 * Cardinality(Q) > Cardinality(A)

Sees(v, A, X, gets, C, r, e) ==
    /\ Counts(A, gets, Waiting(C, r), e)
    /\ \E Q : /\ Quorum(A, X, Q) /\ Believes(v, X, Q, e)
              /\ \A c \in C : c.req = r => Hears(v, X, Q, e, c)

\* Put p, the only one, writes v; who begins after it ended will see v.
ReadsOK(p, v, A, gets, data, H, C, rpcs) ==
    /\ \A n \in Node : data[n].value \in {NoValue, v}
    /\ \A n \in Node : <<p, n>> \in H.handled => data[n].value = v
    /\ \A c \in C : c.kind = "put" => c.value = v
    /\ \A r \in DOMAIN H.began : H.began[r] \subseteq DOMAIN H.told
    /\ \A r \in DOMAIN H.told : p \in H.began[r] => H.told[r].value = v
    /\ \A r \in DOMAIN rpcs : r # p /\ p \in H.began[r] =>
            Sees(v, A, Holders(data, v), gets, C, r, rpcs[r])

\* The calls of request r are the same.
SameCalls(C, D, r) == \A c : c.req = r => (c \in C <=> c \in D)

LEMMA SeesStays ==
    ASSUME NEW v, NEW A, NEW X, NEW Y, X \subseteq Y, NEW gets, NEW C, NEW D, NEW r, NEW e,
           Sees(v, A, X, gets, C, r, e), SameCalls(C, D, r)
    PROVE  Sees(v, A, Y, gets, D, r, e)
<1>1. Waiting(D, r) = Waiting(C, r)
  BY DEF SameCalls, Waiting
<1>2. PICK Q : /\ Quorum(A, X, Q) /\ Believes(v, X, Q, e)
               /\ \A c \in C : c.req = r => Hears(v, X, Q, e, c)
  BY DEF Sees
<1>3. Quorum(A, Y, Q) /\ Believes(v, Y, Q, e)
  BY <1>2 DEF Quorum, Believes
<1>4. ASSUME NEW c \in D, c.req = r
      PROVE  Hears(v, Y, Q, e, c)
  BY <1>2, <1>4 DEF SameCalls, Hears
<1> QED
  BY <1>1, <1>3, <1>4 DEF Sees

\* Request r goes on with entry e.
LEMMA ReadKeeps ==
    ASSUME NEW p, NEW v, NEW A, NEW gets, NEW data, NEW H, NEW C, NEW D, NEW rpcs,
           ReadsOK(p, v, A, gets, data, H, C, rpcs), NEW r \in DOMAIN rpcs, NEW e,
           \A c \in D : c.kind = "put" => c.value = v,
           \A q : q # r => SameCalls(C, D, q),
           r # p /\ p \in H.began[r] => Sees(v, A, Holders(data, v), gets, D, r, e)
    PROVE  ReadsOK(p, v, A, gets, data, H, D, [rpcs EXCEPT ![r] = e])
<1> DEFINE new == [rpcs EXCEPT ![r] = e]
           X == Holders(data, v)
<1>1. DOMAIN new = DOMAIN rpcs /\ new[r] = e /\ \A q \in DOMAIN rpcs : q # r => new[q] = rpcs[q]
  OBVIOUS
<1> HIDE DEF new, X
<1>2. ASSUME NEW q \in DOMAIN rpcs, q # p, p \in H.began[q]
      PROVE  Sees(v, A, X, gets, D, q, new[q])
  <2>1. CASE q = r
    BY <1>1, <1>2, <2>1 DEF X
  <2>2. CASE q # r
    <3>1. Sees(v, A, X, gets, C, q, rpcs[q]) /\ SameCalls(C, D, q) /\ X \subseteq X
      BY <1>2, <2>2 DEF ReadsOK, X
    <3> QED BY <1>1, <2>2, <3>1, SeesStays
  <2> QED BY <2>1, <2>2
<1>3. ReadsOK(p, v, A, gets, data, H, D, new)
  BY <1>1, <1>2 DEF ReadsOK, X
<1> QED BY <1>3 DEF new

\* Request r ends.
LEMMA ReadTells ==
    ASSUME NEW p, NEW v, NEW A, NEW gets, NEW data, NEW H, IsHistory(H), NEW C, NEW D, D \subseteq C, NEW rpcs,
           ReadsOK(p, v, A, gets, data, H, C, rpcs), NEW r, NEW answer,
           \A q : q # r => SameCalls(C, D, q), p \in H.began[r] => answer.value = v
    PROVE  ReadsOK(p, v, A, gets, data, [H EXCEPT !.told = With(H.told, r, answer)], D,
                   Restrict(rpcs, DOMAIN rpcs \ {r}))
<1> DEFINE t == With(H.told, r, answer)
           G == [H EXCEPT !.told = t]
           rest == Restrict(rpcs, DOMAIN rpcs \ {r})
           X == Holders(data, v)
<1>1. DOMAIN t = DOMAIN H.told \cup {r} /\ \A q \in DOMAIN t : t[q] = IF q = r THEN answer ELSE H.told[q]
  BY DEF With
<1>2. DOMAIN rest = DOMAIN rpcs \ {r} /\ \A q \in DOMAIN rest : rest[q] = rpcs[q]
  BY DEF Restrict
<1> HIDE DEF t, rest, X
<1>3. G.told = t /\ G.began = H.began /\ G.handled = H.handled
  <2>1. SameBut(H, G, t, H.began, H.asked, H.handled)
    BY HistoryFields
  <2> QED BY <2>1 DEF SameBut
<1> HIDE DEF G
<1>4. ASSUME NEW q \in DOMAIN rest, q # p, p \in H.began[q]
      PROVE  Sees(v, A, X, gets, D, q, rest[q])
  <2>1. q \in DOMAIN rpcs /\ q # r /\ rest[q] = rpcs[q]
    BY <1>2
  <2>2. Sees(v, A, X, gets, C, q, rpcs[q]) /\ SameCalls(C, D, q) /\ X \subseteq X
    BY <1>4, <2>1 DEF ReadsOK, X
  <2> QED BY <2>1, <2>2, SeesStays
<1>5. /\ \A q \in DOMAIN G.told : p \in G.began[q] => G.told[q].value = v
      /\ \A q \in DOMAIN G.began : G.began[q] \subseteq DOMAIN G.told
  BY <1>1, <1>3 DEF ReadsOK
<1>6. ReadsOK(p, v, A, gets, data, G, D, rest)
  BY <1>3, <1>4, <1>5 DEF ReadsOK, X
<1> QED BY <1>6 DEF G, t, rest

\* A vector of half of the siblings, or the longest when all have answered, is that of v.
LEMMA BestIsWritten ==
    ASSUME NEW v, NEW A, IsFiniteSet(A), NEW X, NEW Q, Quorum(A, X, Q), NEW e, Believes(v, X, Q, e),
           Vectors(A, e.hashes), NEW some \in DOMAIN e.hashes, e.hashes[some] # << >>,
           \/ 2 * Len(e.hashes[Best(e.hashes)]) >= Cardinality(A)
           \/ A \subseteq UNION {Range(e.hashes[h]) : h \in DOMAIN e.hashes}
    PROVE  Best(e.hashes) = v
<1> DEFINE best == Best(e.hashes)
           R(h) == Range(e.hashes[h])
<1>1. /\ best \in DOMAIN e.hashes /\ \A g \in DOMAIN e.hashes : Len(e.hashes[g]) <= Len(e.hashes[best])
  BY BestOfVectors
<1>2. ASSUME NEW h \in DOMAIN e.hashes
      PROVE  /\ R(h) \in SUBSET A /\ IsFiniteSet(R(h)) /\ Cardinality(R(h)) = Len(e.hashes[h])
             /\ Len(e.hashes[h]) \in Nat
  <2>1. e.hashes[h] \in Seq(Node) /\ IsInjective(e.hashes[h]) /\ R(h) \in SUBSET A
    BY DEF Vectors
  <2> QED BY <2>1, InjectiveSize, LenProperties
<1>3. IsFiniteSet(Q) /\ Cardinality(Q) \in Nat /\ Cardinality(A) \in Nat /\ Q \in SUBSET A
  BY FS_Subset, FS_CardinalityType DEF Quorum
<1> HIDE DEF best
<1>4. CASE 2 * Len(e.hashes[best]) >= Cardinality(A)
  <2>1. Cardinality(R(best)) + Cardinality(Q) > Cardinality(A)
    <3>1. \A a, b, c \in Nat : 2 * a >= c /\ 2 * b > c => a + b > c
      OBVIOUS
    <3> QED BY <1>1, <1>2, <1>3, <1>4, <3>1 DEF Quorum
  <2>2. R(best) \cap Q # {}
    <3> HIDE DEF R
    <3> QED BY <1>1, <1>2, <1>3, <2>1, FS_MajoritiesIntersect
  <2> QED BY <1>1, <2>2 DEF Believes, best
<1>5. CASE A \subseteq UNION {R(h) : h \in DOMAIN e.hashes}
  <2>1. ASSUME NEW n \in Q
        PROVE  v \in DOMAIN e.hashes /\ n \in R(v)
    BY <1>3, <1>5 DEF Believes
  <2>2. Q # {}
    BY <1>3, FS_EmptySet DEF Quorum
  <2>3. v \in DOMAIN e.hashes /\ Q \in SUBSET R(v)
    BY <2>1, <2>2
  <2>4. Cardinality(Q) <= Cardinality(R(v))
    <3> HIDE DEF R
    <3> QED BY <1>2, <2>3, FS_Subset
  <2>5. 2 * Len(e.hashes[best]) >= Cardinality(A)
    <3>1. \A a, b, c, d \in Nat : a <= b /\ b <= c /\ 2 * a > d => 2 * c >= d
      OBVIOUS
    <3> QED BY <1>1, <1>2, <1>3, <2>3, <2>4, <3>1 DEF Quorum
  <2> QED BY <1>4, <2>5
<1> QED BY <1>4, <1>5 DEF best

\* An answer is counted, and believed.
LEMMA CountedBelieves ==
    ASSUME NEW v, NEW X, NEW Q, NEW old, NEW c, NEW e, Believes(v, X, Q, old),
           c.answered, Hears(v, X, Q, old, c),
           DOMAIN e.hashes = DOMAIN old.hashes \cup {c.value},
           \A h \in DOMAIN old.hashes : h # c.value => e.hashes[h] = old.hashes[h],
           \A n : n \in Range(e.hashes[c.value]) <=>
                   \/ n = c.to
                   \/ c.value \in DOMAIN old.hashes /\ n \in Range(old.hashes[c.value])
    PROVE  Believes(v, X, Q, e)
<1>1. c.value \in {NoValue, v} /\ (c.value = v => c.to \in X) /\ (c.to \in Q => c.value = v)
  BY DEF Hears
<1>2. DOMAIN e.hashes \subseteq {NoValue, v}
  BY <1>1 DEF Believes
<1>3. ASSUME NEW h \in DOMAIN e.hashes, NEW n \in Range(e.hashes[h])
      PROVE  (h = v => n \in X) /\ (n \in Q => h = v)
  <2>1. CASE h = c.value
    BY <1>1, <1>3, <2>1 DEF Believes
  <2>2. CASE h # c.value
    BY <1>3, <2>2 DEF Believes
  <2> QED BY <2>1, <2>2
<1> QED BY <1>2, <1>3 DEF Believes

LEMMA SeesHash ==
    ASSUME scenario \in Scenario, MembersOK, ClientOK(scenario, history, calls, pendingRpcs),
           NoFailures(Replicas, history, calls, pendingRpcs),
           NEW c \in calls, c.req \in Open, c.kind = "hash", c.answered, HandleHash(c.req, c),
           NEW v, NEW X, Sees(v, Replicas, X, NumGetRequests, calls, c.req, pendingRpcs[c.req])
    PROVE  Sees(v, Replicas, X, NumGetRequests, calls', c.req, pendingRpcs'[c.req])
<1> DEFINE r    == c.req
           old  == pendingRpcs[r]
           rest == calls \ {c}
           e    == Counted(old, c)
           best == Best(e.hashes)
           f    == [e EXCEPT !.hashVector = best]
           A    == Replicas
           W0   == Waiting(calls, r)
           W    == Waiting(rest, r)
           All(x) == UNION {Range(x.hashes[h]) : h \in DOMAIN x.hashes}
<1>1. /\ Getting(r, e, rest) /\ e \in PendingSet
      /\ Names(A, e) /\ Vectors(A, e.hashes) /\ IsInjective(e.replica)
      /\ c.value \in DOMAIN e.hashes /\ e.hashes[c.value] # << >>
      /\ AsksNext(r, e, rest)
  BY ReplicasOK, HashIsCounted
<1>2. old \in PendingSet /\ old.state \in Asking /\ c.value \in Stored /\ c.to \in Node
  BY CountedOK
<1>3. /\ e.state = old.state /\ e.replica = old.replica
      /\ e.numAvailableReplica = old.numAvailableReplica /\ e.numResponses = old.numResponses + 1
      /\ DOMAIN e.hashes = DOMAIN old.hashes \cup {c.value}
      /\ \A h \in DOMAIN old.hashes : h # c.value => e.hashes[h] = old.hashes[h]
      /\ \A n : n \in Range(e.hashes[c.value]) <=>
              \/ n = c.to
              \/ c.value \in DOMAIN old.hashes /\ n \in Range(old.hashes[c.value])
  BY <1>2, CountedFields, ZenonT(30)
<1>4. /\ W = W0 \ {c.to} /\ c.to \in W0 /\ r \in Nat \ {0} /\ W0 \in SUBSET A /\ r \in DOMAIN pendingRpcs
  <2>1. W = W0 \ {c.to} /\ c.to \in W0 /\ r \in Nat \ {0}
    BY EndingCall
  <2>2. W0 \in SUBSET A
    BY DEF NoFailures, Waiting
  <2> QED BY <2>1, <2>2 DEF Open
<1>5. IsFiniteSet(A) /\ Cardinality(A) \in Nat /\ NumGetRequests \in Nat /\ old.numResponses \in Nat
  BY <1>2, ReplicasOK DEF PendingSet, NumGetRequests, Scenario
<1>6. PICK Q : /\ Quorum(A, X, Q) /\ Believes(v, X, Q, old)
               /\ \A d \in calls : d.req = r => Hears(v, X, Q, old, d)
  BY DEF Sees
<1>7. Counts(A, NumGetRequests, W0, old)
  BY DEF Sees
<1>8. \A d \in rest : d \in calls
  OBVIOUS
<1>9. Believes(v, X, Q, e)
  <2>1. Hears(v, X, Q, old, c)
    BY <1>6
  <2> HIDE DEF e, old
  <2> QED BY <1>3, <1>6, <2>1, CountedBelieves
<1> HIDE DEF e, old, W0, W, A, rest
<1>10. /\ IsFiniteSet(W0) /\ IsFiniteSet(W) /\ Cardinality(W0) \in Nat /\ Cardinality(W) \in Nat
       /\ Cardinality(W0) = Cardinality(W) + 1
  <2>1. IsFiniteSet(W0)
    BY <1>4, <1>5, FS_Subset
  <2>2. IsFiniteSet(W) /\ Cardinality(W) = Cardinality(W0) - 1
    <3>1. IsFiniteSet(W0 \ {c.to}) /\ Cardinality(W0 \ {c.to}) = Cardinality(W0) - 1
      BY <1>4, <2>1, RemoveOne
    <3> QED BY <1>4, <3>1
  <2>3. Cardinality(W0) \in Nat /\ Cardinality(W) \in Nat
    BY <2>1, <2>2, FS_CardinalityType
  <2> QED BY <2>1, <2>2, <2>3
<1>11. e.numAvailableReplica = Cardinality(A)
  BY <1>2, <1>3, <1>7 DEF Counts
<1>12. ASSUME e.state = "GET_HASH_SENT"
       PROVE  /\ A \subseteq Range(e.replica) \cup W \cup All(e)
              /\ Cardinality(W) = 0 \/ Cardinality(W) + e.numResponses <= NumGetRequests
  <2>1. /\ A \subseteq Range(old.replica) \cup W0 \cup All(old)
        /\ Cardinality(W0) <= 1 \/ Cardinality(W0) + old.numResponses <= NumGetRequests
    BY <1>3, <1>7, <1>12 DEF Counts
  <2>2. All(old) \subseteq All(e)
    <3> SUFFICES ASSUME NEW h \in DOMAIN old.hashes, NEW n \in Range(old.hashes[h])
                 PROVE  n \in Range(e.hashes[h]) /\ h \in DOMAIN e.hashes
      OBVIOUS
    <3> QED BY <1>3
  <2>3. c.to \in All(e)
    BY <1>3
  <2>4. Cardinality(W) = 0 \/ Cardinality(W) + e.numResponses <= NumGetRequests
    BY <1>3, <1>5, <1>10, <2>1
  <2> QED BY <1>3, <1>4, <2>1, <2>2, <2>3, <2>4
<1>13. ASSUME NEW D, NEW g, pendingRpcs'[r] = g, calls' = D, Counts(A, NumGetRequests, Waiting(D, r), g),
              Believes(v, X, Q, g), \A d \in D : d.req = r => Hears(v, X, Q, g, d)
       PROVE  Sees(v, A, X, NumGetRequests, calls', r, pendingRpcs'[r])
  BY <1>6, <1>13 DEF Sees
<1>14. ASSUME NEW d \in rest, d.req = r, NEW g, g.state = e.state \/ g.state = "GET_VALUE_SENT"
       PROVE  Hears(v, X, Q, g, d)
  BY <1>3, <1>6, <1>8, <1>14 DEF Hears
<1>15. ASSUME Keep(r, e), calls' = rest, e.state = "GET_VALUE_SENT" \/ e.numResponses < NumGetRequests
       PROVE  Sees(v, A, X, NumGetRequests, calls', r, pendingRpcs'[r])
  <2>1. pendingRpcs'[r] = e
    BY <1>4, <1>15 DEF Keep
  <2>2. Counts(A, NumGetRequests, W, e)
    BY <1>5, <1>10, <1>11, <1>12 DEF Counts
  <2> QED BY <1>9, <1>13, <1>14, <1>15, <2>1, <2>2 DEF W
<1>16. ASSUME e.state = "GET_HASH_SENT", ~(e.numResponses < NumGetRequests), e.replica # << >>,
              Keep(r, [e EXCEPT !.replica = Front(@)]), calls' = rest \cup {HashCall(r, e)}
       PROVE  Sees(v, A, X, NumGetRequests, calls', r, pendingRpcs'[r])
  <2> DEFINE g == [e EXCEPT !.replica = Front(@)]
             n == Last(e.replica)
             d == HashCall(r, e)
             D == rest \cup {d}
  <2>1. /\ g.state = e.state /\ g.hashes = e.hashes
        /\ g.numAvailableReplica = e.numAvailableReplica /\ g.numResponses = e.numResponses
        /\ Range(g.replica) = Range(e.replica) \ {n}
    BY <1>1, <1>16, ReplicaFields
  <2>2. pendingRpcs'[r] = g
    BY <1>4, <1>16 DEF Keep
  <2>3. d.req = r /\ d.to = n /\ d.kind = "hash" /\ d.answered = FALSE
    BY DEF HashCall, RequestCall, Call
  <2> HIDE DEF g, d, n
  <2>4. W = {}
    <3>1. e.numResponses \in Nat
      BY <1>3, <1>5
    <3>2. Cardinality(W) = 0
      BY <1>5, <1>10, <1>12, <1>16, <3>1
    <3> QED BY <1>10, <3>2, FS_EmptySet
  <2>5. Waiting(D, r) = {n}
    BY <2>3, <2>4 DEF Waiting, W
  <2>6. Counts(A, NumGetRequests, {n}, g)
    <3>1. Cardinality({n}) = 1
      BY FS_Singleton
    <3>2. A \subseteq Range(g.replica) \cup {n} \cup All(g)
      BY <1>12, <1>16, <2>1, <2>4
    <3> QED BY <1>11, <2>1, <3>1, <3>2 DEF Counts
  <2>7. Believes(v, X, Q, g)
    BY <1>9, <2>1 DEF Believes
  <2>8. Hears(v, X, Q, g, d)
    BY <2>3 DEF Hears
  <2>9. \A x \in D : x.req = r => Hears(v, X, Q, g, x)
    BY <1>14, <2>1, <2>8
  <2>10. calls' = D
    BY <1>16 DEF d
  <2> HIDE DEF D
  <2> QED BY <1>13, <2>2, <2>5, <2>6, <2>7, <2>9, <2>10
<1>17. ASSUME e.state = "GET_HASH_SENT",
              \/ Identical(Len(e.hashes[best]), e)
              \/ ~(e.numResponses < NumGetRequests) /\ e.replica = << >>,
              Keep(r, ValueSent(Popped(f))), calls' = rest \cup {ValueCall(r, f)}
       PROVE  Sees(v, A, X, NumGetRequests, calls', r, pendingRpcs'[r])
  <2> DEFINE g == ValueSent(Popped(f))
             n == Last(e.hashes[best])
             d == ValueCall(r, f)
             D == rest \cup {d}
  <2>1. best \in DOMAIN e.hashes /\ e.hashes[best] # << >> /\ IsInjective(e.hashes[best])
    BY <1>1, <1>5, BestOfVectors DEF Vectors
  <2>2. /\ f.hashes = e.hashes /\ f.hashVector = best
        /\ g.state = "GET_VALUE_SENT"
        /\ g.numAvailableReplica = e.numAvailableReplica
        /\ DOMAIN g.hashes = DOMAIN e.hashes
        /\ \A k \in DOMAIN e.hashes : Range(g.hashes[k]) \subseteq Range(e.hashes[k])
        /\ n \in Range(e.hashes[best])
    BY <1>1, <2>1, ValueFields
  <2>3. \/ 2 * Len(e.hashes[best]) >= Cardinality(A)
        \/ A \subseteq All(e)
    <3>1. CASE Identical(Len(e.hashes[best]), e)
      BY <1>11, <3>1 DEF Identical
    <3>2. CASE ~(e.numResponses < NumGetRequests) /\ e.replica = << >>
      <4>1. e.numResponses \in Nat
        BY <1>3, <1>5
      <4>2. Cardinality(W) = 0
        BY <1>5, <1>10, <1>12, <1>17, <3>2, <4>1
      <4>3. W = {}
        BY <1>10, <4>2, FS_EmptySet
      <4>4. Range(e.replica) = {}
        BY <3>2, EmptySeq DEF Range
      <4> QED BY <1>12, <1>17, <4>3, <4>4
    <3> QED BY <1>17, <3>1, <3>2
  <2>4. best = v
    BY <1>1, <1>5, <1>6, <1>9, <2>3, BestIsWritten
  <2>5. pendingRpcs'[r] = g
    BY <1>4, <1>17 DEF Keep
  <2>6. d.req = r /\ d.to = n /\ d.kind = "value" /\ d.answered = FALSE
    BY <2>2 DEF ValueCall, RequestCall, Call
  <2>7. n \in X
    BY <1>9, <2>1, <2>2, <2>4 DEF Believes
  <2> HIDE DEF g, d, n, f, best
  <2>8. Counts(A, NumGetRequests, Waiting(D, r), g)
    BY <1>11, <2>2 DEF Counts
  <2>9. Believes(v, X, Q, g)
    BY <1>9, <2>2 DEF Believes
  <2>10. Hears(v, X, Q, g, d)
    BY <2>2, <2>6, <2>7 DEF Hears
  <2>11. \A x \in D : x.req = r => Hears(v, X, Q, g, x)
    BY <1>14, <2>2, <2>10
  <2>12. calls' = D
    BY <1>17 DEF d, f
  <2> HIDE DEF D
  <2> QED BY <1>13, <2>5, <2>8, <2>9, <2>11, <2>12
<1>18. Sees(v, A, X, NumGetRequests, calls', r, pendingRpcs'[r])
  BY <1>1, <1>15, <1>16, <1>17 DEF AsksNext, f, best
<1> QED BY <1>18 DEF A

\* One step of the table: each request that began after the put is as before, or sees v again.
LEMMA ReadMoves ==
    ASSUME NEW p, NEW v, NEW A, NEW gets, NEW data, NEW H, NEW C, NEW rpcs,
           ReadsOK(p, v, A, gets, data, H, C, rpcs), NEW new, NEW G, NEW D, NEW next,
           \A n \in Node : new[n].value \in {NoValue, v} /\ (data[n].value = v => new[n].value = v),
           \A n \in Node : <<p, n>> \in G.handled => new[n].value = v,
           \A c \in D : c.kind = "put" => c.value = v,
           \A q \in DOMAIN G.began : G.began[q] \subseteq DOMAIN G.told,
           \A q \in DOMAIN G.told : p \in G.began[q] => G.told[q].value = v,
           \A q \in DOMAIN next : q # p /\ p \in G.began[q] =>
               \/ q \in DOMAIN rpcs /\ next[q] = rpcs[q] /\ p \in H.began[q] /\ SameCalls(C, D, q)
               \/ Sees(v, A, Holders(new, v), gets, D, q, next[q])
    PROVE  ReadsOK(p, v, A, gets, new, G, D, next)
<1> DEFINE X == Holders(data, v)
           Y == Holders(new, v)
<1>1. X \subseteq Y
  BY DEF Holders
<1> HIDE DEF X, Y
<1>2. ASSUME NEW q \in DOMAIN next, q # p, p \in G.began[q]
      PROVE  Sees(v, A, Y, gets, D, q, next[q])
  <2>1. ASSUME q \in DOMAIN rpcs, next[q] = rpcs[q], p \in H.began[q], SameCalls(C, D, q)
        PROVE  Sees(v, A, Y, gets, D, q, next[q])
    <3>1. Sees(v, A, X, gets, C, q, rpcs[q])
      BY <1>2, <2>1 DEF ReadsOK, X
    <3> QED BY <1>1, <2>1, <3>1, SeesStays
  <2> QED BY <1>2, <2>1 DEF Y
<1> QED
  BY <1>2 DEF ReadsOK, Y

ReadsNow(p, v)  == ReadsOK(p, v, Replicas, NumGetRequests, dataMap, history, calls, pendingRpcs)
ReadsNext(p, v) == ReadsOK(p, v, Replicas, NumGetRequests, dataMap', history', calls', pendingRpcs')

\* What is known of the table while nothing is lost, and p is the only put.
Alone(p, v) ==
    /\ scenario \in Scenario /\ MembersOK /\ DataOK(dataMap, members)
    /\ ClientOK(scenario, history, calls, pendingRpcs)
    /\ NoFailures(Replicas, history, calls, pendingRpcs)
    /\ Puts = {p} /\ v = scenario.requests[p].value
    /\ ReadsNow(p, v)

LEMMA OnlyPut ==
    ASSUME NEW p, NEW v, Alone(p, v)
    PROVE  /\ \A r \in DOMAIN history.began : r \in Nat \ {0} /\ (scenario.requests[r].type = "put" <=> r = p)
           /\ Open \subseteq DOMAIN history.began /\ DOMAIN history.asked \subseteq DOMAIN history.began
           /\ DOMAIN history.told \subseteq DOMAIN history.began
           /\ \A c \in calls : c.req \in DOMAIN history.asked /\ c.req # 0 /\ c \in CallSet
           /\ \A c \in calls : c.kind = "put" => c.req = p
           /\ IsHistory(history)
<1>1. PICK k \in 0 .. Len(scenario.requests) : DOMAIN history.began = 1 .. k
  BY DEF Alone, ClientOK, HistoryOK
<1>2. Len(scenario.requests) \in Nat
  BY LenProperties DEF Alone, Scenario
<1>3. \A r \in DOMAIN history.began : r \in Requests /\ r \in Nat \ {0}
  BY <1>1, <1>2 DEF Requests
<1>4. \A r \in DOMAIN history.began : scenario.requests[r].type = "put" <=> r = p
  BY <1>3 DEF Puts, IsPut, Alone
<1>5. /\ Open \subseteq DOMAIN history.began /\ DOMAIN history.asked \subseteq DOMAIN history.began
      /\ DOMAIN history.told \subseteq DOMAIN history.began /\ IsHistory(history)
  BY DEF Alone, ClientOK, HistoryOK, Open
<1>6. ASSUME NEW c \in calls
      PROVE  c.req \in DOMAIN history.asked /\ c.req # 0 /\ c \in CallSet /\ (c.kind = "put" => c.req = p)
  <2>1. CallOK(scenario, history, c) /\ c.req # 0
    BY DEF Alone, ClientOK, CallsOK, NoFailures
  <2> QED BY <1>4, <1>5, <2>1 DEF CallOK
<1> QED BY <1>3, <1>4, <1>5, <1>6

\* A get that begins after the put ended finds it at most of the siblings.
LEMMA ReadBegins ==
    ASSUME NEW p, NEW v, Alone(p, v), HandleCAPIRequest
    PROVE  ReadsNext(p, v)
<1> DEFINE r    == Cardinality(DOMAIN history.began) + 1
           rpcs == With(pendingRpcs, r, Pending)
           G    == [history EXCEPT !.began = With(history.began, r, DOMAIN history.told)]
           A    == Replicas
           X    == Holders(dataMap, v)
<1>1. PICK k \in 0 .. Len(scenario.requests) : DOMAIN history.began = 1 .. k
  BY DEF Alone, ClientOK, HistoryOK
<1>2. Len(scenario.requests) \in Nat
  BY LenProperties DEF Alone, Scenario
<1>3. r = k + 1 /\ r \notin DOMAIN history.began
  <2>1. k \in Nat /\ Cardinality(DOMAIN history.began) = k
    BY <1>1, <1>2, FS_Interval
  <2> QED BY <1>1, <2>1
<1>4. pendingRpcs' = rpcs /\ history' = G /\ calls' = calls /\ dataMap' = dataMap
  BY DEF HandleCAPIRequest
<1> HIDE DEF r
<1>5. /\ G.began = With(history.began, r, DOMAIN history.told)
      /\ G.told = history.told /\ G.handled = history.handled
  <2>1. SameBut(history, G, history.told, With(history.began, r, DOMAIN history.told), history.asked, history.handled)
    BY OnlyPut, HistoryFields
  <2> QED BY <2>1 DEF SameBut
<1>6. \A q \in DOMAIN rpcs : \/ q = r /\ rpcs[q] = Pending
                             \/ q \in Open /\ q # r /\ rpcs[q] = pendingRpcs[q]
  BY DEF With, Open
<1>7. /\ DOMAIN G.began = DOMAIN history.began \cup {r} /\ G.began[r] = DOMAIN history.told
      /\ \A q \in DOMAIN history.began : G.began[q] = history.began[q]
  <2> DEFINE b == With(history.began, r, DOMAIN history.told)
  <2>1. /\ DOMAIN b = DOMAIN history.began \cup {r} /\ b[r] = DOMAIN history.told
        /\ \A q \in DOMAIN history.began : b[q] = history.began[q]
    BY <1>3 DEF With
  <2> HIDE DEF b
  <2>2. G.began = b
    BY <1>5 DEF b
  <2> QED BY <2>1, <2>2
<1> HIDE DEF rpcs, G, A, X
<1>8. \A c \in calls : c.req # r
  BY <1>3, OnlyPut
<1>9. ASSUME p \in DOMAIN history.told
      PROVE  Sees(v, A, X, NumGetRequests, calls, r, Pending)
  <2> DEFINE Q == {n \in history.asked[p] : <<p, n>> \in history.handled}
  <2>1. p \in DOMAIN history.asked /\ 2 * Cardinality(Q) > Cardinality(history.asked[p])
    <3>1. Reported(scenario, history)
      BY DEF Alone, ClientOK
    <3>2. p \in DOMAIN history.began /\ scenario.requests[p].type = "put"
      BY <1>9, OnlyPut
    <3>3. history.told[p].success
      BY <1>9 DEF Alone, NoFailures
    <3> QED BY <1>9, <3>1, <3>2, <3>3 DEF Reported
  <2>2. history.asked[p] = A /\ A \in SUBSET Node
    BY <2>1, ReplicasOK DEF Alone, NoFailures, A
  <2>3. Q \in SUBSET A /\ Q \in SUBSET X
    BY <2>2 DEF Alone, ReadsNow, ReadsOK, X, Holders
  <2>4. Quorum(A, X, Q)
    BY <2>1, <2>2, <2>3 DEF Quorum
  <2> HIDE DEF Q
  <2>5. Believes(v, X, Q, Pending)
    BY PendingIsFresh DEF Believes
  <2>6. Counts(A, NumGetRequests, Waiting(calls, r), Pending)
    BY PendingIsFresh DEF Counts, Asking
  <2> QED BY <1>8, <2>4, <2>5, <2>6 DEF Sees
<1>10. ASSUME NEW q \in DOMAIN rpcs, q # p, p \in G.began[q]
       PROVE  \/ q \in DOMAIN pendingRpcs /\ rpcs[q] = pendingRpcs[q] /\ p \in history.began[q] /\ SameCalls(calls, calls, q)
              \/ Sees(v, A, X, NumGetRequests, calls, q, rpcs[q])
  <2>1. CASE q = r /\ rpcs[q] = Pending
    BY <1>7, <1>9, <1>10, <2>1
  <2>2. CASE q \in Open /\ q # r /\ rpcs[q] = pendingRpcs[q]
    BY <1>7, <1>10, <2>2, OnlyPut DEF SameCalls, Open
  <2> QED BY <1>6, <2>1, <2>2
<1>11. /\ \A q \in DOMAIN G.began : G.began[q] \subseteq DOMAIN G.told
       /\ \A q \in DOMAIN G.told : p \in G.began[q] => G.told[q].value = v
  BY <1>5, <1>7, OnlyPut DEF Alone, ReadsNow, ReadsOK
<1>12. ReadsOK(p, v, A, NumGetRequests, dataMap, G, calls, rpcs)
  <2>1. ReadsOK(p, v, A, NumGetRequests, dataMap, history, calls, pendingRpcs)
    BY DEF Alone, ReadsNow, A
  <2>2. /\ \A n \in Node : dataMap[n].value \in {NoValue, v} /\ (dataMap[n].value = v => dataMap[n].value = v)
        /\ \A n \in Node : <<p, n>> \in G.handled => dataMap[n].value = v
        /\ \A c \in calls : c.kind = "put" => c.value = v
    BY <1>5, <2>1 DEF ReadsOK
  <2> QED BY <1>10, <1>11, <2>1, <2>2, ReadMoves DEF X
<1> QED BY <1>4, <1>12 DEF ReadsNext, A

\* The siblings are asked.
LEMMA ReadLookup ==
    ASSUME NEW p, NEW v, Alone(p, v), NEW r \in Open, HandleLookupResponse(r), scenario' = scenario
    PROVE  ReadsNext(p, v)
<1> DEFINE s == Siblings(NumReplica)
           A == Replicas
           X == Holders(dataMap, v)
           G == [history EXCEPT !.asked = With(history.asked, r, A)]
<1>1. /\ history' = G /\ pendingRpcs[r] = Pending
      /\ IF scenario.requests[r].type = "put" THEN PutToSiblings(r, Pending, s) ELSE GetHashes(r, Pending, s)
      /\ dataMap' = dataMap
  BY FineLookup DEF Alone, HandleLookupResponse
<1>2. G.told = history.told /\ G.began = history.began /\ G.handled = history.handled
  <2>1. SameBut(history, G, history.told, history.began, With(history.asked, r, A), history.handled)
    BY OnlyPut, HistoryFields
  <2> QED BY <2>1 DEF SameBut
<1> HIDE DEF G, A, X
<1>3. r \in DOMAIN history.began /\ r \in DOMAIN pendingRpcs /\ (scenario.requests[r].type = "put" <=> r = p)
  BY OnlyPut DEF Open
<1>4. \A c \in calls : c.req # r
  <2>1. r \notin DOMAIN history.asked
    <3>1. RequestOK(scenario, history, Waiting(calls, r), r, pendingRpcs[r])
      BY <1>3 DEF Alone, ClientOK
    <3> QED BY <1>1, <3>1, PendingIsFresh DEF RequestOK
  <2> QED BY <2>1, OnlyPut
<1>5. ReadsOK(p, v, A, NumGetRequests, dataMap, history, calls, pendingRpcs)
  BY DEF Alone, ReadsNow, A
<1>6. ASSUME NEW D, NEW e, D = calls' , pendingRpcs' = [pendingRpcs EXCEPT ![r] = e],
             \A c \in D : c.kind = "put" => c.value = v,
             \A c \in D : c \in calls \/ c.req = r, calls \subseteq D,
             r # p /\ p \in history.began[r] => Sees(v, A, X, NumGetRequests, D, r, e)
      PROVE  ReadsNext(p, v)
  <2>1. \A q : q # r => SameCalls(calls, D, q)
    BY <1>6 DEF SameCalls
  <2>2. ReadsOK(p, v, A, NumGetRequests, dataMap, history, D, [pendingRpcs EXCEPT ![r] = e])
    BY <1>3, <1>5, <1>6, <2>1, ReadKeeps DEF X
  <2>3. ReadsOK(p, v, A, NumGetRequests, dataMap, G, D, [pendingRpcs EXCEPT ![r] = e])
    BY <1>2, <2>2 DEF ReadsOK
  <2> QED BY <1>1, <1>6, <2>3 DEF ReadsNext, A
<1>7. CASE scenario.requests[r].type = "put"
  <2> DEFINE e == [Pending EXCEPT !.state = "PUT_SENT", !.numSent = Len(s)]
             D == calls \cup {RequestCall(r, "put", n, v) : n \in Range(s)}
  <2>1. calls' = D /\ pendingRpcs' = [pendingRpcs EXCEPT ![r] = e]
    BY <1>1, <1>3, <1>7 DEF PutToSiblings, Alone
  <2>2. \A n : LET c == RequestCall(r, "put", n, v) IN c.req = r /\ c.value = v
    BY DEF RequestCall, Call
  <2>3. /\ \A c \in D : c.kind = "put" => c.value = v
        /\ \A c \in D : c \in calls \/ c.req = r
        /\ calls \subseteq D
    BY <1>5, <2>2 DEF ReadsOK
  <2> HIDE DEF e, D
  <2> QED BY <1>3, <1>6, <1>7, <2>1, <2>3
<1>8. CASE scenario.requests[r].type # "put"
  <2> DEFINE first == SubSeq(s, 1, Min({NumGetRequests, Len(s)}))
             e == [Pending EXCEPT !.state = "GET_HASH_SENT", !.numSent = Len(first),
                                  !.replica = SubSeq(s, Len(first) + 1, Len(s)),
                                  !.numAvailableReplica = Len(s)]
             D == calls \cup {RequestCall(r, "hash", n, NoValue) : n \in Range(first)}
  <2>1. calls' = D /\ pendingRpcs' = [pendingRpcs EXCEPT ![r] = e]
    BY <1>1, <1>8 DEF GetHashes
  <2>2. \A n : LET c == RequestCall(r, "hash", n, NoValue)
               IN  c.req = r /\ c.kind = "hash" /\ c.answered = FALSE /\ c.to = n
    BY DEF RequestCall, Call
  <2>3. /\ \A c \in D : c.kind = "put" => c.value = v
        /\ \A c \in D : c \in calls \/ c.req = r
        /\ calls \subseteq D
    BY <1>5, <2>2 DEF ReadsOK
  <2>4. /\ Range(first) \cup Range(e.replica) = A
        /\ IsFiniteSet(Range(first)) /\ Cardinality(Range(first)) \in Nat
        /\ Cardinality(Range(first)) <= NumGetRequests
        /\ e.state = "GET_HASH_SENT" /\ DOMAIN e.hashes = {}
        /\ e.numResponses = 0 /\ e.numAvailableReplica = Cardinality(A)
    BY FirstHashes DEF A, Alone
  <2>5. Waiting(D, r) = Range(first)
    <3> HIDE DEF first
    <3>1. ASSUME NEW n \in Range(first)
          PROVE  n \in Waiting(D, r)
      <4>1. RequestCall(r, "hash", n, NoValue) \in D
        OBVIOUS
      <4> QED BY <2>2, <4>1 DEF Waiting
    <3>2. ASSUME NEW c \in D, c.req = r
          PROVE  c.to \in Range(first)
      BY <1>4, <2>2, <3>2
    <3> QED BY <3>1, <3>2 DEF Waiting
  <2>6. \A c \in D : c.req = r => c.kind = "hash" /\ c.answered = FALSE
    BY <1>4, <2>2
  <2> HIDE DEF e, D, first
  <2>7. NumGetRequests \in Nat
    BY DEF Alone, Scenario, NumGetRequests
  <2>8. Counts(A, NumGetRequests, Range(first), e)
    BY <2>4, <2>7 DEF Counts
  <2>9. ASSUME r # p, p \in history.began[r]
        PROVE  Sees(v, A, X, NumGetRequests, D, r, e)
    <3>1. Sees(v, A, X, NumGetRequests, calls, r, pendingRpcs[r])
      BY <1>3, <1>5, <2>9 DEF ReadsOK, X
    <3>2. PICK Q : Quorum(A, X, Q)
      BY <3>1 DEF Sees
    <3>3. Believes(v, X, Q, e) /\ \A c \in D : c.req = r => Hears(v, X, Q, e, c)
      BY <2>4, <2>6 DEF Believes, Hears
    <3> QED BY <2>5, <2>8, <3>2, <3>3 DEF Sees
  <2> QED BY <1>6, <2>1, <2>3, <2>9
<1> QED BY <1>7, <1>8


\* A get that has counted an answer goes on with its own calls, which are not puts.
LEMMA HashGoesOn ==
    ASSUME scenario \in Scenario, MembersOK, ClientOK(scenario, history, calls, pendingRpcs),
           NoFailures(Replicas, history, calls, pendingRpcs),
           NEW c \in calls, c.req \in Open, c.kind = "hash", HandleHash(c.req, c)
    PROVE  /\ Keep(c.req, pendingRpcs'[c.req])
           /\ \A d \in calls' : d \in calls \ {c} \/ (d.req = c.req /\ d.kind # "put")
           /\ calls \ {c} \subseteq calls'
<1> DEFINE r    == c.req
           rest == calls \ {c}
           e    == Counted(pendingRpcs[r], c)
<1>1. AsksNext(r, e, rest) /\ r \in DOMAIN pendingRpcs
  BY ReplicasOK, HashIsCounted DEF Open
<1>2. \A f : /\ HashCall(r, f).req = r /\ HashCall(r, f).kind # "put"
             /\ ValueCall(r, f).req = r /\ ValueCall(r, f).kind # "put"
  BY DEF HashCall, ValueCall, RequestCall, Call
<1> HIDE DEF e, rest
<1>3. \A f : Keep(r, f) => Keep(r, pendingRpcs'[r])
  BY <1>1 DEF Keep
<1>4. /\ Keep(r, pendingRpcs'[r])
      /\ \A d \in calls' : d \in rest \/ (d.req = r /\ d.kind # "put")
      /\ rest \subseteq calls'
  <2>1. \/ \E f : Keep(r, f) /\ calls' = rest
        \/ \E f, g : Keep(r, f) /\ calls' = rest \cup {HashCall(r, g)}
        \/ \E f, g : Keep(r, f) /\ calls' = rest \cup {ValueCall(r, g)}
    BY <1>1 DEF AsksNext
  <2> QED BY <1>2, <1>3, <2>1
<1> QED BY <1>4 DEF rest

\* An answer arrives.
LEMMA ReadResponse ==
    ASSUME NEW p, NEW v, Alone(p, v), NEW c \in calls, HandleRpcResponse(c), scenario' = scenario
    PROVE  ReadsNext(p, v)
<1> DEFINE r    == c.req
           rest == calls \ {c}
           A    == Replicas
           X    == Holders(dataMap, v)
<1>1. ReadsOK(p, v, A, NumGetRequests, dataMap, history, calls, pendingRpcs)
  BY DEF Alone, ReadsNow
<1>2. dataMap' = dataMap /\ c.answered
  BY DEF HandleRpcResponse
<1>3. \A q : q # r => SameCalls(calls, rest, q)
  BY DEF SameCalls
<1>4. rest \subseteq calls /\ \A d \in rest : d.kind = "put" => d.value = v
  BY <1>1 DEF ReadsOK
<1>5. IsHistory(history)
  BY OnlyPut
<1> HIDE DEF A, X
<1>6. ASSUME NEW answer, Tell(r, answer), calls' = rest, p \in history.began[r] => answer.value = v
      PROVE  ReadsNext(p, v)
  <2>1. ReadsOK(p, v, A, NumGetRequests, dataMap,
                [history EXCEPT !.told = With(history.told, r, answer)], rest,
                Restrict(pendingRpcs, DOMAIN pendingRpcs \ {r}))
    <3> HIDE DEF r, rest
    <3> QED BY <1>1, <1>3, <1>4, <1>5, <1>6, ReadTells
  <2> QED BY <1>2, <1>6, <2>1 DEF Tell, Close, Open, ReadsNext, A
<1>7. ASSUME NEW e, Keep(r, e), r \in Open,
             \A d \in calls' : d \in rest \/ (d.req = r /\ d.kind # "put"), rest \subseteq calls',
             r # p /\ p \in history.began[r] => Sees(v, A, X, NumGetRequests, calls', r, e)
      PROVE  ReadsNext(p, v)
  <2>1. \A d \in calls' : d.kind = "put" => d.value = v
    BY <1>4, <1>7
  <2>2. \A q : q # r => SameCalls(calls, calls', q)
    BY <1>3, <1>7 DEF SameCalls
  <2>3. ReadsOK(p, v, A, NumGetRequests, dataMap, history, calls', [pendingRpcs EXCEPT ![r] = e])
    <3> HIDE DEF r, rest
    <3> QED BY <1>1, <1>7, <2>1, <2>2, ReadKeeps DEF X, Open
  <2> QED BY <1>2, <1>7, <2>3 DEF Keep, ReadsNext, A
<1>8. CASE r \notin Open
  <2>1. calls' = rest /\ pendingRpcs' = pendingRpcs /\ history' = history
    BY <1>8 DEF HandleRpcResponse
  <2>2. \A q \in DOMAIN pendingRpcs : SameCalls(calls, rest, q)
    BY <1>3, <1>8 DEF Open
  <2>3. ReadsOK(p, v, A, NumGetRequests, dataMap, history, rest, pendingRpcs)
    <3> HIDE DEF r, rest
    <3>1. /\ \A n \in Node : dataMap[n].value \in {NoValue, v} /\ (dataMap[n].value = v => dataMap[n].value = v)
          /\ \A n \in Node : <<p, n>> \in history.handled => dataMap[n].value = v
          /\ \A q \in DOMAIN history.began : history.began[q] \subseteq DOMAIN history.told
          /\ \A q \in DOMAIN history.told : p \in history.began[q] => history.told[q].value = v
      BY <1>1 DEF ReadsOK
    <3> QED BY <1>1, <1>4, <2>2, <3>1, ReadMoves
  <2> QED BY <1>2, <2>1, <2>3 DEF ReadsNext, A
<1>9. CASE r \in Open
  <2>1. /\ c \in CallSet /\ r \in DOMAIN history.began
        /\ scenario.requests[r].type = "put" <=> r = p
        /\ c.kind = "put" <=> scenario.requests[r].type = "put"
        /\ v = scenario.requests[p].value
    BY <1>9, OnlyPut, EndingCall DEF Alone
  <2>2. /\ scenario \in Scenario /\ MembersOK /\ ClientOK(scenario, history, calls, pendingRpcs)
        /\ NoFailures(A, history, calls, pendingRpcs)
    BY DEF Alone, A
  <2>3. r # p /\ p \in history.began[r] => Sees(v, A, X, NumGetRequests, calls, r, pendingRpcs[r])
    BY <1>1, <1>9 DEF ReadsOK, Open, X
  <2>4. CASE c.kind = "put"
    <3> DEFINE e == [pendingRpcs[r] EXCEPT !.numResponses = @ + 1]
    <3>1. /\ calls' = rest /\ r = p
          /\ Tell(r, Told(TRUE, scenario.requests[r].value)) \/ Keep(r, e)
      BY <1>9, <2>1, <2>4 DEF HandleRpcResponse, HandlePutResponse
    <3>2. CASE Tell(r, Told(TRUE, scenario.requests[r].value))
      <4>1. Told(TRUE, scenario.requests[r].value).value = v
        BY <2>1, <3>1 DEF Told
      <4> QED BY <1>6, <3>1, <3>2, <4>1
    <3>3. CASE Keep(r, e)
      <4> HIDE DEF e
      <4> QED BY <1>7, <1>9, <3>1, <3>3
    <3> QED BY <3>1, <3>2, <3>3
  <2>5. CASE c.kind = "hash"
    <3>1. HandleHash(r, c)
      BY <1>9, <2>5 DEF HandleRpcResponse
    <3>2. /\ Keep(r, pendingRpcs'[r])
          /\ \A d \in calls' : d \in rest \/ (d.req = r /\ d.kind # "put")
          /\ rest \subseteq calls'
      BY <1>9, <2>2, <2>5, <3>1, HashGoesOn DEF A
    <3>3. ASSUME r # p, p \in history.began[r]
          PROVE  Sees(v, A, X, NumGetRequests, calls', r, pendingRpcs'[r])
      BY <1>2, <1>9, <2>2, <2>3, <2>5, <3>1, <3>3, SeesHash DEF A
    <3> QED BY <1>7, <1>9, <3>2, <3>3
  <2>6. CASE c.kind = "value"
    <3>1. HandleValue(r, c) /\ r # p
      BY <1>9, <2>1, <2>6 DEF HandleRpcResponse
    <3>2. p \in history.began[r] => pendingRpcs[r].state = "GET_VALUE_SENT" /\ c.value = v
      BY <1>2, <2>3, <2>6, <3>1 DEF Sees, Hears
    <3>3. CASE pendingRpcs[r].state = "GET_VALUE_SENT"
      <4>1. Tell(r, Told(TRUE, c.value)) /\ calls' = rest
        BY <3>1, <3>3 DEF HandleValue
      <4>2. Told(TRUE, c.value).value = c.value
        BY DEF Told
      <4> QED BY <1>6, <3>2, <4>1, <4>2
    <3>4. CASE pendingRpcs[r].state # "GET_VALUE_SENT"
      <4>1. Getting(r, pendingRpcs[r], rest)
        BY <1>9, <2>2, <2>6, EndingGet
      <4>2. pendingRpcs[r] \in PendingSet
        BY <1>9, <2>2 DEF ClientOK, RequestOK, Open
      <4>3. pendingRpcs[r].hashVector = NoHash
        BY <1>9, <2>2, <3>4, <4>1 DEF Getting, GetOK, Asking, NoFailures, Open
      <4>4. Keep(r, pendingRpcs[r]) /\ calls' = rest
        BY <3>1, <3>4, <4>3 DEF HandleValue, Decide
      <4> QED BY <1>7, <1>9, <3>2, <3>4, <4>4
    <3> QED BY <3>3, <3>4
  <2> QED BY <2>1, <2>4, <2>5, <2>6 DEF CallSet
<1> QED BY <1>8, <1>9

\* A sibling handles the put.
LEMMA ReadPutRequest ==
    ASSUME NEW p, NEW v, Alone(p, v), NEW c \in calls, HandlePutRequest(c), scenario' = scenario
    PROVE  ReadsNext(p, v)
<1> DEFINE d   == [c EXCEPT !.answered = TRUE]
           D   == (calls \ {c}) \cup {d}
           G   == [history EXCEPT !.handled = history.handled \cup {<<c.req, c.to>>}]
           new == [dataMap EXCEPT ![c.to] = Store(c.to, c)]
           A   == Replicas
<1>1. ReadsOK(p, v, A, NumGetRequests, dataMap, history, calls, pendingRpcs)
  BY DEF Alone, ReadsNow
<1>2. c \in CallSet /\ c.req = p /\ c.req # 0 /\ c.kind = "put" /\ c.to \in Node /\ IsHistory(history)
  BY OnlyPut DEF HandlePutRequest, CallSet
<1>3. c.value = v
  BY <1>1, <1>2 DEF ReadsOK
<1>4. dataMap' = new /\ calls' = D /\ history' = G /\ pendingRpcs' = pendingRpcs
  BY <1>2 DEF HandlePutRequest
<1>5. d.req = p /\ d.value = v
  BY <1>2, <1>3 DEF CallSet
<1>6. Store(c.to, c).value = v
  BY <1>3 DEF Store, Nothing, Entry
<1>7. new[c.to].value = v /\ \A n \in Node : n # c.to => new[n] = dataMap[n]
  <2>1. c.to \in DOMAIN dataMap /\ DOMAIN dataMap = Node
    BY <1>2 DEF Alone, DataOK
  <2> QED BY <1>6, <2>1
<1>8. G.told = history.told /\ G.began = history.began /\ G.handled = history.handled \cup {<<c.req, c.to>>}
  <2>1. SameBut(history, G, history.told, history.began, history.asked, history.handled \cup {<<c.req, c.to>>})
    BY <1>2, HistoryFields
  <2> QED BY <2>1 DEF SameBut
<1>9. \A q : q # p => SameCalls(calls, D, q)
  BY <1>2, <1>5 DEF SameCalls
<1> HIDE DEF d, G, new, A
<1>10. /\ \A n \in Node : new[n].value \in {NoValue, v} /\ (dataMap[n].value = v => new[n].value = v)
       /\ \A n \in Node : <<p, n>> \in G.handled => new[n].value = v
       /\ \A q \in DOMAIN G.began : G.began[q] \subseteq DOMAIN G.told
       /\ \A q \in DOMAIN G.told : p \in G.began[q] => G.told[q].value = v
  BY <1>1, <1>2, <1>7, <1>8 DEF ReadsOK
<1>11. \A x \in D : x.kind = "put" => x.value = v
  BY <1>1, <1>5 DEF ReadsOK
<1> HIDE DEF D
<1>12. ReadsOK(p, v, A, NumGetRequests, new, G, D, pendingRpcs)
  BY <1>1, <1>8, <1>9, <1>10, <1>11, ReadMoves
<1> QED BY <1>4, <1>12 DEF ReadsNext, A

\* A sibling answers what it holds.
LEMMA ReadGetRequest ==
    ASSUME NEW p, NEW v, Alone(p, v), NEW c \in calls, HandleGetRequest(c), scenario' = scenario
    PROVE  ReadsNext(p, v)
<1> DEFINE d == [c EXCEPT !.answered = TRUE, !.value = dataMap[c.to].value]
           D == (calls \ {c}) \cup {d}
           r == c.req
           A == Replicas
           X == Holders(dataMap, v)
<1>1. ReadsOK(p, v, A, NumGetRequests, dataMap, history, calls, pendingRpcs)
  BY DEF Alone, ReadsNow
<1>2. c \in CallSet /\ c.kind \in {"hash", "value"} /\ c.to \in Node
  BY OnlyPut DEF HandleGetRequest, CallSet
<1>3. dataMap' = dataMap /\ calls' = D /\ history' = history /\ pendingRpcs' = pendingRpcs
  BY DEF HandleGetRequest
<1>4. d.req = r /\ d.to = c.to /\ d.kind = c.kind /\ d.answered /\ d.value = dataMap[c.to].value
  BY <1>2 DEF CallSet
<1> HIDE DEF d
<1>5. \A q : q # r => SameCalls(calls, D, q)
  BY <1>4 DEF SameCalls
<1>6. Waiting(D, r) = Waiting(calls, r)
  BY <1>4 DEF Waiting
<1>7. ASSUME NEW e, Sees(v, A, X, NumGetRequests, calls, r, e)
      PROVE  Sees(v, A, X, NumGetRequests, D, r, e)
  <2>1. PICK Q : /\ Quorum(A, X, Q) /\ Believes(v, X, Q, e)
                 /\ \A x \in calls : x.req = r => Hears(v, X, Q, e, x)
    BY <1>7 DEF Sees
  <2>2. Hears(v, X, Q, e, c)
    BY <2>1
  <2>3. Hears(v, X, Q, e, d)
    <3>1. dataMap[c.to].value \in {NoValue, v} /\ (c.to \in X <=> dataMap[c.to].value = v)
      BY <1>1, <1>2 DEF ReadsOK, X, Holders
    <3>2. c.to \in Q => c.to \in X
      BY <2>1 DEF Quorum
    <3> HIDE DEF X
    <3> QED BY <1>4, <2>2, <3>1, <3>2 DEF Hears
  <2>4. \A x \in D : x.req = r => Hears(v, X, Q, e, x)
    BY <2>1, <2>3
  <2> QED BY <1>6, <1>7, <2>1, <2>4 DEF Sees
<1>8. \A x \in D : x.kind = "put" => x.value = v
  BY <1>1, <1>2, <1>4 DEF ReadsOK
<1> HIDE DEF D, A, X
<1>9. ASSUME NEW q \in DOMAIN pendingRpcs, q # p, p \in history.began[q]
      PROVE  SameCalls(calls, D, q) \/ Sees(v, A, X, NumGetRequests, D, q, pendingRpcs[q])
  <2>1. Sees(v, A, X, NumGetRequests, calls, q, pendingRpcs[q])
    BY <1>1, <1>9 DEF ReadsOK, X
  <2> HIDE DEF r
  <2> QED BY <1>5, <1>7, <2>1
<1>10. /\ \A n \in Node : dataMap[n].value \in {NoValue, v} /\ (dataMap[n].value = v => dataMap[n].value = v)
       /\ \A n \in Node : <<p, n>> \in history.handled => dataMap[n].value = v
       /\ \A q \in DOMAIN history.began : history.began[q] \subseteq DOMAIN history.told
       /\ \A q \in DOMAIN history.told : p \in history.began[q] => history.told[q].value = v
  BY <1>1 DEF ReadsOK
<1>11. ReadsOK(p, v, A, NumGetRequests, dataMap, history, D, pendingRpcs)
  BY <1>1, <1>8, <1>9, <1>10, ReadMoves DEF X
<1> QED BY <1>3, <1>11 DEF ReadsNext, A

LEMMA ReadsStep ==
    ASSUME NEW p, NEW v, Alone(p, v), updates = {}, UNCHANGED <<scenario, members>>,
           HandleCAPIRequest \/ Handle
    PROVE  ReadsNext(p, v)
<1>1. CASE HandleCAPIRequest
  BY <1>1, ReadBegins
<1>2. ASSUME NEW c \in calls, HandleRpcTimeout(c)
      PROVE  FALSE
  <2>1. c.to \in Replicas /\ Replicas \in SUBSET members
    BY ReplicasOK DEF Alone, NoFailures
  <2> QED BY <1>2, <2>1 DEF HandleRpcTimeout
<1>3. CASE Handle
  <2>1. CASE \E r \in Open : HandleLookupResponse(r)
    BY <2>1, ReadLookup
  <2>2. CASE \E c \in calls : \/ HandlePutRequest(c) \/ HandleGetRequest(c)
                             \/ HandleRpcResponse(c) \/ HandleRpcTimeout(c)
    BY <1>2, <2>2, ReadPutRequest, ReadGetRequest, ReadResponse
  <2> QED BY <1>3, <2>1, <2>2 DEF Handle
<1> QED BY <1>1, <1>3

\* As long as all that was planned is left of the bounds, a put that is the only one is seen.
RInv == scenario = history.planned =>
            \A p \in Puts : Puts = {p} => ReadsNow(p, scenario.requests[p].value)

LEMMA ReadsInductive == IInv /\ FInv /\ RInv /\ [Next]_vars => RInv'
<1> SUFFICES ASSUME IInv, FInv, RInv, [Next]_vars
             PROVE  RInv'
  OBVIOUS
<1>1. CASE UNCHANGED vars
  <2>1. /\ Puts' = Puts /\ Replicas' = Replicas /\ NumGetRequests' = NumGetRequests
        /\ UNCHANGED <<scenario, dataMap, history, calls, pendingRpcs>>
    BY <1>1 DEF vars, Puts, Requests, IsPut, Replicas, Siblings, Closer, NumReplica, NumGetRequests
  <2>2. ASSUME NEW p, NEW v, ReadsNow(p, v)
        PROVE  ReadsNow(p, v)'
    BY <2>1, <2>2 DEF ReadsNow
  <2> QED BY <2>1, <2>2 DEF RInv
<1>2. CASE Next
  <2>1. CASE UsesBound(scenario, scenario') /\ history'.planned = history.planned
    BY <2>1, BoundIsGone DEF FInv, IInv, RInv
  <2>2. CASE /\ UNCHANGED <<scenario, members>> /\ (HandleCAPIRequest \/ Handle)
             /\ history'.planned = history.planned
    <3>1. Puts' = Puts /\ Replicas' = Replicas /\ NumGetRequests' = NumGetRequests
      BY <2>2 DEF Puts, Requests, IsPut, Replicas, Siblings, Closer, NumReplica, NumGetRequests
    <3>2. ASSUME NEW p \in Puts, Puts = {p}, scenario = history.planned
          PROVE  ReadsNext(p, scenario.requests[p].value)
      <4>1. Alone(p, scenario.requests[p].value) /\ updates = {}
        BY <3>2 DEF Alone, IInv, FInv, Fine, RInv
      <4> QED BY <2>2, <4>1, ReadsStep
    <3>3. ASSUME NEW p, NEW v, ReadsNext(p, v)
          PROVE  ReadsNow(p, v)'
      BY <3>1, <3>3 DEF ReadsNow, ReadsNext
    <3> QED BY <2>2, <3>1, <3>2, <3>3 DEF RInv
  <2> QED BY <1>2, <2>1, <2>2, BoundOrNot DEF PlanKept
<1> QED BY <1>1, <1>2

LEMMA ReadsInitially == Init => RInv
<1> SUFFICES ASSUME Init
             PROVE  RInv
  OBVIOUS
<1>1. /\ calls = {} /\ DOMAIN pendingRpcs = {} /\ DOMAIN history.told = {} /\ DOMAIN history.began = {}
      /\ history.handled = {} /\ \A n \in Node : dataMap[n].value = NoValue
  BY DEF Init, Nothing
<1> QED
  BY <1>1 DEF RInv, ReadsNow, ReadsOK

\* A get that begins after the only put was acknowledged returns its value, though some replicas may not
\* have handled it yet: the siblings that have are most of them, the vote of handleGetResponse() cannot
\* be won without one of theirs, and the value is asked for where the hash was that of the put.
THEOREM ReadersSeeWrites == Spec => []ReadsSeeWrites
<1>1. Spec => [](FInv /\ RInv)
  BY Initially, Inductive, FineInitially, FineInductive, ReadsInitially, ReadsInductive, PTL DEF Spec
<1>2. RInv => ReadsSeeWrites
  BY DEF RInv, ReadsNow, ReadsOK, ReadsSeeWrites, Undisturbed, WasTold
<1> QED
  BY <1>1, <1>2, PTL

(***************************************************************************)
(* What maintenance restores                                               *)
(***************************************************************************)
\* The siblings are the members with the lowest ranks, and the last of them has the highest.
SiblingRanks ==
    LET last == Last(Siblings(NumReplica))
    IN  /\ Replicas = {n \in members : Cardinality(Closer(n)) < NumReplica}
        /\ last \in Replicas
        /\ \A n \in Replicas : n <= last /\ (n = last \/ Cardinality(Closer(n)) + 1 < NumReplica)
        /\ \A n \in members : IsFiniteSet(Closer(n)) /\ Cardinality(Closer(n)) \in Nat

LEMMA RanksOfSiblings == scenario \in Scenario /\ MembersOK => SiblingRanks
<1> SUFFICES ASSUME scenario \in Scenario, MembersOK
             PROVE  SiblingRanks
  OBVIOUS
<1> DEFINE s == Siblings(NumReplica)
           k == NumReplica
           l == Min({k, Cardinality(members)})
           S(i) == CHOOSE n \in members : Cardinality(Closer(n)) = i - 1
           f == [i \in 1 .. l |-> S(i)]
<1>1. members \in SUBSET Nat /\ IsFiniteSet(members) /\ members # {}
  BY DHTAssumption DEF MembersOK
<1>2. k \in Nat \ {0} /\ Cardinality(members) \in Nat \ {0}
  <2>1. k \in Nat \ {0}
    BY DEF NumReplica, Scenario
  <2> QED BY <1>1, <2>1, FS_EmptySet, FS_CardinalityType
<1>3. l \in {k, Cardinality(members)} /\ l <= k /\ l <= Cardinality(members)
  <2> HIDE DEF k
  <2> QED BY <1>2, MinIsMember
<1>4. l \in Nat \ {0}
  BY <1>2, <1>3
<1>5. f = s
  BY DEF Siblings
<1> HIDE DEF l, k
<1>6. ASSUME NEW i \in 1 .. l
      PROVE  S(i) \in members /\ Cardinality(Closer(S(i))) = i - 1
  <2>1. i - 1 \in Nat /\ i - 1 < Cardinality(members)
    BY <1>2, <1>3, <1>4
  <2>2. \E n \in members : Cardinality(Closer(n)) = i - 1
    BY <1>1, <2>1, EveryRank
  <2> QED BY <2>2
<1>7. \A n \in members : /\ IsFiniteSet(Closer(n)) /\ Cardinality(Closer(n)) \in Nat
                         /\ Cardinality(Closer(n)) < Cardinality(members)
  BY <1>1, Ranks
<1>8. \A n, m \in members : m < n => Cardinality(Closer(m)) < Cardinality(Closer(n))
  BY <1>1, Ranks
<1>9. \A n, m \in members : Cardinality(Closer(m)) = Cardinality(Closer(n)) => m = n
  BY <1>1, <1>7, <1>8
<1> HIDE DEF S
<1>10. Range(f) = {S(i) : i \in 1 .. l}
  BY DEF Range
<1>11. Range(f) = {n \in members : Cardinality(Closer(n)) < l}
  <2>1. ASSUME NEW i \in 1 .. l
        PROVE  S(i) \in members /\ Cardinality(Closer(S(i))) < l
    BY <1>4, <1>6
  <2>2. ASSUME NEW n \in members, Cardinality(Closer(n)) < l
        PROVE  n \in Range(f)
    <3> DEFINE i == Cardinality(Closer(n)) + 1
    <3>1. i \in 1 .. l /\ i - 1 = Cardinality(Closer(n))
      BY <1>4, <1>7, <2>2
    <3>2. S(i) = n
      <4> HIDE DEF i
      <4> QED BY <1>6, <1>9, <3>1
    <3> QED BY <1>10, <3>1, <3>2
  <2> QED BY <1>10, <2>1, <2>2
<1>12. Range(f) = {n \in members : Cardinality(Closer(n)) < k}
  <2>1. \A n \in members : Cardinality(Closer(n)) < l <=> Cardinality(Closer(n)) < k
    BY <1>2, <1>3, <1>7
  <2> QED BY <1>11, <2>1
<1>13. s = f /\ Last(s) = S(l)
  <2>1. DOMAIN s = 1 .. l /\ s[l] = S(l)
    BY <1>4, <1>5
  <2>2. s \in Seq(members)
    BY <1>1, <1>2, SiblingsAreMembers DEF k
  <2> HIDE DEF s, f
  <2>3. Len(s) = l
    BY <1>4, <2>1, <2>2, LenProperties
  <2> QED BY <1>5, <2>1, <2>3 DEF Last
<1>14. S(l) \in members /\ Cardinality(Closer(S(l))) = l - 1
  BY <1>4, <1>6
<1> HIDE DEF f, s
<1> DEFINE last == S(l)
           R(n) == Cardinality(Closer(n))
<1>15. last \in members /\ R(last) = l - 1
  BY <1>14
<1> HIDE DEF last
<1>16. ASSUME NEW n \in Range(f)
       PROVE  n <= last /\ (n = last \/ R(n) + 1 < k)
  <2>1. n \in members /\ R(n) < l /\ R(n) \in Nat /\ n \in Nat /\ last \in Nat
    BY <1>1, <1>7, <1>11, <1>15
  <2>2. (last < n => R(last) < R(n)) /\ (n < last => R(n) < R(last))
    BY <1>8, <1>15, <2>1
  <2> HIDE DEF R
  <2>3. ~(last < n)
    BY <1>4, <1>15, <2>1, <2>2
  <2>4. n < last => R(n) + 1 < l
    BY <1>4, <1>15, <2>1, <2>2
  <2>5. n < last \/ n = last
    BY <2>1, <2>3
  <2>6. l \in Nat /\ k \in Nat /\ l <= k
    BY <1>2, <1>3, <1>4
  <2> QED BY <2>1, <2>4, <2>5, <2>6
<1>17. last \in Range(f)
  BY <1>4, <1>10 DEF last
<1>18. s = f /\ Last(s) = last
  BY <1>13 DEF last
<1> QED
  BY <1>7, <1>12, <1>16, <1>17, <1>18 DEF SiblingRanks, Replicas, s, k, R

\* Puts that a node has not handled yet.
Sent == {c \in calls : c.kind = "put" /\ ~c.answered}

\* When update u comes, its node sends the item to node n.
PassesOn(u, n) ==
    /\ Stores(u[1]) /\ dataMap[u[1]].responsible
    /\ n \in Receivers(u[2], u[3])
    /\ \A c \in Sent : c.to # u[1]

\* Node n has value v, or will get it.
Covered(n, v) ==
    \/ dataMap[n].value = v
    \/ \E c \in Sent : c.to = n
    \/ \E u \in updates : PassesOn(u, n)

\* Value v of put p, which is the only one, is or will be at all siblings of the key, and no other
\* value is anywhere.  All updates to come are about the same change, as changes wait for them.
Maintained(p, v) ==
    /\ \A n \in Node : dataMap[n].value \in {NoValue, v}
    /\ \A n \in Node : Stores(n) => DOMAIN dataMap[n].votes \subseteq {v}
    /\ \A c \in Sent : c.value = v /\ c.to \in members
    /\ \A u \in updates : u[1] # u[2] /\ (u[3] => u[2] \in members)
    /\ \A u, w \in updates : u[2] = w[2] /\ u[3] = w[3]
    /\ p \in DOMAIN history.asked => \A n \in Replicas : Covered(n, v)
    /\ p \notin DOMAIN history.asked => Sent = {} /\ \A n \in Node : dataMap[n].value = NoValue

\* What is known of the table while changes wait for maintenance and p is the only put.
OnePut(p, v) ==
    /\ IInv
    /\ scenario.calm /\ Puts = {p} /\ v = scenario.requests[p].value
    /\ Maintained(p, v)

LEMMA SentGoesOn ==
    ASSUME NEW p, NEW v, Maintained(p, v), UNCHANGED <<scenario, members, dataMap, updates>>,
           Sent' = Sent, p \in DOMAIN history'.asked <=> p \in DOMAIN history.asked
    PROVE  Maintained(p, v)'
<1>1. Replicas' = Replicas /\ Last(Siblings(NumReplica))' = Last(Siblings(NumReplica))
  BY DEF Replicas, Siblings, Closer, NumReplica
<1>2. \A u, n : PassesOn(u, n) => PassesOn(u, n)'
  <2>1. \A m, j : Receivers(m, j)' = Receivers(m, j)
    BY <1>1 DEF Receivers, IsSiblingFor, Replicas, Siblings, Closer, NumReplica
  <2>2. \A n : Stores(n)' <=> Stores(n)
    BY DEF Stores
  <2> QED BY <2>1, <2>2 DEF PassesOn
<1>3. \A n \in Replicas : Covered(n, v) => Covered(n, v)'
  BY <1>2 DEF Covered
<1>4. \A n : Stores(n)' <=> Stores(n)
  BY DEF Stores
<1> QED
  BY <1>1, <1>3, <1>4 DEF Maintained

\* Calls of a get are added, and a call that is not a put to come ends.
GoesOn(c) ==
    /\ calls \ {c} \subseteq calls'
    /\ \A d \in calls' : d \in calls \/ d.kind # "put"
    /\ history'.asked = history.asked

LEMMA CallGoesOn ==
    ASSUME NEW c, GoesOn(c), c \notin Sent
    PROVE  Sent' = Sent /\ history'.asked = history.asked
BY DEF GoesOn, Sent

LEMMA AskedStays ==
    ASSUME NEW H, IsHistory(H), NEW x
    PROVE  /\ [H EXCEPT !.told = x].asked = H.asked
           /\ [H EXCEPT !.began = x].asked = H.asked
           /\ [H EXCEPT !.handled = x].asked = H.asked
           /\ [H EXCEPT !.guarded = x].asked = H.asked
<1>1. \A a, b, c, d, e, f : LET R == [told |-> a, began |-> b, asked |-> c, handled |-> d,
                                      guarded |-> e, planned |-> f]
      IN  /\ [R EXCEPT !.told = x].asked = R.asked
          /\ [R EXCEPT !.began = x].asked = R.asked
          /\ [R EXCEPT !.handled = x].asked = R.asked
          /\ [R EXCEPT !.guarded = x].asked = R.asked
  OBVIOUS
<1> QED
  BY <1>1 DEF IsHistory

\* An answer or a timeout at the client sends no put.
LEMMA ClientGoesOn ==
    ASSUME IInv, NEW c \in calls, TimesOut(c) \/ HandleRpcResponse(c)
    PROVE  GoesOn(c)
<1>0. IsHistory(history)
  BY DEF IInv, ClientOK, HistoryOK
<1>1. ASSUME NEW r, NEW answer, Tell(r, answer)
      PROVE  history'.asked = history.asked
  <2>1. history' = [history EXCEPT !.told = With(history.told, r, answer)]
    BY <1>1 DEF Tell
  <2> QED BY <1>0, <2>1, AskedStays
<1>2. ASSUME NEW r, NEW e, Keep(r, e)
      PROVE  history'.asked = history.asked
  BY <1>2 DEF Keep
<1>3. ASSUME NEW r, NEW e
      PROVE  ValueCall(r, e).kind # "put" /\ HashCall(r, e).kind # "put"
  BY DEF ValueCall, HashCall, RequestCall, Call
<1>4. ASSUME calls' = calls \ {c}, history'.asked = history.asked
      PROVE  GoesOn(c)
  BY <1>4 DEF GoesOn
<1>5. ASSUME NEW r, NEW e, history'.asked = history.asked,
             calls' = (calls \ {c}) \cup {ValueCall(r, e)} \/ calls' = (calls \ {c}) \cup {HashCall(r, e)}
      PROVE  GoesOn(c)
  <2> DEFINE x == ValueCall(r, e)
             y == HashCall(r, e)
  <2>1. x.kind # "put" /\ y.kind # "put"
    BY <1>3
  <2> HIDE DEF x, y
  <2>2. calls' = (calls \ {c}) \cup {x} \/ calls' = (calls \ {c}) \cup {y}
    BY <1>5 DEF x, y
  <2> QED BY <1>5, <2>1, <2>2 DEF GoesOn
<1>6. ASSUME NEW r, NEW e, NEW rest, Decide(r, e, rest)
      PROVE  history'.asked = history.asked /\ (calls' = rest \/ calls' = rest \cup {ValueCall(r, e)})
  BY <1>1, <1>2, <1>6 DEF Decide, Fail
<1>7. ASSUME NEW r, NEW e, Decide(r, e, calls \ {c})
      PROVE  GoesOn(c)
  BY <1>4, <1>5, <1>6, <1>7
<1>8. ASSUME NEW r, NEW d, NEW e, Decide(r, d, (calls \ {c}) \cup {HashCall(r, e)})
      PROVE  GoesOn(c)
  <2> DEFINE x == ValueCall(r, d)
             y == HashCall(r, e)
             rest == (calls \ {c}) \cup {y}
  <2>1. x.kind # "put" /\ y.kind # "put"
    BY <1>3
  <2>2. history'.asked = history.asked /\ (calls' = rest \/ calls' = rest \cup {x})
    BY <1>6, <1>8
  <2> HIDE DEF x, y
  <2> QED BY <2>1, <2>2 DEF GoesOn
<1>9. CASE TimesOut(c)
  <2>1. CASE c.req \notin Open
    BY <1>4, <1>9, <2>1 DEF TimesOut
  <2>2. CASE c.req \in Open /\ c.kind = "put"
    BY <1>1, <1>2, <1>4, <1>9, <2>2 DEF TimesOut, HandlePutTimeout, Fail
  <2>3. CASE c.req \in Open /\ c.kind # "put"
    <3>1. HandleGetTimeout(c.req, c)
      BY <1>9, <2>3 DEF TimesOut
    <3> QED BY <1>1, <1>2, <1>4, <1>5, <3>1 DEF HandleGetTimeout, Fail
  <2> QED BY <2>1, <2>2, <2>3
<1>10. CASE HandleRpcResponse(c)
  <2>1. CASE c.req \notin Open
    BY <1>4, <1>10, <2>1 DEF HandleRpcResponse
  <2>2. CASE c.req \in Open
    <3>1. c.kind \in {"put", "hash", "value"}
      BY DEF IInv, ClientOK, CallsOK, CallOK, CallSet
    <3>2. CASE c.kind = "put"
      <4>1. HandlePutResponse(c.req, c)
        BY <1>10, <2>2, <3>2 DEF HandleRpcResponse
      <4> QED BY <1>1, <1>2, <1>4, <4>1 DEF HandlePutResponse
    <3>3. CASE c.kind = "hash"
      <4>1. HandleHash(c.req, c)
        BY <1>10, <2>2, <3>3 DEF HandleRpcResponse
      <4> QED BY <1>2, <1>4, <1>7, <1>8, <4>1 DEF HandleHash
    <3>4. CASE c.kind = "value"
      <4>1. HandleValue(c.req, c)
        BY <1>10, <2>2, <3>4 DEF HandleRpcResponse
      <4> QED BY <1>1, <1>4, <1>7, <4>1 DEF HandleValue
    <3> QED BY <3>1, <3>2, <3>3, <3>4
  <2> QED BY <2>1, <2>2
<1> QED BY <1>9, <1>10

\* A get reads, or an answer or a timeout is handled: the puts to come are the same.
LEMMA KeptByClient ==
    ASSUME NEW p, NEW v, OnePut(p, v),
           \/ HandleCAPIRequest
           \/ \E c \in calls : HandleGetRequest(c) \/ HandleRpcResponse(c) \/ HandleRpcTimeout(c)
    PROVE  Maintained(p, v)'
<1>0. IsHistory(history)
  BY DEF OnePut, IInv, ClientOK, HistoryOK
<1>1. CASE HandleCAPIRequest
  <2> DEFINE r == Cardinality(DOMAIN history.began) + 1
  <2>1. history' = [history EXCEPT !.began = With(history.began, r, DOMAIN history.told)]
    BY <1>1 DEF HandleCAPIRequest
  <2>2. history'.asked = history.asked
    BY <1>0, <2>1, AskedStays
  <2>3. UNCHANGED <<scenario, members, dataMap, updates>> /\ Sent' = Sent
    BY <1>1 DEF HandleCAPIRequest, Sent
  <2> QED BY <2>2, <2>3, SentGoesOn DEF OnePut
<1>2. ASSUME NEW c \in calls, HandleGetRequest(c)
      PROVE  Maintained(p, v)'
  <2> DEFINE d == [c EXCEPT !.answered = TRUE, !.value = dataMap[c.to].value]
  <2>1. c \in CallSet /\ c.kind # "put"
    BY <1>2 DEF HandleGetRequest, OnePut, IInv, ClientOK, CallsOK, CallOK
  <2>2. d.kind = c.kind
    BY <2>1 DEF CallSet
  <2>3. calls' = (calls \ {c}) \cup {d} /\ UNCHANGED <<scenario, members, dataMap, updates, history>>
    BY <1>2 DEF HandleGetRequest
  <2> HIDE DEF d
  <2>4. Sent' = Sent
    BY <2>1, <2>2, <2>3 DEF Sent
  <2> QED BY <2>3, <2>4, SentGoesOn DEF OnePut
<1>3. ASSUME NEW c \in calls, HandleRpcResponse(c) \/ HandleRpcTimeout(c)
      PROVE  Maintained(p, v)'
  <2>1. GoesOn(c)
    BY <1>3, ClientGoesOn DEF OnePut, HandleRpcTimeout
  <2>2. c \notin Sent
    BY <1>3 DEF HandleRpcResponse, HandleRpcTimeout, Sent, OnePut, Maintained
  <2>3. UNCHANGED <<scenario, members, dataMap, updates>>
    BY <1>3 DEF HandleRpcResponse, HandleRpcTimeout
  <2> QED BY <2>1, <2>2, <2>3, CallGoesOn, SentGoesOn DEF OnePut
<1> QED BY <1>1, <1>2, <1>3

\* The put is sent to all siblings, when nobody has the item.
LEMMA KeptByLookup ==
    ASSUME NEW p, NEW v, OnePut(p, v), NEW r \in Open, HandleLookupResponse(r), scenario' = scenario
    PROVE  Maintained(p, v)'
<1> DEFINE s == Siblings(NumReplica)
           G == [history EXCEPT !.asked = With(history.asked, r, Range(s))]
<1>1. scenario.invalid > 0 => scenario # [scenario EXCEPT !.invalid = @ - 1]
  <2>1. scenario.invalid \in Nat
    BY DEF OnePut, IInv, Scenario
  <2>2. scenario' = scenario
    OBVIOUS
  <2>3. scenario = [scenario EXCEPT !.invalid = @ - 1] => scenario.invalid = scenario.invalid - 1
    BY DEF OnePut, IInv, Scenario
  <2> QED BY <2>1, <2>3
<1>2. /\ IF scenario.requests[r].type = "put" THEN PutToSiblings(r, pendingRpcs[r], s)
                                               ELSE GetHashes(r, pendingRpcs[r], s)
      /\ history' = G
      /\ UNCHANGED <<scenario, members, dataMap, updates>>
  BY <1>1 DEF HandleLookupResponse
<1>3. DOMAIN history'.asked = DOMAIN history.asked \cup {r}
  <2> DEFINE x == With(history.asked, r, Range(s))
  <2>1. IsHistory(history)
    BY DEF OnePut, IInv, ClientOK, HistoryOK
  <2>2. DOMAIN x = DOMAIN history.asked \cup {r}
    BY DEF With
  <2> HIDE DEF x
  <2>3. SameBut(history, [history EXCEPT !.asked = x], history.told, history.began, x, history.handled)
    BY <2>1, HistoryFields
  <2>4. history' = [history EXCEPT !.asked = x]
    BY <1>2 DEF x
  <2> QED BY <2>2, <2>3, <2>4 DEF SameBut
<1>4. r \notin DOMAIN history.asked /\ (scenario.requests[r].type = "put" <=> r = p)
  <2>1. RequestOK(scenario, history, Waiting(calls, r), r, pendingRpcs[r])
    BY DEF OnePut, IInv, ClientOK, Open
  <2>2. r \notin DOMAIN history.asked
    BY <2>1 DEF RequestOK, HandleLookupResponse
  <2>3. PICK k \in 0 .. Len(scenario.requests) : DOMAIN history.began = 1 .. k
    BY DEF OnePut, IInv, ClientOK, HistoryOK
  <2>4. Len(scenario.requests) \in Nat
    BY LenProperties DEF OnePut, IInv, Scenario
  <2>5. r \in 1 .. k
    BY <2>3 DEF OnePut, IInv, ClientOK, HistoryOK, Open
  <2>6. r \in Requests
    BY <2>3, <2>4, <2>5 DEF Requests
  <2> QED BY <2>2, <2>6 DEF OnePut, Puts, IsPut
<1>5. CASE scenario.requests[r].type # "put"
  <2> DEFINE first == SubSeq(s, 1, Min({NumGetRequests, Len(s)}))
  <2>1. calls' = calls \cup {RequestCall(r, "hash", n, NoValue) : n \in Range(first)}
    BY <1>2, <1>5 DEF GetHashes
  <2>2. \A n : RequestCall(r, "hash", n, NoValue).kind = "hash"
    BY DEF RequestCall, Call
  <2> HIDE DEF first
  <2>3. \A d \in calls' : d \in calls \/ d.kind = "hash"
    BY <2>1, <2>2
  <2>4. Sent' = Sent
    BY <2>1, <2>3 DEF Sent
  <2>5. p \in DOMAIN history'.asked <=> p \in DOMAIN history.asked
    BY <1>3, <1>4, <1>5
  <2> QED BY <1>2, <2>4, <2>5, SentGoesOn DEF OnePut
<1>6. CASE scenario.requests[r].type = "put"
  <2> DEFINE new == {RequestCall(p, "put", n, v) : n \in Replicas}
  <2>1. calls' = calls \cup new
    BY <1>2, <1>4, <1>6 DEF PutToSiblings, OnePut, Replicas
  <2>2. \A n \in Replicas : LET c == RequestCall(p, "put", n, v)
                            IN  c.kind = "put" /\ ~c.answered /\ c.to = n /\ c.value = v
    BY DEF RequestCall, Call
  <2>3. Sent = {} /\ \A n \in Node : dataMap[n].value = NoValue
    BY <1>4, <1>6 DEF OnePut, Maintained
  <2>4. \A c \in new : c.kind = "put" /\ ~c.answered /\ c.to \in Replicas /\ c.value = v
    BY <2>2
  <2>5. \A n \in Replicas : \E c \in new : c.to = n
    BY <2>2
  <2> HIDE DEF new
  <2>6. Sent' = new
    BY <2>1, <2>3, <2>4 DEF Sent
  <2>7. Replicas' = Replicas /\ Replicas \in SUBSET members
    <3>1. Replicas' = Replicas
      BY <1>2 DEF Replicas, Siblings, Closer, NumReplica
    <3>2. Replicas \in SUBSET members
      BY LookedUp DEF OnePut, IInv, Replicas
    <3> QED BY <3>1, <3>2
  <2>8. \A n \in Replicas : Covered(n, v)'
    BY <2>5, <2>6 DEF Covered
  <2>9. p \in DOMAIN history'.asked
    BY <1>3, <1>4, <1>6
  <2>10. \A c \in Sent' : c.value = v /\ c.to \in members'
    BY <1>2, <2>4, <2>6, <2>7
  <2>11. \A n : Stores(n)' <=> Stores(n)
    BY <1>2 DEF Stores
  <2> QED BY <1>2, <2>7, <2>8, <2>9, <2>10, <2>11 DEF Maintained, OnePut
<1> QED BY <1>5, <1>6

\* What a put or a maintenance call leaves at the node it reaches.
LEMMA PutReaches ==
    ASSUME NEW p, NEW v, OnePut(p, v), NEW c \in calls, HandlePutRequest(c)
    PROVE  LET n == c.to
           IN  /\ dataMap'[n].value = v
               /\ Stores(n)' => DOMAIN dataMap'[n].votes \subseteq {v}
               /\ \A m \in Node : m # n => dataMap'[m] = dataMap[m]
<1> DEFINE n == c.to
<1>1. /\ c \in Sent /\ c.value = v /\ n \in Node /\ c.src \in Node
      /\ c.req = 0 => v \in Value
  <2>1. CallOK(scenario, history, c) /\ c \in Sent
    BY DEF OnePut, IInv, ClientOK, CallsOK, HandlePutRequest, Sent
  <2>2. c.value = v
    BY <2>1 DEF OnePut, Maintained
  <2> QED BY <2>1, <2>2 DEF CallOK, CallSet
<1>2. /\ dataMap \in [Node -> EntrySet \cup {Nothing}]
      /\ \A m \in Node : dataMap[m].value \in {NoValue, v}
      /\ \A m \in Node : Stores(m) => DOMAIN dataMap[m].votes \subseteq {v}
  BY DEF OnePut, IInv, DataOK, Maintained
<1>3. DOMAIN NoVotes = {}
  BY DEF NoVotes
<1>4. CASE dataMap' = dataMap /\ IgnoresMaintenance(n)
  <2>1. Stores(n) /\ dataMap[n] \in EntrySet
    BY <1>1, <1>2, <1>4 DEF IgnoresMaintenance, Stores
  <2>2. dataMap[n].value # NoValue
    BY <2>1, EntryIsNotNothing, StoredAreNumbers
  <2>3. Stores(n)' <=> Stores(n)
    BY <1>4 DEF Stores
  <2> QED BY <1>1, <1>2, <1>4, <2>1, <2>2, <2>3
<1>5. CASE dataMap' = [dataMap EXCEPT ![n] = Store(n, c)]
  <2>1. dataMap'[n] = Store(n, c)
    BY <1>1, <1>2, <1>5
  <2>2. Store(n, c).value = v /\ (Store(n, c) # Nothing => DOMAIN Store(n, c).votes = {})
    BY <1>1, <1>3 DEF Store, Entry, Nothing
  <2>3. Stores(n)' <=> dataMap'[n] # Nothing
    BY DEF Stores
  <2> QED BY <1>1, <1>2, <1>5, <2>1, <2>2, <2>3
<1>6. CASE c.req = 0 /\ dataMap' = [dataMap EXCEPT ![n] = Vote(n, c)]
  <2> DEFINE e     == IF Stores(n) THEN dataMap[n] ELSE Entry(c.value, IsSiblingFor(n, NumReplica))
             was   == IF c.value \in DOMAIN e.votes THEN e.votes[c.value] ELSE {}
             some  == was \cup {c.src}
             votes == With(e.votes, c.value, some)
             x     == Majority(votes)
             left  == IF Cardinality(votes[x]) > NumReplica THEN NoVotes ELSE votes
  <2>1. e \in EntrySet /\ DOMAIN e.votes \subseteq {v}
    <3>1. CASE Stores(n)
      BY <1>1, <1>2, <3>1 DEF Stores
    <3>2. CASE ~Stores(n)
      <4>1. IsSiblingFor(n, NumReplica) \in BOOLEAN
        BY DEF IsSiblingFor
      <4>2. Entry(c.value, IsSiblingFor(n, NumReplica)).votes = NoVotes
        BY DEF Entry
      <4> HIDE DEF IsSiblingFor
      <4> QED BY <1>1, <1>3, <1>6, <3>2, <4>1, <4>2, EntryOK
    <3> QED BY <3>1, <3>2
  <2> HIDE DEF e
  <2>2. IsFiniteSet(was)
    BY <2>1, VotesOfEntry, FS_EmptySet
  <2> HIDE DEF was
  <2>3. IsFiniteSet(some)
    BY <2>2, FS_AddElement
  <2> HIDE DEF some
  <2>4. DOMAIN votes = {v} /\ votes[v] = some
    BY <1>1, <2>1 DEF With
  <2> HIDE DEF votes
  <2>5. x = v
    <3>1. IsFiniteSet({v})
      BY FS_EmptySet, FS_AddElement
    <3>2. x \in DOMAIN votes
      BY <1>1, <1>6, <2>3, <2>4, <3>1, MajorityOK
    <3> QED BY <2>4, <3>2
  <2> HIDE DEF x
  <2>6. DOMAIN left \subseteq {v}
    BY <1>3, <2>4
  <2> HIDE DEF left
  <2>7. Vote(n, c) = [value |-> x, responsible |-> TRUE, votes |-> left]
    BY DEF Vote, left, x, votes, some, was, e
  <2>8. Vote(n, c).value = v /\ Vote(n, c).votes = left
    BY <2>5, <2>7
  <2>9. dataMap'[n] = Vote(n, c)
    BY <1>1, <1>2, <1>6
  <2> QED BY <1>1, <1>2, <1>6, <2>6, <2>8, <2>9
<1> QED
  BY <1>4, <1>5, <1>6 DEF HandlePutRequest

\* A put reaches a node: that one has the item now, and passes nothing on for others.
LEMMA KeptByPut ==
    ASSUME NEW p, NEW v, OnePut(p, v), NEW c \in calls, HandlePutRequest(c)
    PROVE  Maintained(p, v)'
<1>1. /\ dataMap'[c.to].value = v
      /\ Stores(c.to)' => DOMAIN dataMap'[c.to].votes \subseteq {v}
      /\ \A m \in Node : m # c.to => dataMap'[m] = dataMap[m]
  BY PutReaches
<1>2. c \in Sent /\ c.to \in Node /\ c \in CallSet
  BY DEF OnePut, IInv, ClientOK, CallsOK, CallOK, CallSet, HandlePutRequest, Sent
<1>3. UNCHANGED <<scenario, members, updates>>
  BY DEF HandlePutRequest
<1>4. Sent' = Sent \ {c}
  <2>1. CASE c.req = 0
    <3>1. calls' = calls \ {c}
      BY <2>1 DEF HandlePutRequest
    <3> QED BY <3>1 DEF Sent
  <2>2. CASE c.req # 0
    <3> DEFINE d == [c EXCEPT !.answered = TRUE]
    <3>1. calls' = (calls \ {c}) \cup {d}
      BY <2>2 DEF HandlePutRequest
    <3>2. d.answered = TRUE
      BY <1>2 DEF CallSet
    <3> HIDE DEF d
    <3> QED BY <3>1, <3>2 DEF Sent
  <2> QED BY <2>1, <2>2
<1>5. history'.asked = history.asked
  <2> DEFINE x == IF c.req = 0 THEN history.handled ELSE history.handled \cup {<<c.req, c.to>>}
  <2>1. IsHistory(history)
    BY DEF OnePut, IInv, ClientOK, HistoryOK
  <2>2. history' = [history EXCEPT !.handled = x]
    BY DEF HandlePutRequest
  <2> HIDE DEF x
  <2> QED BY <2>1, <2>2, AskedStays
<1>6. p \in DOMAIN history.asked
  BY <1>2 DEF OnePut, Maintained
<1>7. Replicas' = Replicas /\ Replicas \in SUBSET Node
  <2>1. Replicas' = Replicas
    BY <1>3 DEF Replicas, Siblings, Closer, NumReplica
  <2>2. Replicas \in SUBSET members
    BY LookedUp DEF OnePut, IInv, Replicas
  <2> QED BY <2>1, <2>2 DEF OnePut, IInv, MembersOK
<1>8. ASSUME NEW u \in updates, NEW n, PassesOn(u, n)
      PROVE  PassesOn(u, n)'
  <2>1. u[1] # c.to /\ u[1] \in Node
    BY <1>2, <1>8 DEF PassesOn, OnePut, IInv
  <2>2. dataMap'[u[1]] = dataMap[u[1]]
    BY <1>1, <2>1
  <2>3. Receivers(u[2], u[3])' = Receivers(u[2], u[3])
    BY <1>3 DEF Receivers, IsSiblingFor, Siblings, Closer, NumReplica
  <2> QED BY <1>4, <1>8, <2>2, <2>3 DEF PassesOn, Stores
<1>9. ASSUME NEW n \in Replicas
      PROVE  Covered(n, v)'
  <2>1. Covered(n, v) /\ n \in Node
    BY <1>6, <1>7 DEF OnePut, Maintained
  <2>2. CASE n = c.to
    BY <1>1, <2>2 DEF Covered
  <2>3. CASE n # c.to
    <3>1. dataMap'[n] = dataMap[n]
      BY <1>1, <2>1, <2>3
    <3>2. CASE \E d \in Sent : d.to = n
      BY <1>4, <2>3, <3>2 DEF Covered
    <3>3. CASE \E u \in updates : PassesOn(u, n)
      BY <1>3, <1>8, <3>3 DEF Covered
    <3> QED BY <2>1, <3>1, <3>2, <3>3 DEF Covered
  <2> QED BY <2>2, <2>3
<1>10. \A n \in Node : dataMap'[n].value \in {NoValue, v}
  BY <1>1 DEF OnePut, Maintained
<1>11. \A n \in Node : Stores(n)' => DOMAIN dataMap'[n].votes \subseteq {v}
  BY <1>1 DEF OnePut, Maintained, Stores
<1> QED
  BY <1>3, <1>4, <1>5, <1>6, <1>7, <1>9, <1>10, <1>11 DEF Maintained, OnePut

\* The nodes that an update of one of the nodes sends the item to are members.
LEMMA ReceiversAreMembers ==
    ASSUME IInv, NEW node, NEW joined \in BOOLEAN, joined => node \in members
    PROVE  Receivers(node, joined) \in SUBSET members
<1> DEFINE last == Last(Siblings(NumReplica))
<1>1. last \in members
  BY LookedUp DEF IInv
<1>2. scenario.secure \in BOOLEAN
  BY DEF IInv, Scenario
<1>3. CASE scenario.secure /\ joined
  <2>1. Receivers(node, joined) = {m \in {node} : m <= last}
    BY <1>3 DEF Receivers
  <2> QED BY <1>3, <2>1
<1>4. CASE scenario.secure /\ ~joined
  <2>1. Receivers(node, joined) = {m \in {last} : node < last}
    BY <1>4 DEF Receivers
  <2> HIDE DEF last
  <2> QED BY <1>1, <2>1
<1>5. CASE ~scenario.secure
  <2>1. Receivers(node, joined) = {m \in {node} : joined /\ IsSiblingFor(m, NumReplica)}
    BY <1>5 DEF Receivers
  <2> QED BY <1>5, <2>1
<1> QED BY <1>2, <1>3, <1>4, <1>5

\* What one node passes on or not, the others do not have to: they would call the same nodes.
LEMMA KeptByUpdate ==
    ASSUME NEW p, NEW v, OnePut(p, v), NEW u \in updates, Update(u)
    PROVE  Maintained(p, v)'
<1> DEFINE n == u[1]
           node == u[2]
           joined == u[3]
           e == dataMap[n]
           to == Receivers(node, joined)
           Sends == Stores(n) /\ e.responsible
<1>1. n \in Node /\ node \in Node /\ joined \in BOOLEAN
  BY DEF OnePut, IInv
<1>2. UNCHANGED <<scenario, members, history>> /\ updates' = updates \ {u}
  BY DEF Update
<1>3. \A w \in updates : w = <<w[1], w[2], w[3]>> /\ w[2] = node /\ w[3] = joined
  BY DEF OnePut, IInv, Maintained
<1>4. \A w \in updates' : w[1] # n
  BY <1>2, <1>3
<1>5. \A m, j : Receivers(m, j)' = Receivers(m, j)
  BY <1>2 DEF Receivers, IsSiblingFor, Siblings, Closer, NumReplica
<1>6. Replicas' = Replicas /\ Replicas \in SUBSET Node
  <2>1. Replicas' = Replicas
    BY <1>2 DEF Replicas, Siblings, Closer, NumReplica
  <2>2. Replicas \in SUBSET members
    BY LookedUp DEF OnePut, IInv, Replicas
  <2> QED BY <2>1, <2>2 DEF OnePut, IInv, MembersOK
<1>7. /\ \A m \in Node : dataMap'[m].value = dataMap[m].value
      /\ \A m \in Node : m # n => dataMap'[m] = dataMap[m]
      /\ \A m \in Node : Stores(m)' => Stores(m) /\ dataMap'[m].votes = dataMap[m].votes
  <2>0. dataMap \in [Node -> EntrySet \cup {Nothing}]
    BY DEF OnePut, IInv, DataOK
  <2>1. CASE Sends
    <3> DEFINE x == [e EXCEPT !.responsible = StaysResponsible(n, joined)]
    <3>1. e \in EntrySet
      BY <1>1, <2>0, <2>1 DEF Stores
    <3>2. x.value = e.value /\ x.votes = e.votes
      BY <3>1 DEF EntrySet
    <3>3. dataMap' = [dataMap EXCEPT ![n] = x]
      BY <2>1 DEF Update
    <3> HIDE DEF x
    <3> QED BY <1>1, <2>0, <2>1, <3>2, <3>3 DEF Stores
  <2>2. CASE ~Sends
    <3>1. dataMap' = dataMap
      BY <2>2 DEF Update
    <3> QED BY <3>1 DEF Stores
  <2> QED BY <2>1, <2>2
<1>8. /\ Sent \subseteq Sent'
      /\ Sends => \A m \in to : \E c \in Sent' : c.to = m
      /\ ~Sends => Sent' = Sent
      /\ \A c \in Sent' : c \in Sent \/ (Sends /\ c.to \in to /\ c.value = e.value)
  <2>1. CASE Sends
    <3> DEFINE new == {Call(0, "put", n, m, e.value, node) : m \in to}
    <3>1. calls' = calls \cup new
      BY <2>1 DEF Update
    <3>2. \A m \in to : LET c == Call(0, "put", n, m, e.value, node)
                        IN  c.kind = "put" /\ ~c.answered /\ c.to = m /\ c.value = e.value
      BY DEF Call
    <3>3. \A c \in new : c.kind = "put" /\ ~c.answered /\ c.to \in to /\ c.value = e.value
      BY <3>2
    <3>4. \A m \in to : \E c \in new : c.to = m
      BY <3>2
    <3> HIDE DEF new, to, e
    <3> QED BY <2>1, <3>1, <3>3, <3>4 DEF Sent
  <2>2. CASE ~Sends
    <3>1. calls' = calls
      BY <2>2 DEF Update
    <3>2. Sent' = Sent
      BY <3>1 DEF Sent
    <3> HIDE DEF Sends
    <3> QED BY <2>2, <3>2
  <2> HIDE DEF Sends
  <2> QED BY <2>1, <2>2
<1>9. Sends => e.value = v /\ p \in DOMAIN history.asked
  <2>1. Stores(n) => e \in EntrySet
    BY <1>1 DEF Stores, OnePut, IInv, DataOK
  <2>2. Stores(n) => e.value # NoValue
    BY <2>1, EntryIsNotNothing, StoredAreNumbers
  <2> QED BY <1>1, <2>2 DEF OnePut, Maintained
<1>10. to \in SUBSET members
  BY <1>1, ReceiversAreMembers DEF OnePut, Maintained
<1> HIDE DEF Sends, to, e
<1>11. \A c \in Sent' : c.value = v /\ c.to \in members'
  BY <1>2, <1>8, <1>9, <1>10 DEF OnePut, Maintained
<1>12. ASSUME NEW m \in Replicas, p \in DOMAIN history.asked
       PROVE  Covered(m, v)'
  <2>1. Covered(m, v) /\ m \in Node
    BY <1>6, <1>12 DEF OnePut, Maintained
  <2>2. CASE dataMap[m].value = v
    BY <1>7, <2>1, <2>2 DEF Covered
  <2>3. CASE \E c \in Sent : c.to = m
    BY <1>8, <2>3 DEF Covered
  <2>4. ASSUME NEW w \in updates, PassesOn(w, m)
        PROVE  Covered(m, v)'
    <3>1. m \in to
      BY <1>3, <2>4 DEF PassesOn, to
    <3>2. CASE Sends
      BY <1>8, <3>1, <3>2 DEF Covered
    <3>3. CASE ~Sends
      <4>1. w # u
        BY <2>4, <3>3 DEF PassesOn, Sends, e
      <4>2. w \in updates' /\ w[1] # n /\ w[1] \in Node
        BY <1>2, <1>4, <4>1 DEF OnePut, IInv
      <4>3. dataMap'[w[1]] = dataMap[w[1]] /\ Sent' = Sent
        BY <1>7, <1>8, <3>3, <4>2
      <4>4. PassesOn(w, m)'
        BY <1>5, <2>4, <4>3 DEF PassesOn, Stores
      <4> QED BY <4>2, <4>4 DEF Covered
    <3> QED BY <3>2, <3>3
  <2> QED BY <2>1, <2>2, <2>3, <2>4 DEF Covered
<1>13. \A m \in Node : dataMap'[m].value \in {NoValue, v}
  BY <1>7 DEF OnePut, Maintained
<1>14. \A m \in Node : Stores(m)' => DOMAIN dataMap'[m].votes \subseteq {v}
  BY <1>7 DEF OnePut, Maintained
<1>15. /\ \A w \in updates' : w[1] # w[2] /\ (w[3] => w[2] \in members')
       /\ \A w, x \in updates' : w[2] = x[2] /\ w[3] = x[3]
  BY <1>2 DEF OnePut, Maintained
<1>16. p \notin DOMAIN history'.asked => Sent' = {} /\ \A m \in Node : dataMap'[m].value = NoValue
  BY <1>2, <1>7, <1>8, <1>9 DEF OnePut, Maintained
<1> QED
  BY <1>2, <1>6, <1>11, <1>12, <1>13, <1>14, <1>15, <1>16 DEF Maintained

LEMMA RanksAfterStep == IInv' => SiblingRanks'
<1>1. IInv => SiblingRanks
  BY RanksOfSiblings DEF IInv
<1> QED
  BY <1>1, PTL

\* The nodes that become siblings get the item from any node that has it and is responsible: the one
\* that joined, or the one that is the last sibling after another left.
LEMMA NewSibling ==
    ASSUME IInv, IInv', NEW node \in Node, NEW joined \in BOOLEAN,
           \/ joined /\ node \notin members /\ members' = members \cup {node}
           \/ ~joined /\ node \in members /\ members' = members \ {node},
           scenario'.secure = scenario.secure, scenario'.replicas = scenario.replicas,
           joined \/ scenario.secure,
           NEW n \in Replicas', n \notin Replicas \/ n = node
    PROVE  n \in Receivers(node, joined)'
<1> DEFINE last == Last(Siblings(NumReplica))'
           k == NumReplica
           Old(m) == Closer(m)
           New(m) == Closer(m)'
<1>1. /\ Replicas = {m \in members : Cardinality(Old(m)) < k}
      /\ \A m \in members : IsFiniteSet(Old(m)) /\ Cardinality(Old(m)) \in Nat
  BY RanksOfSiblings DEF IInv, SiblingRanks
<1>2. /\ Replicas' = {m \in members' : Cardinality(New(m)) < k}
      /\ \A m \in Replicas' : m <= last /\ (m = last \/ Cardinality(New(m)) + 1 < k)
      /\ \A m \in members' : IsFiniteSet(New(m)) /\ Cardinality(New(m)) \in Nat
  BY RanksAfterStep DEF SiblingRanks, NumReplica
<1>3. last \in Replicas'
  BY RanksAfterStep DEF SiblingRanks
<1>4. k \in Nat \ {0} /\ scenario.secure \in BOOLEAN
  BY DEF IInv, Scenario, NumReplica
<1>5. /\ \A m : New(m) = {x \in members' : x < m}
      /\ \A m : Old(m) = {x \in members : x < m}
  BY DEF Closer
<1>6. Receivers(node, joined)' =
          CASE scenario.secure /\ joined  -> {m \in {node} : m <= last}
            [] scenario.secure /\ ~joined -> {m \in {last} : node < last}
            [] ~scenario.secure           -> {m \in {node} : joined /\ m \in Replicas'}
  BY DEF Receivers, IsSiblingFor, Replicas
<1>7. IsSiblingFor(n, NumReplica)'
  BY DEF IsSiblingFor, Replicas
<1> HIDE DEF last, Old, New, k
<1>8. CASE joined
  <2>1. node \notin members /\ members' = members \cup {node}
    BY <1>8
  <2>2. n = node
    <3> SUFFICES ASSUME n # node
                 PROVE  FALSE
      OBVIOUS
    <3>1. n \in members /\ n \in members' /\ n \notin Replicas /\ Cardinality(New(n)) < k
      BY <1>2, <2>1
    <3>2. Old(n) \in SUBSET New(n) /\ IsFiniteSet(New(n))
      BY <1>2, <1>5, <2>1, <3>1
    <3>3. Cardinality(Old(n)) <= Cardinality(New(n))
      BY <3>2, FS_Subset
    <3> QED BY <1>1, <1>2, <1>4, <3>1, <3>3
  <2>3. n <= last
    BY <1>2
  <2>4. CASE scenario.secure
    <3>1. Receivers(node, joined)' = {m \in {node} : m <= last}
      BY <1>6, <1>8, <2>4
    <3> QED BY <2>2, <2>3, <3>1
  <2>5. CASE ~scenario.secure
    <3>1. Receivers(node, joined)' = {m \in {node} : joined /\ m \in Replicas'}
      BY <1>6, <1>8, <2>5
    <3> QED BY <1>8, <2>2, <3>1
  <2> QED BY <1>4, <2>4, <2>5
<1>9. CASE ~joined
  <2>1. node \in members /\ members' = members \ {node} /\ scenario.secure
    BY <1>9
  <2>2. n \in members' /\ n \in members /\ n \notin Replicas /\ n # node /\ Cardinality(New(n)) < k
    BY <1>2, <2>1
  <2>3. New(n) = Old(n) \ {node}
    BY <1>5, <2>1
  <2>4. ~(Cardinality(Old(n)) < k) /\ Cardinality(Old(n)) \in Nat /\ IsFiniteSet(Old(n))
        /\ Cardinality(New(n)) \in Nat
    BY <1>1, <1>2, <2>2
  <2>5. node \in Old(n)
    <3> SUFFICES ASSUME node \notin Old(n)
                 PROVE  FALSE
      OBVIOUS
    <3>1. New(n) = Old(n)
      BY <2>3
    <3> QED BY <2>2, <2>4, <3>1
  <2>6. Cardinality(New(n)) = Cardinality(Old(n)) - 1
    <3>1. IsFiniteSet(Old(n))
      BY <2>4
    <3>2. Cardinality(Old(n) \ {node}) = Cardinality(Old(n)) - 1
      BY <2>5, <3>1, RemoveOne
    <3> QED BY <2>3, <3>2
  <2>7. Cardinality(New(n)) + 1 = k \/ Cardinality(New(n)) + 1 > k
    BY <1>4, <2>4, <2>6
  <2>8. n = last
    BY <1>2, <1>4, <2>2, <2>4, <2>7
  <2>9. node < last
    BY <1>5, <2>5, <2>8
  <2>10. Receivers(node, joined)' = {m \in {last} : node < last}
    BY <1>6, <1>9, <2>1
  <2> QED BY <2>8, <2>9, <2>10
<1> QED BY <1>8, <1>9

\* The overlay changes, when all puts and updates have been handled.
LEMMA KeptByChange ==
    ASSUME NEW p, NEW v, OnePut(p, v), IInv', NEW node \in Node, NEW joined \in BOOLEAN, NEW ms,
           \/ joined /\ node \notin members /\ ms = members \cup {node}
           \/ ~joined /\ node \in members /\ ms = members \ {node},
           scenario'.secure = scenario.secure, scenario'.replicas = scenario.replicas,
           Change(ms, node, joined), history'.guarded
    PROVE  Maintained(p, v)' /\ history.guarded
<1>1. /\ updates = {} /\ Sent = {} /\ Sent' = {}
      /\ members' = ms /\ calls' = calls
      /\ updates' = {<<m, node, joined>> : m \in ms \ {node}}
      /\ dataMap' = [dataMap EXCEPT ![node] = Nothing]
  BY DEF Change, Settled, OnePut, Sent
<1>2. history.guarded /\ Guarded(ms, joined) /\ history'.asked = history.asked
  <2> DEFINE x == history.guarded /\ Guarded(ms, joined)
  <2>1. IsHistory(history)
    BY DEF OnePut, IInv, ClientOK, HistoryOK
  <2>2. history' = [history EXCEPT !.guarded = x]
    BY DEF Change
  <2> HIDE DEF x
  <2>3. \A a, b, c, d, e, f : [[told |-> a, began |-> b, asked |-> c, handled |-> d, guarded |-> e,
                                planned |-> f] EXCEPT !.guarded = x].guarded = x
    OBVIOUS
  <2>4. history'.guarded = x
    BY <2>1, <2>2, <2>3 DEF IsHistory
  <2>5. history'.asked = history.asked
    BY <2>1, <2>2, AskedStays
  <2>6. x
    BY <2>4
  <2> QED BY <2>5, <2>6 DEF x
<1>3. /\ dataMap \in [Node -> EntrySet \cup {Nothing}]
      /\ \A m \in Node : Stores(m) => m \in members
  BY DEF OnePut, IInv, DataOK, Stores
<1>4. /\ dataMap'[node] = Nothing
      /\ \A m \in Node : m # node => dataMap'[m] = dataMap[m] /\ (Stores(m)' <=> Stores(m))
      /\ ~Stores(node)'
  BY <1>1, <1>3 DEF Stores
<1>5. Nothing.value = NoValue
  BY DEF Nothing
<1>6. /\ \A m \in Node : dataMap'[m].value \in {NoValue, v}
      /\ \A m \in Node : Stores(m)' => DOMAIN dataMap'[m].votes \subseteq {v}
  BY <1>4, <1>5 DEF OnePut, Maintained
<1>7. /\ \A u \in updates' : u[1] # u[2] /\ (u[3] => u[2] \in members')
      /\ \A u, w \in updates' : u[2] = w[2] /\ u[3] = w[3]
  BY <1>1
<1>8. p \notin DOMAIN history.asked => \A m \in Node : dataMap'[m].value = NoValue
  BY <1>4, <1>5 DEF OnePut, Maintained
<1>9. Replicas # {} /\ Replicas \in SUBSET members /\ members \in SUBSET Node
  BY LookedUp, RanksOfSiblings DEF OnePut, IInv, SiblingRanks, Replicas
<1>10. Replicas' \in SUBSET members' /\ members' \in SUBSET Node
  BY RanksAfterStep DEF SiblingRanks, IInv, MembersOK
<1>11. ASSUME p \in DOMAIN history.asked, NEW n \in Replicas'
       PROVE  Covered(n, v)'
  <2>1. \A m \in Replicas : dataMap[m].value = v
    BY <1>1, <1>11 DEF OnePut, Maintained, Covered
  <2>2. n \in Node
    BY <1>10
  <2>3. CASE dataMap'[n].value = v
    BY <2>3 DEF Covered
  <2>4. CASE dataMap'[n].value # v
    <3>1. v # NoValue
      BY <1>6, <2>2, <2>4
    <3>2. n \notin Replicas \/ n = node
      BY <1>4, <2>1, <2>2, <2>4
    <3>3. \E m \in Node : Stores(m)
      BY <1>5, <1>9, <2>1, <3>1 DEF Stores
    <3>4. joined \/ scenario.secure
      BY <1>2, <3>3 DEF Guarded
    <3>5. PICK r \in ms : Stores(r) /\ dataMap[r].responsible
      BY <1>2, <3>3 DEF Guarded
    <3>6. r \in Node /\ r # node
      BY <1>1, <1>3, <1>10, <3>5
    <3>7. n \in Receivers(node, joined)'
      BY <1>1, <3>2, <3>4, NewSibling DEF OnePut
    <3> DEFINE u == <<r, node, joined>>
    <3>8. u \in updates' /\ u[1] = r /\ u[2] = node /\ u[3] = joined
      BY <1>1, <3>5, <3>6
    <3> HIDE DEF u
    <3>9. PassesOn(u, n)'
      BY <1>1, <1>4, <3>5, <3>6, <3>7, <3>8 DEF PassesOn
    <3> QED BY <3>8, <3>9 DEF Covered
  <2> QED BY <2>3, <2>4
<1> QED
  BY <1>1, <1>2, <1>6, <1>7, <1>8, <1>11 DEF Maintained

\* As long as nothing is lost, what has changed of the bounds is how many join and leave.
LEMMA StillReliable ==
    ASSUME scenario \in Scenario, Within(scenario, history.planned), PlanKept, Reliable',
           scenario' = scenario \/ UsesBound(scenario, scenario')
    PROVE  /\ Reliable
           /\ scenario'.losses = scenario.losses /\ scenario'.invalid = scenario.invalid
           /\ scenario'.expiries = scenario.expiries
           /\ scenario'.replicas = scenario.replicas /\ scenario'.secure = scenario.secure
           /\ scenario'.calm = scenario.calm /\ scenario'.requests = scenario.requests
<1> DEFINE S == scenario
           T == scenario'
           P == history.planned
<1>1. /\ S.invalid \in Nat /\ S.losses \in Nat /\ S.joins \in Nat /\ S.leaves \in Nat /\ S.expiries \in Nat
      /\ P.invalid \in Nat /\ P.losses \in Nat /\ P.expiries \in Nat
      /\ S.invalid <= P.invalid /\ S.losses <= P.losses /\ S.expiries <= P.expiries
  BY DEF Within, Scenario
<1>2. T.losses = P.losses /\ T.invalid = P.invalid /\ T.expiries = P.expiries
  BY DEF Reliable, PlanKept
<1>3. \A a, b \in Nat : a <= b => a - 1 # b
  OBVIOUS
<1>4. ASSUME T.replicas = S.replicas, T.secure = S.secure, T.calm = S.calm, T.requests = S.requests,
             T.losses = S.losses \/ T.losses = S.losses - 1,
             T.invalid = S.invalid \/ T.invalid = S.invalid - 1,
             T.expiries = S.expiries \/ T.expiries = S.expiries - 1
      PROVE  /\ S.losses = P.losses /\ S.invalid = P.invalid /\ S.expiries = P.expiries
             /\ T.losses = S.losses /\ T.invalid = S.invalid /\ T.expiries = S.expiries
  BY <1>1, <1>2, <1>3, <1>4
<1>5. /\ T.replicas = S.replicas /\ T.secure = S.secure /\ T.calm = S.calm /\ T.requests = S.requests
      /\ T.losses = S.losses \/ T.losses = S.losses - 1
      /\ T.invalid = S.invalid \/ T.invalid = S.invalid - 1
      /\ T.expiries = S.expiries \/ T.expiries = S.expiries - 1
  BY SMTT(30) DEF UsesBound, Scenario
<1> QED
  BY <1>4, <1>5 DEF Reliable

\* Each step keeps what is known of the only put, unless something is lost or the item is left to
\* nobody who is responsible.
LEMMA MaintenanceStep ==
    ASSUME NEW p, NEW v, OnePut(p, v), IInv', Next, scenario' = scenario \/ UsesBound(scenario, scenario'),
           scenario'.losses = scenario.losses, scenario'.invalid = scenario.invalid,
           scenario'.expiries = scenario.expiries,
           scenario'.replicas = scenario.replicas, scenario'.secure = scenario.secure,
           history'.guarded
    PROVE  Maintained(p, v)'
<1>1. \A a \in Nat : a # a - 1
  OBVIOUS
<1>2. scenario \in Scenario /\ scenario.losses \in Nat /\ scenario.invalid \in Nat /\ scenario.expiries \in Nat
  BY DEF OnePut, IInv, Scenario
<1>3. CASE HandleCAPIRequest
  BY <1>3, KeptByClient
<1>4. CASE Handle
  <2>1. ASSUME NEW r \in Open, HandleLookupResponse(r)
        PROVE  scenario' = scenario
    <3>1. CASE scenario' = [scenario EXCEPT !.invalid = @ - 1]
      <4>1. scenario'.invalid = scenario.invalid - 1
        BY <1>2, <3>1 DEF Scenario
      <4> QED BY <1>1, <1>2, <4>1
    <3> QED BY <2>1, <3>1 DEF HandleLookupResponse
  <2> QED BY <1>4, <2>1, KeptByLookup, KeptByPut, KeptByClient, KeptByUpdate DEF Handle
<1>5. ASSUME NEW c \in calls, Lose(c)
      PROVE  FALSE
  <2>1. scenario'.losses = scenario.losses - 1
    BY <1>2, <1>5 DEF Lose, Scenario
  <2> QED BY <1>1, <1>2, <2>1
<1>6. ASSUME NEW n \in Node, HandleTtlTimer(n)
      PROVE  FALSE
  <2>1. scenario'.expiries = scenario.expiries - 1
    BY <1>2, <1>6 DEF HandleTtlTimer, Scenario
  <2> QED BY <1>1, <1>2, <2>1
<1>7. ASSUME NEW n \in Node, Join(n)
      PROVE  Maintained(p, v)'
  <2>1. Change(members \cup {n}, n, TRUE) /\ n \notin members
    BY <1>7 DEF Join
  <2> QED BY <2>1, KeptByChange
<1>8. ASSUME NEW n \in Node, Leave(n)
      PROVE  Maintained(p, v)'
  <2>1. Change(members \ {n}, n, FALSE) /\ n \in members
    BY <1>8 DEF Leave
  <2> QED BY <2>1, KeptByChange
<1> QED
  BY <1>3, <1>4, <1>5, <1>6, <1>7, <1>8 DEF Next

\* As long as nothing is lost and a node that passes the item on is left at each change.
MInv == scenario.calm /\ Reliable /\ history.guarded =>
            \A p \in Puts : Puts = {p} => Maintained(p, scenario.requests[p].value)

LEMMA MaintenanceInductive == IInv /\ IInv' /\ FInv /\ MInv /\ [Next]_vars => MInv'
<1> SUFFICES ASSUME IInv, IInv', FInv, MInv, [Next]_vars, scenario'.calm, Reliable', history'.guarded,
                    NEW p \in Puts', Puts' = {p}
             PROVE  Maintained(p, scenario.requests[p].value)'
  BY DEF MInv
<1> PICK v : v = scenario'.requests[p].value
  OBVIOUS
<1>1. CASE UNCHANGED vars
  <2>1. /\ Puts' = Puts /\ UNCHANGED <<scenario, members, dataMap, updates, history>> /\ Sent' = Sent
    BY <1>1 DEF vars, Puts, Requests, IsPut, Sent
  <2>2. Reliable /\ scenario.calm /\ history.guarded /\ v = scenario.requests[p].value
    BY <2>1 DEF Reliable
  <2>3. Maintained(p, v)
    BY <2>1, <2>2 DEF MInv
  <2>4. Maintained(p, v)'
    BY <2>1, <2>3, SentGoesOn
  <2> QED BY <2>4
<1>2. CASE Next
  <2>1. PlanKept /\ (scenario' = scenario \/ UsesBound(scenario, scenario'))
    BY <1>2, BoundOrNot
  <2>2. /\ Reliable
        /\ scenario'.losses = scenario.losses /\ scenario'.invalid = scenario.invalid
        /\ scenario'.expiries = scenario.expiries
        /\ scenario'.replicas = scenario.replicas /\ scenario'.secure = scenario.secure
        /\ scenario'.calm = scenario.calm /\ scenario'.requests = scenario.requests
    BY <2>1, StillReliable DEF IInv, FInv
  <2>3. Puts' = Puts
    BY <2>2 DEF Puts, Requests, IsPut
  <2>4. OnePut(p, v)
    <3>1. history.guarded /\ scenario.calm /\ v = scenario.requests[p].value
      BY <2>1, <2>2 DEF PlanKept
    <3> QED BY <2>2, <2>3, <3>1 DEF OnePut, MInv
  <2>5. Maintained(p, v)'
    BY <1>2, <2>1, <2>2, <2>4, MaintenanceStep
  <2> QED BY <2>5
<1> QED BY <1>1, <1>2

LEMMA MaintenanceInitially == Init => MInv
<1> SUFFICES ASSUME Init
             PROVE  MInv
  OBVIOUS
<1>1. /\ Sent = {} /\ updates = {} /\ DOMAIN history.asked = {}
      /\ \A n \in Node : dataMap[n].value = NoValue /\ ~Stores(n)
  BY DEF Init, Nothing, Sent, Stores
<1> QED
  BY <1>1 DEF MInv, Maintained

\* Once the maintenance that a change of the overlay causes is done, all siblings of the key hold the item
\* of the only put again, in both modes, if nothing was lost and a responsible node with the item was left
\* at each change (and only joined, without secureMaintenance): whoever becomes a sibling in Change gets the
\* item by update() of any such node, and a put that meets another on its way leaves the same value.
THEOREM MaintenanceRestores == Spec => []ReplicasRestored
<1>1. Spec => [](IInv /\ MInv)
  <2>1. IInv /\ IInv' /\ FInv /\ FInv' /\ MInv /\ [Next]_vars => MInv'
    BY MaintenanceInductive
  <2> QED BY Initially, Inductive, FineInitially, FineInductive, MaintenanceInitially, <2>1, PTL DEF Spec
<1>2. IInv /\ MInv => ReplicasRestored
  <2> SUFFICES ASSUME IInv, MInv, NEW p \in Puts,
                      scenario.calm, Settled, Reliable, history.guarded, Puts = {p}, Succeeded(p),
                      NEW n \in Replicas
               PROVE  dataMap[n].value = scenario.requests[p].value
    BY DEF ReplicasRestored, Replicas
  <2>1. Maintained(p, scenario.requests[p].value)
    BY DEF MInv
  <2>2. p \in DOMAIN history.asked
    BY DEF IInv, ClientOK, Reported, Puts, IsPut, Succeeded, WasTold
  <2>3. updates = {} /\ Sent = {}
    BY DEF Settled, Sent
  <2> QED BY <2>1, <2>2, <2>3 DEF Maintained, Covered
<1> QED
  BY <1>1, <1>2, PTL
=============================================================================
