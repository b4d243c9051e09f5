------------------------------ MODULE GiaProofs ------------------------------
(***************************************************************************)
(* However handshakes, drops and disconnections of Gia cross, two nodes    *)
(* agree at last about whether they are neighbors: for any number of nodes *)
(* and neighbors, whatever is searched and sent meanwhile.  And as long as *)
(* links stay, tokens are conserved and answers return.                    *)
(***************************************************************************)
EXTENDS GiaInvariants, SequenceTheorems, FiniteSetTheorems, WellFoundedInduction, TLAPS

(***************************************************************************)
(* What two nodes may say to each other                                    *)
(***************************************************************************)

LEMMA AgreeIsSymmetric ==
    ASSUME NEW x, NEW y, NEW v, NEW w, Agree(x, y, v, w)
    PROVE  Agree(y, x, w, v)
BY DEF Agree

LEMMA AgreeIsProper ==
    ASSUME NEW x, NEW y, NEW v, NEW w, Agree(x, y, v, w)
    PROVE  Proper(v) /\ Proper(w)
<1> DEFINE Ok(c) == \E c1, c2, c3 \in Letters :
                       c = <<c1, c2, c3, "none">> /\ (c1 = "none" => c2 = "none") /\ (c2 = "none" => c3 = "none")
<1>1. ASSUME NEW c, NEW c1 \in Letters, NEW c2 \in Letters, NEW c3 \in Letters, c = <<c1, c2, c3, "none">>,
             c1 = "none" => c2 = "none", c2 = "none" => c3 = "none"
      PROVE  Proper(c)
  <2>1. c \in Words
    BY <1>1 DEF Words, Letters
  <2> QED BY <1>1, <2>1 DEF Proper
<1>2. ASSUME NEW a, NEW b, NEW c, NEW d, Row(a, b, c, d)
      PROVE  Ok(c) /\ Ok(d)
  <2>1. {"none", "REQ", "RSP", "ACK", "DNY", "DISCONNECT"} \subseteq Letters
    BY DEF Says, Letters
  <2>2. ASSUME NEW e, e \in {Silence, One("DISCONNECT"), One("REQ"), One("RSP"), One("ACK"), One("DNY")}
        PROVE  Ok(e)
    BY <2>1, <2>2 DEF Silence, One
  <2>3. ASSUME NEW e, NEW t \in Letters, NEW u \in Letters, t # "none", e = Two(t, u)
        PROVE  Ok(e)
    BY <2>1, <2>3 DEF Two
  <2>4. ASSUME NEW e, NEW t \in Letters, NEW u \in Letters, NEW r \in Letters, t # "none", u # "none", e = Three(t, u, r)
        PROVE  Ok(e)
    BY <2>1, <2>4 DEF Three
  <2> HIDE DEF Ok
  <2> QED BY <1>2, <2>1, <2>2, <2>3, <2>4 DEF Row, Gone, Request1
<1>3. \A c : Ok(c) => Proper(c)
  BY <1>1
<1> HIDE DEF Ok
<1> QED BY <1>2, <1>3 DEF Agree

LEMMA HearsReq ==
    ASSUME NEW x \in Sides, NEW y \in Sides, NEW z \in Sides, NEW say,
           NEW v1, NEW v2, NEW v3, NEW v4, NEW w2, NEW w3, NEW w4,
           Agree(x, y, <<v1, v2, v3, v4>>, <<"REQ", w2, w3, w4>>),
           Reply("REQ", x, z, say), Recalls(x, z)
    PROVE  Agree(z, y, Then(<<v1, v2, v3, v4>>, say), <<w2, w3, w4, "none">>)
BY ZenonT(30) DEF Agree, Row, Reply, Recalls, Sides, Gone, Request1, Silence, One, Two, Three, Then

LEMMA HearsRsp ==
    ASSUME NEW x \in Sides, NEW y \in Sides, NEW z \in Sides, NEW say,
           NEW v1, NEW v2, NEW v3, NEW v4, NEW w2, NEW w3, NEW w4,
           Agree(x, y, <<v1, v2, v3, v4>>, <<"RSP", w2, w3, w4>>),
           Reply("RSP", x, z, say), Recalls(x, z)
    PROVE  Agree(z, y, Then(<<v1, v2, v3, v4>>, say), <<w2, w3, w4, "none">>)
BY ZenonT(30) DEF Agree, Row, Reply, Recalls, Sides, Gone, Request1, Silence, One, Two, Three, Then

LEMMA HearsAck ==
    ASSUME NEW x \in Sides, NEW y \in Sides, NEW z \in Sides, NEW say,
           NEW v1, NEW v2, NEW v3, NEW v4, NEW w2, NEW w3, NEW w4,
           Agree(x, y, <<v1, v2, v3, v4>>, <<"ACK", w2, w3, w4>>),
           Reply("ACK", x, z, say), Recalls(x, z), z.refused \/ ~z.cand
    PROVE  Agree(z, y, Then(<<v1, v2, v3, v4>>, say), <<w2, w3, w4, "none">>)
BY DEF Agree, Row, Reply, Recalls, Sides, Gone, Request1, Silence, One, Two, Three, Then

LEMMA HearsDny ==
    ASSUME NEW x \in Sides, NEW y \in Sides, NEW z \in Sides, NEW say,
           NEW v1, NEW v2, NEW v3, NEW v4, NEW w2, NEW w3, NEW w4,
           Agree(x, y, <<v1, v2, v3, v4>>, <<"DNY", w2, w3, w4>>),
           Reply("DNY", x, z, say), Recalls(x, z)
    PROVE  Agree(z, y, Then(<<v1, v2, v3, v4>>, say), <<w2, w3, w4, "none">>)
BY DEF Agree, Row, Reply, Recalls, Sides, Gone, Request1, Silence, One, Two, Three, Then

LEMMA HearsDisconnect ==
    ASSUME NEW x \in Sides, NEW y \in Sides, NEW z \in Sides, NEW say,
           NEW v1, NEW v2, NEW v3, NEW v4, NEW w2, NEW w3, NEW w4,
           Agree(x, y, <<v1, v2, v3, v4>>, <<"DISCONNECT", w2, w3, w4>>),
           Reply("DISCONNECT", x, z, say), Recalls(x, z)
    PROVE  Agree(z, y, Then(<<v1, v2, v3, v4>>, say), <<w2, w3, w4, "none">>)
           /\ Agree(z, y, Then(<<v1, v2, v3, v4>>, say), <<"DISCONNECT", w2, w3, w4>>)
<1>1. say = "none" /\ Then(<<v1, v2, v3, v4>>, say) = <<v1, v2, v3, v4>>
  BY DEF Reply, Then
<1>2. Agree(z, y, <<v1, v2, v3, v4>>, <<w2, w3, w4, "none">>)
  BY DEF Agree, Row, Reply, Recalls, Sides, Gone, Request1, Silence, One, Two, Three
<1>3. Agree(z, y, <<v1, v2, v3, v4>>, <<"DISCONNECT", w2, w3, w4>>)
  BY DEF Agree, Row, Reply, Recalls, Sides, Gone, Request1, Silence, One, Two, Three
<1> QED BY <1>1, <1>2, <1>3

\* A node asks another one, no packet of an earlier handshake being on its way.
LEMMA AsksFor ==
    ASSUME NEW x \in Sides, NEW y \in Sides, NEW z \in Sides,
           NEW v1, NEW v2, NEW v3, NEW v4, NEW w1, NEW w2, NEW w3, NEW w4,
           Agree(x, y, <<v1, v2, v3, v4>>, <<w1, w2, w3, w4>>), Recalls(x, z),
           ~x.linked, ~x.cand, ~z.linked, z.cand,
           {v1, v2, v3} \cap {"REQ", "RSP", "ACK", "DNY"} = {}, {w1, w2, w3} \cap {"RSP", "ACK", "DNY"} = {}
    PROVE  Agree(z, y, Then(<<v1, v2, v3, v4>>, "REQ"), <<w1, w2, w3, w4>>)
BY DEF Agree, Row, Recalls, Sides, Gone, Request1, Silence, One, Two, Three, Then

\* A node makes room.
LEMMA DropsTo ==
    ASSUME NEW x \in Sides, NEW y \in Sides, NEW z \in Sides,
           NEW v1, NEW v2, NEW v3, NEW v4, NEW w1, NEW w2, NEW w3, NEW w4,
           Agree(x, y, <<v1, v2, v3, v4>>, <<w1, w2, w3, w4>>), Recalls(x, z),
           x.linked, ~z.linked, z.cand = x.cand
    PROVE  Agree(z, y, Then(<<v1, v2, v3, v4>>, "DISCONNECT"), <<w1, w2, w3, w4>>)
<1>1. /\ {x.linked, x.cand, x.gone, x.refused, y.linked, y.cand, y.gone, y.refused} \subseteq BOOLEAN
      /\ {z.linked, z.cand, z.gone, z.refused} \subseteq BOOLEAN /\ ~x.gone /\ (x.cand /\ x.refused => z.refused)
  BY DEF Sides, Recalls
<1>2. CASE Row(x, y, <<v1, v2, v3, v4>>, <<w1, w2, w3, w4>>)
  BY <1>1, <1>2, ZenonT(30) DEF Agree, Row, Gone, Request1, Silence, One, Two, Three, Then
<1>3. CASE Row(y, x, <<w1, w2, w3, w4>>, <<v1, v2, v3, v4>>)
  BY <1>1, <1>3, ZenonT(30) DEF Agree, Row, Gone, Request1, Silence, One, Two, Three, Then
<1> QED BY <1>2, <1>3 DEF Agree

\* A node has not heard of another one for long.
LEMMA LosesSilently ==
    ASSUME NEW x \in Sides, NEW y \in Sides, NEW z \in Sides,
           NEW v1, NEW v2, NEW v3, NEW v4, NEW w1, NEW w2, NEW w3, NEW w4,
           Agree(x, y, <<v1, v2, v3, v4>>, <<w1, w2, w3, w4>>), Recalls(x, z),
           v1 = "none", w1 = "none", x.linked, ~z.linked, z.cand = x.cand, z.gone
    PROVE  Agree(z, y, <<v1, v2, v3, v4>>, <<w1, w2, w3, w4>>)
<1>1. CASE Row(x, y, <<v1, v2, v3, v4>>, <<w1, w2, w3, w4>>)
  BY <1>1 DEF Agree, Row, Recalls, Sides, Gone, Request1, Silence, One, Two, Three, Then
<1>2. CASE Row(y, x, <<w1, w2, w3, w4>>, <<v1, v2, v3, v4>>)
  BY <1>2 DEF Agree, Row, Recalls, Sides, Gone, Request1, Silence, One, Two, Three, Then
<1> QED BY <1>1, <1>2 DEF Agree

\* Nothing changes between two nodes.
LEMMA KeepsOn ==
    ASSUME NEW x \in Sides, NEW y \in Sides, NEW z \in Sides,
           NEW v1, NEW v2, NEW v3, NEW v4, NEW w1, NEW w2, NEW w3, NEW w4,
           Agree(x, y, <<v1, v2, v3, v4>>, <<w1, w2, w3, w4>>), Recalls(x, z),
           z.linked = x.linked, z.cand = x.cand
    PROVE  Agree(z, y, <<v1, v2, v3, v4>>, <<w1, w2, w3, w4>>)
<1>1. /\ {x.linked, x.cand, x.gone, x.refused, y.linked, y.cand, y.gone, y.refused} \subseteq BOOLEAN
      /\ {z.linked, z.cand, z.gone, z.refused} \subseteq BOOLEAN /\ (x.gone => z.gone)
      /\ x.cand /\ x.refused => z.refused
  BY DEF Sides, Recalls
<1> QED BY <1>1 DEF Agree, Row

(***************************************************************************)
(* Channels and the words they carry                                       *)
(***************************************************************************)

LEMMA Sequences ==
    ASSUME NEW s, IsSeq(s)
    PROVE  /\ Len(s) \in Nat
           /\ s = << >> <=> Len(s) = 0
           /\ s # << >> => /\ IsSeq(Tail(s)) /\ Len(Tail(s)) = Len(s) - 1 /\ Head(s) = s[1]
                           /\ \A i \in 1 .. Len(s) - 1 : Tail(s)[i] = s[i + 1]
           /\ \A o : IsSeq(o) => /\ IsSeq(s \o o) /\ Len(o) \in Nat /\ Len(s \o o) = Len(s) + Len(o)
                                 /\ \A i \in 1 .. Len(s) : (s \o o)[i] = s[i]
                                 /\ \A i \in 1 .. Len(o) : (s \o o)[Len(s) + i] = o[i]
           /\ \A m : /\ IsSeq(Append(s, m)) /\ Len(Append(s, m)) = Len(s) + 1
                     /\ \A i \in 1 .. Len(s) : Append(s, m)[i] = s[i]
                     /\ Append(s, m)[Len(s) + 1] = m
<1> PICK S : s \in Seq(S)
  BY DEF IsSeq
<1>0. Len(s) \in Nat /\ (s = << >> <=> Len(s) = 0)
  BY EmptySeq, LenProperties
<1>1. ASSUME NEW T, NEW u \in Seq(T), NEW U, T \subseteq U
      PROVE  u \in Seq(U)
  <2>1. \A i \in 1 .. Len(u) : u[i] \in U
    BY <1>1, ElementOfSeq
  <2>2. u = [i \in 1 .. Len(u) |-> u[i]] /\ Len(u) \in Nat
    BY LenProperties
  <2> QED BY <2>1, <2>2, IsASeq
<1>2. ASSUME s # << >>
      PROVE  /\ IsSeq(Tail(s)) /\ Len(Tail(s)) = Len(s) - 1 /\ Head(s) = s[1]
             /\ \A i \in 1 .. Len(s) - 1 : Tail(s)[i] = s[i + 1]
  BY <1>2, HeadTailProperties DEF IsSeq
<1>3. ASSUME NEW o, IsSeq(o)
      PROVE  /\ IsSeq(s \o o) /\ Len(o) \in Nat /\ Len(s \o o) = Len(s) + Len(o)
             /\ \A i \in 1 .. Len(s) : (s \o o)[i] = s[i]
             /\ \A i \in 1 .. Len(o) : (s \o o)[Len(s) + i] = o[i]
  <2> PICK T : o \in Seq(T)
    BY <1>3 DEF IsSeq
  <2>1. s \in Seq(S \cup T) /\ o \in Seq(S \cup T) /\ Len(s) \in Nat /\ Len(o) \in Nat
    BY <1>1, LenProperties
  <2> QED BY <2>1, ConcatProperties DEF IsSeq
<1>4. ASSUME NEW m
      PROVE  /\ IsSeq(Append(s, m)) /\ Len(Append(s, m)) = Len(s) + 1
             /\ \A i \in 1 .. Len(s) : Append(s, m)[i] = s[i]
             /\ Append(s, m)[Len(s) + 1] = m
  <2>1. s \in Seq(S \cup {m}) /\ m \in S \cup {m}
    BY <1>1
  <2> QED BY <2>1, AppendProperties DEF IsSeq
<1> QED BY <1>0, <1>2, <1>3, <1>4

LEMMA WordsAreFour ==
    ASSUME NEW w \in Words
    PROVE  w = <<w[1], w[2], w[3], w[4]>> /\ w[1] \in Letters /\ w[2] \in Letters /\ w[3] \in Letters
BY DEF Words

LEMMA NothingIsSaid ==
    /\ IsSeq(<< >>) /\ Carries(<< >>, Silence) /\ Speech(<< >>, "none")
    /\ \A w : Proper(w) /\ Carries(<< >>, w) => w = Silence
<1>1. IsSeq(<< >>) /\ Len(<< >>) = 0 /\ Talk(<< >>) = {}
  BY EmptySeq DEF IsSeq, Talk
<1>2. Carries(<< >>, Silence)
  <2>1. \A k \in 1 .. 4 : At(Silence, k) = "none"
    BY DEF Silence, At
  <2>2. PICK f : f = [i \in {} |-> 1]
    OBVIOUS
  <2>3. f \in [{} -> 1 .. 4]
    BY <2>2
  <2>4. Spells(<< >>, Silence, f)
    BY <1>1, <2>1, <2>3 DEF Spells
  <2> QED BY <2>4 DEF Carries
<1>3. ASSUME NEW w, Proper(w), Carries(<< >>, w)
      PROVE  w = Silence
  <2>1. PICK f : Spells(<< >>, w, f)
    BY <1>3 DEF Carries
  <2>2. \A k \in 1 .. 4 : At(w, k) = "none"
    BY <1>1, <2>1 DEF Spells
  <2>3. w[1] = "none" /\ w[2] = "none" /\ w[3] = "none" /\ w[4] = "none"
    <3>1. 1 \in 1 .. 4 /\ 2 \in 1 .. 4 /\ 3 \in 1 .. 4 /\ 4 \in 1 .. 4
      OBVIOUS
    <3>2. At(w, 1) = "none" /\ At(w, 2) = "none" /\ At(w, 3) = "none" /\ At(w, 4) = "none"
      BY <2>2, <3>1
    <3> QED BY <3>2 DEF At
  <2>4. w = <<w[1], w[2], w[3], w[4]>>
    BY <1>3, WordsAreFour DEF Proper
  <2> QED BY <2>3, <2>4 DEF Silence
<1> QED BY <1>1, <1>2, <1>3 DEF Carries, Speech

LEMMA OneMore ==
    ASSUME NEW w, Proper(w), NEW t \in Says
    PROVE  \E l \in 0 .. 3 : EndsAt(w, t, l)
<1>1. /\ w[4] = "none" /\ (w[1] = "none" => w[2] = "none") /\ (w[2] = "none" => w[3] = "none") /\ (w[1] = "none" => w[3] = "none")
      /\ t # "none"
  BY DEF Proper, Says
<1>2. CASE w[1] = "none"
  <2>1. Then(w, t) = <<t, "none", "none", "none">>
    BY <1>1, <1>2 DEF Then, One
  <2>2. EndsAt(w, t, 0)
    BY <1>1, <1>2, <2>1 DEF At, EndsAt
  <2> QED BY <2>2
<1>3. CASE w[1] # "none" /\ w[2] = "none"
  <2>1. Then(w, t) = IF w[1] = t /\ t = "DISCONNECT" THEN w ELSE <<w[1], t, "none", "none">>
    BY <1>1, <1>3 DEF Then, Two
  <2>2. EndsAt(w, t, 1)
    BY <1>1, <1>3, <2>1 DEF At, EndsAt
  <2> QED BY <2>2
<1>4. CASE w[1] # "none" /\ w[2] # "none" /\ w[3] = "none"
  <2>1. Then(w, t) = IF w[2] = t /\ t = "DISCONNECT" THEN w ELSE <<w[1], w[2], t, "none">>
    BY <1>1, <1>4 DEF Then, Three
  <2>2. EndsAt(w, t, 2)
    BY <1>1, <1>4, <2>1 DEF At, EndsAt
  <2> QED BY <2>2
<1>5. CASE w[1] # "none" /\ w[2] # "none" /\ w[3] # "none"
  <2>1. Then(w, t) = IF w[3] = t /\ t = "DISCONNECT" THEN w ELSE <<w[1], w[2], w[3], t>>
    BY <1>1, <1>5 DEF Then
  <2>2. EndsAt(w, t, 3)
    BY <1>1, <1>5, <2>1 DEF At, EndsAt
  <2> QED BY <2>2
<1> QED BY <1>2, <1>3, <1>4, <1>5

LEMMA CarriesMore ==
    ASSUME NEW s, NEW o, NEW w, NEW t \in Letters, IsSeq(s), IsSeq(o), Proper(w), Carries(s, w), Speech(o, t)
    PROVE  Carries(s \o o, Then(w, t))
<1> DEFINE n == Len(s)
           c == s \o o
<1>1. PICK f : Spells(s, w, f)
  BY DEF Carries
<1>2. /\ n \in Nat /\ Len(o) \in Nat /\ Len(c) = n + Len(o)
      /\ \A i \in 1 .. n : c[i] = s[i]
      /\ \A i \in 1 .. Len(o) : c[n + i] = o[i]
  BY Sequences
<1> HIDE DEF n, c
<1>3. CASE t = "none"
  <2>1. Talk(o) = {} /\ Then(w, t) = w
    <3>1. \A k \in 1 .. Len(o) : Talk(o) = {k} => o[k].type # "none"
      BY DEF Talk, Says
    <3> QED BY <1>3, <3>1 DEF Speech, Then
  <2>2. \A i \in 1 .. Len(c) : i \in 1 .. n \/ (i - n \in 1 .. Len(o) /\ n + (i - n) = i)
    BY <1>2
  <2>3. Talk(c) = Talk(s)
    <3>1. \A i \in 1 .. Len(c) : c[i].type \in Says => i \in Talk(s)
      <4> TAKE i \in 1 .. Len(c)
      <4>1. CASE i \in 1 .. n
        BY <1>2, <4>1 DEF Talk, n
      <4>2. CASE i - n \in 1 .. Len(o) /\ n + (i - n) = i
        <5>1. c[i] = o[i - n]
          BY <1>2, <4>2
        <5>2. o[i - n].type \notin Says
          BY <2>1, <4>2 DEF Talk
        <5> QED BY <5>1, <5>2
      <4> QED BY <2>2, <4>1, <4>2
    <3>2. \A i \in Talk(s) : i \in Talk(c)
      BY <1>2 DEF Talk, n
    <3> QED BY <3>1, <3>2 DEF Talk
  <2>4. \A i \in Talk(s) : c[i] = s[i]
    BY <1>2 DEF Talk, n
  <2>5. Spells(c, w, f)
    BY <1>1, <2>3, <2>4 DEF Spells
  <2> QED BY <2>1, <2>5 DEF Carries, c
<1>4. CASE t # "none"
  <2>1. PICK k \in 1 .. Len(o) : Talk(o) = {k} /\ o[k].type = t
    BY <1>4 DEF Speech
  <2> DEFINE p == n + k
  <2>2. t \in Says /\ p \in Int /\ p \notin Talk(s) /\ c[p] = o[k] /\ Talk(s) \subseteq Int
    BY <1>2, <1>4, <2>1 DEF Letters, Talk, n
  <2>3. Talk(c) = Talk(s) \cup {p}
    <3>1. \A i \in 1 .. Len(c) : i \in 1 .. n \/ (i - n \in 1 .. Len(o) /\ n + (i - n) = i)
      BY <1>2
    <3>2. \A i \in 1 .. Len(c) : c[i].type \in Says => i \in Talk(s) \/ i = p
      <4> TAKE i \in 1 .. Len(c)
      <4>1. CASE i \in 1 .. n
        BY <1>2, <4>1 DEF Talk, n
      <4>2. CASE i - n \in 1 .. Len(o) /\ n + (i - n) = i
        <5>1. c[i] = o[i - n]
          BY <1>2, <4>2
        <5>2. o[i - n].type \in Says => i - n = k
          BY <2>1, <4>2 DEF Talk
        <5> QED BY <4>2, <5>1, <5>2
      <4> QED BY <3>1, <4>1, <4>2
    <3>3. \A i \in Talk(s) : i \in Talk(c)
      BY <1>2 DEF Talk, n
    <3>4. p \in Talk(c)
      BY <1>2, <2>1, <2>2 DEF Talk
    <3> QED BY <3>2, <3>3, <3>4 DEF Talk
  <2>4. \A i \in Talk(s) : c[i] = s[i] /\ i < p
    BY <1>2, <2>1 DEF Talk, n
  <2>5. PICK l \in 0 .. 3 : EndsAt(w, t, l)
    BY <2>2, OneMore
  <2> DEFINE u == Then(w, t)
             q == IF l # 0 /\ At(w, l) = "DISCONNECT" /\ t = "DISCONNECT" /\ u = w THEN l ELSE l + 1
             g == [i \in Talk(s) \cup {p} |-> IF i = p THEN q ELSE f[i]]
  <2>6. /\ q \in 1 .. 4 /\ At(u, q) = t
        /\ \A j \in 1 .. 4 : j <= l => At(u, j) = At(w, j)
        /\ \A j \in 1 .. 4 : At(u, j) # "none" => j <= l \/ j = q
        /\ (q = l /\ t = "DISCONNECT" /\ At(w, l) = "DISCONNECT") \/ q = l + 1
    BY <2>5 DEF EndsAt
  <2> HIDE DEF p, q, u
  <2>7. \A i \in Talk(s) : f[i] \in 1 .. 4 /\ f[i] <= l /\ At(w, f[i]) = s[i].type /\ g[i] = f[i]
    <3>1. \A i \in Talk(s) : f[i] \in 1 .. 4 /\ At(w, f[i]) = s[i].type /\ s[i].type # "none"
      BY <1>1 DEF Spells, Talk, Says
    <3> QED BY <2>2, <2>5, <3>1 DEF EndsAt
  <2>8. g[p] = q
    OBVIOUS
  <2>9. \A i \in Talk(c) : At(u, g[i]) = c[i].type
    <3>1. \A i \in Talk(s) : At(u, g[i]) = c[i].type
      BY <2>4, <2>6, <2>7
    <3>2. At(u, g[p]) = c[p].type
      BY <2>1, <2>2, <2>6, <2>8
    <3> QED BY <2>3, <3>1, <3>2
  <2>10. \A i, j \in Talk(c) : i < j => g[i] < g[j] \/ (g[i] = g[j] /\ c[i].type = "DISCONNECT")
    <3> TAKE i, j \in Talk(c)
    <3>1. CASE i \in Talk(s) /\ j \in Talk(s)
      <4>1. i < j => f[i] < f[j] \/ (f[i] = f[j] /\ s[i].type = "DISCONNECT")
        BY <1>1, <3>1 DEF Spells
      <4> QED BY <2>4, <2>7, <3>1, <4>1
    <3>2. CASE i \in Talk(s) /\ j = p
      <4>1. f[i] \in 1 .. 4 /\ f[i] <= l /\ At(w, f[i]) = s[i].type /\ g[i] = f[i] /\ g[j] = q /\ c[i] = s[i]
        BY <2>4, <2>7, <2>8, <3>2
      <4>2. CASE q = l + 1
        BY <4>1, <4>2
      <4>3. CASE q = l /\ At(w, l) = "DISCONNECT"
        BY <4>1, <4>3
      <4> QED BY <2>6, <4>2, <4>3
    <3>3. CASE i = p /\ j \in Talk(s)
      BY <2>2, <2>4, <3>3
    <3>4. CASE i = p /\ j = p
      BY <2>2, <3>4
    <3> QED BY <2>3, <3>1, <3>2, <3>3, <3>4
  <2>11. \A j \in 1 .. 4 : At(u, j) # "none" => \E i \in Talk(c) : g[i] = j
    <3> TAKE j \in 1 .. 4
    <3>1. CASE j <= l
      <4>1. \E i \in Talk(s) : f[i] = j
        BY <1>1, <2>5, <3>1 DEF Spells, EndsAt
      <4> QED BY <2>3, <2>7, <4>1
    <3>2. CASE j = q
      BY <2>3, <2>8, <3>2
    <3> QED BY <2>6, <3>1, <3>2
  <2>12. g \in [Talk(c) -> 1 .. 4]
    <3>1. \A i \in Talk(s) \cup {p} : g[i] \in 1 .. 4
      BY <2>6, <2>7, <2>8
    <3>2. g = [i \in Talk(s) \cup {p} |-> g[i]]
      OBVIOUS
    <3> HIDE DEF g
    <3> QED BY <2>3, <3>1, <3>2
  <2>13. Spells(c, u, g)
    <3> HIDE DEF g
    <3> QED BY <2>9, <2>10, <2>11, <2>12 DEF Spells
  <2> QED BY <2>13 DEF Carries, c, u
<1> QED BY <1>3, <1>4

\* What a channel carries when the packet at its head is taken.
LEMMA CarriesRest ==
    ASSUME NEW s, NEW w, IsSeq(s), s # << >>, Proper(w), Carries(s, w)
    PROVE  /\ Head(s).type \notin Says => Carries(Tail(s), w)
           /\ Head(s).type \in Says =>
                 /\ w[1] = Head(s).type
                 /\ Carries(Tail(s), Rest(w)) \/ (Head(s).type = "DISCONNECT" /\ Carries(Tail(s), w))
<1> DEFINE n == Len(s)
           c == Tail(s)
<1>1. PICK f : Spells(s, w, f)
  BY DEF Carries
<1>2. /\ n \in Nat /\ n # 0 /\ Len(c) = n - 1 /\ Head(s) = s[1]
      /\ \A i \in 1 .. n - 1 : c[i] = s[i + 1]
  BY Sequences
<1> HIDE DEF n, c
<1>3. /\ Talk(c) = {i \in 1 .. n - 1 : i + 1 \in Talk(s)}
      /\ \A i \in Talk(s) : i # 1 => i - 1 \in Talk(c) /\ i - 1 + 1 = i
      /\ \A i \in Talk(c) : i + 1 \in Talk(s) /\ i + 1 # 1 /\ c[i] = s[i + 1]
      /\ Talk(s) \subseteq Int /\ Talk(c) \subseteq Int
      /\ \A i \in Talk(s) : i >= 1
  BY <1>2 DEF Talk, n
<1>4. /\ \A i \in Talk(s) : f[i] \in 1 .. 4 /\ At(w, f[i]) = s[i].type
      /\ \A i, j \in Talk(s) : i < j => f[i] < f[j] \/ (f[i] = f[j] /\ s[i].type = "DISCONNECT")
      /\ \A k \in 1 .. 4 : At(w, k) # "none" => \E i \in Talk(s) : f[i] = k
  BY <1>1 DEF Spells
<1> DEFINE g == [i \in Talk(c) |-> f[i + 1]]
<1>5. /\ g \in [Talk(c) -> 1 .. 4] /\ \A i \in Talk(c) : g[i] = f[i + 1]
  BY <1>3, <1>4
<1>6. /\ \A i \in Talk(c) : At(w, g[i]) = c[i].type
      /\ \A i, j \in Talk(c) : i < j => g[i] < g[j] \/ (g[i] = g[j] /\ c[i].type = "DISCONNECT")
  <2>1. \A i, j \in Talk(c) : i < j => i + 1 < j + 1
    BY <1>3
  <2> HIDE DEF g
  <2> QED BY <1>3, <1>4, <1>5, <2>1
<1> HIDE DEF g
<1>7. ASSUME Head(s).type \notin Says
      PROVE  Carries(c, w)
  <2>1. 1 \notin Talk(s)
    BY <1>2, <1>7 DEF Talk
  <2>2. \A k \in 1 .. 4 : At(w, k) # "none" => \E i \in Talk(c) : g[i] = k
    <3> TAKE k \in 1 .. 4
    <3> HAVE At(w, k) # "none"
    <3>1. PICK i \in Talk(s) : f[i] = k
      BY <1>4
    <3>2. i # 1 /\ i - 1 \in Talk(c) /\ i - 1 + 1 = i
      BY <1>3, <2>1
    <3> QED BY <1>5, <3>1, <3>2
  <2> QED BY <1>5, <1>6, <2>2 DEF Carries, Spells
<1>8. ASSUME Head(s).type \in Says
      PROVE  /\ w[1] = Head(s).type
             /\ Carries(c, Rest(w)) \/ (Head(s).type = "DISCONNECT" /\ Carries(c, w))
  <2>1. 1 \in Talk(s) /\ s[1].type # "none"
    BY <1>2, <1>8 DEF Talk, n, Says
  <2>2. f[1] = 1
    <3>1. At(w, 1) # "none"
      <4>1. f[1] \in 1 .. 4 /\ At(w, f[1]) # "none"
        BY <1>4, <2>1
      <4>2. /\ w[4] = "none" /\ (w[1] = "none" => w[2] = "none") /\ (w[2] = "none" => w[3] = "none")
        BY DEF Proper
      <4> QED BY <4>1, <4>2 DEF At
    <3>2. PICK i \in Talk(s) : f[i] = 1
      BY <1>4, <3>1
    <3>3. i = 1 \/ 1 < i
      BY <1>3
    <3> QED BY <1>4, <2>1, <3>2, <3>3
  <2>3. w[1] = Head(s).type
    BY <1>2, <1>4, <2>1, <2>2 DEF At
  <2>4. CASE \E i \in Talk(s) : i # 1 /\ f[i] = 1
    <3>1. Head(s).type = "DISCONNECT"
      <4>1. PICK i \in Talk(s) : i # 1 /\ f[i] = 1
        BY <2>4
      <4>2. 1 < i
        BY <1>3, <4>1
      <4> QED BY <1>2, <1>4, <2>1, <2>2, <4>1, <4>2
    <3>2. \A k \in 1 .. 4 : At(w, k) # "none" => \E i \in Talk(c) : g[i] = k
      <4> TAKE k \in 1 .. 4
      <4> HAVE At(w, k) # "none"
      <4>1. PICK i \in Talk(s) : f[i] = k /\ i # 1
        <5>1. CASE k = 1
          BY <2>4, <5>1
        <5>2. CASE k # 1
          BY <1>4, <2>2, <5>2
        <5> QED BY <5>1, <5>2
      <4> QED BY <1>3, <1>5, <4>1, SMTT(30)
    <3> QED BY <1>5, <1>6, <2>3, <3>1, <3>2 DEF Carries, Spells
  <2>5. CASE \A i \in Talk(s) : i # 1 => f[i] # 1
    <3> DEFINE h == [i \in Talk(c) |-> g[i] - 1]
    <3>1. \A k \in 1 .. 3 : At(Rest(w), k) = At(w, k + 1)
      BY DEF At, Rest
    <3>2. At(Rest(w), 4) = "none"
      BY DEF At, Rest
    <3>3. \A i \in Talk(c) : g[i] - 1 \in 1 .. 3 /\ g[i] - 1 + 1 = g[i]
      <4> TAKE i \in Talk(c)
      <4>1. i + 1 \in Talk(s) /\ i + 1 # 1 /\ g[i] = f[i + 1] /\ f[i + 1] \in 1 .. 4
        BY <1>3, <1>4, <1>5
      <4> QED BY <2>5, <4>1
    <3>4. h \in [Talk(c) -> 1 .. 4] /\ \A i \in Talk(c) : h[i] = g[i] - 1
      BY <3>3
    <3> HIDE DEF h
    <3>5. \A i \in Talk(c) : At(Rest(w), h[i]) = c[i].type
      BY <1>6, <3>1, <3>3, <3>4
    <3>6. \A i, j \in Talk(c) : i < j => h[i] < h[j] \/ (h[i] = h[j] /\ c[i].type = "DISCONNECT")
      BY <1>5, <1>6, <3>4
    <3>7. \A k \in 1 .. 4 : At(Rest(w), k) # "none" => \E i \in Talk(c) : h[i] = k
      <4> TAKE k \in 1 .. 4
      <4> HAVE At(Rest(w), k) # "none"
      <4>1. k \in 1 .. 3 /\ k + 1 \in 1 .. 4 /\ k + 1 # 1 /\ k + 1 - 1 = k
        BY <3>2
      <4>2. PICK i \in Talk(s) : f[i] = k + 1
        BY <1>4, <3>1, <4>1
      <4>3. i # 1
        BY <2>2, <4>1, <4>2
      <4>4. i - 1 \in Talk(c) /\ i - 1 + 1 = i
        BY <1>3, <4>3
      <4>5. h[i - 1] = k
        BY <1>5, <3>4, <4>1, <4>2, <4>4
      <4> QED BY <4>4, <4>5
    <3>8. Carries(c, Rest(w))
      BY <3>4, <3>5, <3>6, <3>7 DEF Carries, Spells
    <3> QED BY <2>3, <3>8
  <2> QED BY <2>4, <2>5
<1> QED BY <1>7, <1>8 DEF c

\* Each letter of a word stands for a packet.
LEMMA LettersAreSaid ==
    ASSUME NEW s, NEW w, IsSeq(s), Proper(w), Carries(s, w)
    PROVE  \A t \in {w[1], w[2], w[3]} : t # "none" => \E i \in 1 .. Len(s) : s[i].type = t
<1>1. PICK f : Spells(s, w, f)
  BY DEF Carries
<1>2. \A k \in 1 .. 4 : At(w, k) # "none" => \E i \in 1 .. Len(s) : s[i].type = At(w, k)
  BY <1>1 DEF Spells, Talk
<1>3. At(w, 1) = w[1] /\ At(w, 2) = w[2] /\ At(w, 3) = w[3]
  BY DEF At
<1>4. 1 \in 1 .. 4 /\ 2 \in 1 .. 4 /\ 3 \in 1 .. 4
  OBVIOUS
<1> QED BY <1>2, <1>3, <1>4

(***************************************************************************)
(* What nodes keep and send                                                *)
(***************************************************************************)

LEMMA Constants ==
    /\ IsFiniteSet(Node) /\ Cardinality(Node) \in Nat /\ Node = 1 .. Cardinality(Node)
    /\ Node \subseteq Nat /\ None \notin Node
    /\ maxNeighbors \in Nat /\ InitialTokens \in Nat
<1>1. IsFiniteSet(Node) /\ Node = 1 .. Cardinality(Node) /\ maxNeighbors \in Nat /\ InitialTokens \in Nat
  BY GiaAssumption
<1>2. Cardinality(Node) \in Nat
  BY <1>1, FS_CardinalityType
<1>3. \A i \in 1 .. Cardinality(Node) : i \in Nat /\ i # 0
  BY <1>2
<1>4. Node \subseteq Nat /\ 0 \notin Node
  BY <1>1, <1>3
<1> QED BY <1>1, <1>2, <1>4 DEF None

\* A set of natural numbers has a least one, a set of nodes a highest one.
LEMMA Least ==
    ASSUME NEW S \in SUBSET Nat, S # {}
    PROVE  \E x \in S : \A y \in S : x <= y
<1> DEFINE R == OpToRel(<, Nat)
<1>1. IsWellFoundedOn(R, Nat)
  BY NatLessThanWellFounded
<1>2. \A x, y \in Nat : x < y => <<x, y>> \in R
  BY DEF OpToRel
<1> HIDE DEF R
<1>3. PICK x \in S : \A y \in S : ~ (<<y, x>> \in R)
  BY <1>1, WFMin
<1>4. \A y \in S : x \in Nat /\ y \in Nat /\ ~ (y < x)
  BY <1>2, <1>3
<1> QED BY <1>3, <1>4

LEMMA Highest ==
    ASSUME NEW S \in SUBSET Node, S # {}
    PROVE  \E x \in S : \A y \in S : x >= y
<1> DEFINE T == {k \in Nat : \A y \in S : y <= k}
<1>1. S \subseteq Nat /\ \A y \in S : 1 <= y
  BY Constants
<1>2. Cardinality(Node) \in T
  BY Constants
<1>3. PICK k \in T : \A j \in T : k <= j
  BY <1>2, Least
<1>4. k \in S
  <2> SUFFICES ASSUME k \notin S PROVE FALSE
    OBVIOUS
  <2>1. PICK z \in S : TRUE
    OBVIOUS
  <2>2. k - 1 \in Nat /\ \A y \in S : y <= k - 1
    <3>1. \A y \in S : y \in Nat /\ y <= k /\ y # k /\ 1 <= y
      BY <1>1
    <3> QED BY <2>1, <3>1
  <2> QED BY <1>3, <2>2
<1> QED BY <1>1, <1>4

LEMMA MaxIsOne ==
    ASSUME NEW S \in SUBSET Node, S # {}
    PROVE  Max(S) \in S
BY Highest DEF Max

LEMMA CalmIsTransitive ==
    ASSUME NEW r, NEW t, NEW u, Calm(r, t), Calm(t, u)
    PROVE  Calm(r, u)
BY DEF Calm, Alike

LEMMA CalmIsReflexive ==
    ASSUME NEW r, WorkOK(r)
    PROVE  Calm(r, r)
BY DEF Calm, Alike

LEMMA SaysOneMore ==
    ASSUME NEW o, Packets(o), NEW m, PacketOK(m)
    PROVE  /\ Packets(Append(o, m))
           /\ m.type \notin Says => \A x \in Letters : Speech(o, x) => Speech(Append(o, m), x)
           /\ m.type \in Says /\ Speech(o, "none") => Speech(Append(o, m), m.type)
<1> DEFINE n == Len(o)
           c == Append(o, m)
<1>1. /\ n \in Nat /\ IsSeq(c) /\ Len(c) = n + 1 /\ c[n + 1] = m
      /\ \A i \in 1 .. n : c[i] = o[i]
  BY Sequences DEF Packets
<1> HIDE DEF n, c
<1>2. \A i \in 1 .. Len(c) : i \in 1 .. n \/ i = n + 1
  BY <1>1
<1>3. Packets(c)
  BY <1>1, <1>2 DEF Packets, n
<1>4. \A i \in Talk(o) : i \in 1 .. n /\ i \in 1 .. Len(c) /\ c[i] = o[i]
  BY <1>1 DEF Talk, n
<1>5. ASSUME m.type \notin Says, NEW x \in Letters, Speech(o, x)
      PROVE  Speech(c, x)
  <2>1. Talk(c) = Talk(o)
    BY <1>1, <1>2, <1>4, <1>5 DEF Talk, n
  <2>2. CASE x = "none" /\ Talk(o) = {}
    BY <2>1, <2>2 DEF Speech
  <2>3. CASE \E k \in 1 .. Len(o) : Talk(o) = {k} /\ o[k].type = x
    BY <1>4, <2>1, <2>3 DEF Speech
  <2> QED BY <1>5, <2>2, <2>3 DEF Speech
<1>6. ASSUME m.type \in Says, Speech(o, "none")
      PROVE  Speech(c, m.type)
  <2>1. Talk(o) = {}
    BY <1>6 DEF Speech, Talk, Says
  <2>2. Talk(c) = {n + 1} /\ n + 1 \in 1 .. Len(c)
    <3>1. \A i \in 1 .. n : c[i].type \notin Says
      BY <1>1, <2>1 DEF Talk, n
    <3>2. n + 1 \in 1 .. Len(c)
      BY <1>1
    <3> QED BY <1>1, <1>2, <1>6, <3>1, <3>2 DEF Talk
  <2> QED BY <1>1, <2>2 DEF Speech
<1> QED BY <1>3, <1>5, <1>6 DEF c

LEMMA SaysNothingMore ==
    ASSUME NEW o, Packets(o), NEW q, Packets(q), Talk(q) = {}
    PROVE  Packets(o \o q) /\ \A x \in Letters : Speech(o, x) => Speech(o \o q, x)
<1> DEFINE n == Len(o)
           c == o \o q
<1>1. /\ n \in Nat /\ Len(q) \in Nat /\ IsSeq(c) /\ Len(c) = n + Len(q)
      /\ \A i \in 1 .. n : c[i] = o[i]
      /\ \A i \in 1 .. Len(q) : c[n + i] = q[i]
  BY Sequences DEF Packets
<1> HIDE DEF n, c
<1>2. \A i \in 1 .. Len(c) : i \in 1 .. n \/ (i - n \in 1 .. Len(q) /\ n + (i - n) = i /\ c[i] = q[i - n])
  <2>1. \A i \in 1 .. Len(c) : i \in 1 .. n \/ (i - n \in 1 .. Len(q) /\ n + (i - n) = i)
    BY <1>1
  <2> QED BY <1>1, <2>1
<1>3. Packets(c)
  BY <1>1, <1>2 DEF Packets, n
<1>4. \A i \in Talk(o) : i \in 1 .. n /\ i \in 1 .. Len(c) /\ c[i] = o[i]
  BY <1>1 DEF Talk, n
<1>5. Talk(c) = Talk(o)
  <2>1. \A i \in 1 .. Len(q) : q[i].type \notin Says
    BY DEF Talk
  <2>2. \A i \in 1 .. Len(c) : c[i].type \in Says => i \in 1 .. n /\ c[i] = o[i]
    BY <1>1, <1>2, <2>1
  <2> QED BY <1>4, <2>2 DEF Talk, n
<1>6. ASSUME NEW x \in Letters, Speech(o, x)
      PROVE  Speech(c, x)
  <2>1. CASE x = "none" /\ Talk(o) = {}
    BY <1>5, <2>1 DEF Speech
  <2>2. CASE \E k \in 1 .. Len(o) : Talk(o) = {k} /\ o[k].type = x
    BY <1>4, <1>5, <2>2 DEF Speech
  <2> QED BY <1>6, <2>1, <2>2 DEF Speech
<1> QED BY <1>3, <1>6 DEF c

LEMMA Sent ==
    ASSUME NEW r, WorkOK(r), NEW to \in Node \ {r.n}, NEW m, PacketOK(m), NEW t, t = Send(r, to, m)
    PROVE  /\ WorkOK(t) /\ t.n = r.n /\ t.s = r.s
           /\ \A k \in Node \ {to} : t.out[k] = r.out[k]
           /\ m.type \notin Says => Calm(r, t)
           /\ m.type \in Says /\ Speech(r.out[to], "none") => Speech(t.out[to], m.type)
<1>1. /\ t = [f \in WorkFields |-> t[f]] /\ t.n = r.n /\ t.s = r.s
      /\ t.out = [r.out EXCEPT ![to] = Append(@, m)]
  BY DEF Send, WorkOK, WorkFields
<1>2. /\ t.out = [k \in Node |-> t.out[k]] /\ t.out[to] = Append(r.out[to], m)
      /\ \A k \in Node \ {to} : t.out[k] = r.out[k]
  BY <1>1 DEF WorkOK
<1>3. Packets(r.out[to]) /\ to # r.n /\ to \in Node
  BY DEF WorkOK
<1>4. /\ Packets(t.out[to])
      /\ m.type \notin Says => \A x \in Letters : Speech(r.out[to], x) => Speech(t.out[to], x)
      /\ m.type \in Says /\ Speech(r.out[to], "none") => Speech(t.out[to], m.type)
  <2>1. PICK o : o = r.out[to]
    OBVIOUS
  <2>2. Packets(o) /\ t.out[to] = Append(o, m)
    BY <1>2, <1>3, <2>1
  <2> QED BY <2>1, <2>2, SaysOneMore
<1>5. WorkOK(t)
  <2>1. \A k \in Node : Packets(t.out[k])
    BY <1>2, <1>4 DEF WorkOK
  <2>2. t.out[t.n] = << >> /\ t.n \in Node /\ StateOK(t.n, t.s)
    BY <1>1, <1>2, <1>3 DEF WorkOK
  <2> QED BY <1>1, <1>2, <2>1, <2>2 DEF WorkOK
<1>6. m.type \notin Says => \A k \in Node : \A x \in Letters : Speech(r.out[k], x) => Speech(t.out[k], x)
  BY <1>2, <1>4
<1> QED BY <1>1, <1>2, <1>4, <1>5, <1>6 DEF Calm, Alike

\* A handler changes the node's state, and sends nothing.
LEMMA Changed ==
    ASSUME NEW r, WorkOK(r), NEW t, t = [f \in WorkFields |-> t[f]], t.n = r.n, t.out = r.out, StateOK(r.n, t.s)
    PROVE  /\ WorkOK(t)
           /\ Alike(r.s, t.s) => Calm(r, t)
BY DEF WorkOK, Calm

LEMMA NeighborChanged ==
    ASSUME NEW r, WorkOK(r), NEW m \in DOMAIN r.s.neighbors, NEW e, IsInfo(e), NEW t,
           t = [r EXCEPT !.s = [r.s EXCEPT !.neighbors = [r.s.neighbors EXCEPT ![m] = e]]]
    PROVE  Calm(r, t)
<1> DEFINE b == r.s.neighbors
           c == [b EXCEPT ![m] = e]
<1>1. t = [f \in WorkFields |-> t[f]] /\ t.n = r.n /\ t.out = r.out /\ t.s = [r.s EXCEPT !.neighbors = c]
  BY DEF WorkOK, WorkFields
<1>2. StateOK(r.n, r.s) /\ NeighborsOK(r.n, b)
  BY DEF WorkOK, StateOK
<1>3. NeighborsOK(r.n, c) /\ DOMAIN c = DOMAIN b
  <2>1. c = [k \in DOMAIN b |-> IF k = m THEN e ELSE b[k]]
    BY <1>2 DEF NeighborsOK
  <2> HIDE DEF b, c
  <2>2. DOMAIN c = DOMAIN b /\ c = [k \in DOMAIN c |-> c[k]]
    BY <2>1
  <2> QED BY <1>2, <2>1, <2>2 DEF NeighborsOK
<1> HIDE DEF c
<1>4. StateOK(r.n, t.s) /\ Alike(r.s, t.s)
  BY <1>1, <1>2, <1>3 DEF StateOK, Alike, NodeFields
<1> QED BY <1>1, <1>4, Changed

LEMMA TokenGranted ==
    ASSUME NEW r, WorkOK(r), NEW m \in DOMAIN r.s.neighbors
    PROVE  /\ Calm(r, [r EXCEPT !.s.neighbors[m].sent = @ + 1])
           /\ Calm(r, [r EXCEPT !.s.neighbors[m].received = @ + 1])
           /\ Calm(r, [r EXCEPT !.s.neighbors[m].keys = TRUE])
           /\ r.s.neighbors[m].received # 0 => Calm(r, TokenUsed(r, m))
           /\ \A d : Calm(r, UpdateNeighborList(r, m, d))
<1> DEFINE b == r.s.neighbors
<1>1. IsInfo(b[m])
  BY DEF WorkOK, StateOK, NeighborsOK
<1>2. Calm(r, [r EXCEPT !.s.neighbors[m].sent = @ + 1])
  <2> DEFINE e == [b[m] EXCEPT !.sent = b[m].sent + 1]
  <2>1. IsInfo(e)
    BY <1>1 DEF IsInfo, InfoFields
  <2>2. PICK t : t = [r EXCEPT !.s.neighbors[m].sent = @ + 1]
    OBVIOUS
  <2>3. t = [r EXCEPT !.s = [r.s EXCEPT !.neighbors = [r.s.neighbors EXCEPT ![m] = e]]]
    BY <2>2
  <2> HIDE DEF e
  <2> QED BY <2>1, <2>2, <2>3, NeighborChanged
<1>3. Calm(r, [r EXCEPT !.s.neighbors[m].received = @ + 1])
  <2> DEFINE e == [b[m] EXCEPT !.received = b[m].received + 1]
  <2>1. IsInfo(e)
    BY <1>1 DEF IsInfo, InfoFields
  <2>2. PICK t : t = [r EXCEPT !.s.neighbors[m].received = @ + 1]
    OBVIOUS
  <2>3. t = [r EXCEPT !.s = [r.s EXCEPT !.neighbors = [r.s.neighbors EXCEPT ![m] = e]]]
    BY <2>2
  <2> HIDE DEF e
  <2> QED BY <2>1, <2>2, <2>3, NeighborChanged
<1>4. Calm(r, [r EXCEPT !.s.neighbors[m].keys = TRUE])
  <2> DEFINE e == [b[m] EXCEPT !.keys = TRUE]
  <2>1. IsInfo(e)
    BY <1>1 DEF IsInfo, InfoFields
  <2>2. PICK t : t = [r EXCEPT !.s.neighbors[m].keys = TRUE]
    OBVIOUS
  <2>3. t = [r EXCEPT !.s = [r.s EXCEPT !.neighbors = [r.s.neighbors EXCEPT ![m] = e]]]
    BY <2>2
  <2> HIDE DEF e
  <2> QED BY <2>1, <2>2, <2>3, NeighborChanged
<1>5. ASSUME r.s.neighbors[m].received # 0
      PROVE  Calm(r, TokenUsed(r, m))
  <2> DEFINE e == [b[m] EXCEPT !.received = b[m].received - 1]
  <2>1. IsInfo(e)
    BY <1>1, <1>5 DEF IsInfo, InfoFields
  <2>2. PICK t : t = TokenUsed(r, m)
    OBVIOUS
  <2>3. t = [r EXCEPT !.s = [r.s EXCEPT !.neighbors = [r.s.neighbors EXCEPT ![m] = e]]]
    BY <2>2 DEF TokenUsed
  <2> HIDE DEF e
  <2> QED BY <2>1, <2>2, <2>3, NeighborChanged
<1>6. ASSUME NEW d
      PROVE  Calm(r, UpdateNeighborList(r, m, d))
  <2> DEFINE e == [b[m] EXCEPT !.degree = d, !.heard = TRUE]
  <2>1. IsInfo(e)
    BY <1>1 DEF IsInfo, InfoFields
  <2>2. PICK t : t = UpdateNeighborList(r, m, d)
    OBVIOUS
  <2>3. t = [r EXCEPT !.s = [r.s EXCEPT !.neighbors = [r.s.neighbors EXCEPT ![m] = e]]]
    BY <2>2 DEF UpdateNeighborList
  <2> HIDE DEF e
  <2> QED BY <2>1, <2>2, <2>3, NeighborChanged
<1> QED BY <1>2, <1>3, <1>4, <1>5, <1>6

(***************************************************************************)
(* Tokens, searches and answers leave links alone                          *)
(***************************************************************************)
\* Of a node's neighbors, one is ahead of all others when a token is granted.
LEMMA OneIsAhead ==
    ASSUME NEW r, WorkOK(r), DOMAIN r.s.neighbors # {}
    PROVE  \E m \in DOMAIN r.s.neighbors : \A o \in DOMAIN r.s.neighbors \ {m} : Ahead(r.s, m, o)
<1> DEFINE b == r.s.neighbors
           S == {b[m].sent : m \in DOMAIN b}
<1>1. DOMAIN b \subseteq Node /\ \A m \in DOMAIN b : b[m].sent \in Nat
  BY DEF WorkOK, StateOK, NeighborsOK, IsInfo
<1>2. S \in SUBSET Nat /\ S # {}
  BY <1>1
<1>3. PICK k \in S : \A j \in S : k <= j
  BY <1>2, Least
<1> DEFINE T == {m \in DOMAIN b : b[m].sent = k}
<1>4. T \in SUBSET Node /\ T # {}
  BY <1>1, <1>3
<1>5. PICK m \in T : \A o \in T : m >= o
  BY <1>4, Highest
<1>6. \A o \in DOMAIN b \ {m} : b[m].sent < b[o].sent \/ (b[m].sent = b[o].sent /\ m > o)
  <2> TAKE o \in DOMAIN b \ {m}
  <2>1. b[m].sent = k /\ k <= b[o].sent /\ b[o].sent \in Nat /\ k \in Nat
    BY <1>1, <1>2, <1>3
  <2>2. o \in Nat /\ m \in Nat /\ o # m
    BY <1>1, Constants
  <2>3. b[o].sent = k => m >= o
    BY <1>5
  <2> QED BY <2>1, <2>2, <2>3
<1> QED BY <1>6 DEF Ahead

LEMMA SizeIsZero ==
    ASSUME NEW n, NEW s, StateOK(n, s)
    PROVE  /\ IsFiniteSet(DOMAIN s.neighbors) /\ Size(s) \in Nat /\ Size(s) <= maxNeighbors
           /\ Size(s) = 0 <=> DOMAIN s.neighbors = {}
<1>1. DOMAIN s.neighbors \subseteq Node /\ Cardinality(DOMAIN s.neighbors) <= maxNeighbors
  BY DEF StateOK, NeighborsOK
<1>2. IsFiniteSet(DOMAIN s.neighbors)
  BY <1>1, Constants, FS_Subset
<1> QED BY <1>1, <1>2, FS_CardinalityType, FS_EmptySet DEF Size

LEMMA GrantTokenIsCalm ==
    ASSUME NEW r, WorkOK(r)
    PROVE  Calm(r, GrantToken(r)) /\ \A fromApp : Calm(r, GrantTokenBack(r, fromApp))
<1>1. Calm(r, GrantToken(r))
  <2>1. CASE Size(r.s) = 0
    BY <2>1, CalmIsReflexive DEF GrantToken
  <2>2. CASE Size(r.s) # 0
    <3>1. DOMAIN r.s.neighbors # {}
      BY <2>2, SizeIsZero DEF WorkOK
    <3>2. PICK m : m = CHOOSE k \in DOMAIN r.s.neighbors : \A o \in DOMAIN r.s.neighbors \ {k} : Ahead(r.s, k, o)
      OBVIOUS
    <3>3. m \in DOMAIN r.s.neighbors
      BY <3>1, <3>2, OneIsAhead
    <3>4. PICK t : t = [r EXCEPT !.s.neighbors[m].sent = @ + 1]
      OBVIOUS
    <3>5. Calm(r, t)
      BY <3>3, <3>4, TokenGranted
    <3>6. GrantToken(r) = Send(t, m, Note(r, "TOKEN"))
      BY <2>2, <3>2, <3>4 DEF GrantToken
    <3>7. m \in Node \ {r.n}
      BY <3>3 DEF WorkOK, StateOK, NeighborsOK
    <3>8. PacketOK(Note(r, "TOKEN")) /\ Note(r, "TOKEN").type \notin Says
      BY DEF PacketOK, Note, Types, Says
    <3>9. Calm(t, Send(t, m, Note(r, "TOKEN")))
      <4>1. WorkOK(t) /\ t.n = r.n
        BY <3>5 DEF Calm
      <4> QED BY <3>7, <3>8, <4>1, Sent
    <3> QED BY <3>5, <3>6, <3>9, CalmIsTransitive
  <2> QED BY <2>1, <2>2
<1> QED BY <1>1, CalmIsReflexive DEF GrantTokenBack

\* What else a handler may change without disturbing links.
LEMMA StateChanged ==
    ASSUME NEW r, WorkOK(r), NEW s, StateOK(r.n, s), Alike(r.s, s)
    PROVE  Calm(r, [r EXCEPT !.s = s])
<1>1. r = [f \in WorkFields |-> r[f]]
  BY DEF WorkOK
<1> QED BY <1>1, Changed DEF WorkFields

LEMMA NotesChanged ==
    ASSUME NEW r, WorkOK(r), NEW x
    PROVE  /\ Calm(r, [r EXCEPT !.found = x]) /\ Calm(r, [r EXCEPT !.told = x])
           /\ Calm(r, [r EXCEPT !.minted = x])
<1>1. Alike(r.s, r.s) /\ StateOK(r.n, r.s) /\ r = [f \in WorkFields |-> r[f]]
  BY DEF Alike, WorkOK
<1>2. Calm(r, [r EXCEPT !.found = x])
  BY <1>1, Changed DEF WorkFields
<1>3. Calm(r, [r EXCEPT !.told = x])
  BY <1>1, Changed DEF WorkFields
<1>4. Calm(r, [r EXCEPT !.minted = x])
  BY <1>1, Changed DEF WorkFields
<1> QED BY <1>2, <1>3, <1>4

LEMMA ForwardAnswersIsCalm ==
    ASSUME NEW r, WorkOK(r), NEW id, NEW found, IsSeq(found), NEW path
    PROVE  Calm(r, ForwardAnswers(r, id, found, path))
<1>1. CASE path = << >>
  BY <1>1, NotesChanged DEF ForwardAnswers, Deliver
<1>2. CASE path # << >> /\ Last(path) \notin DOMAIN r.s.neighbors
  BY <1>2, CalmIsReflexive DEF ForwardAnswers
<1>3. CASE path # << >> /\ Last(path) \in DOMAIN r.s.neighbors
  <2> DEFINE q == [i \in 1 .. Len(found) |-> Answer(id, found[i], path)]
  <2>1. PICK to : to = Last(path)
    OBVIOUS
  <2>2. to \in Node \ {r.n}
    BY <1>3, <2>1 DEF WorkOK, StateOK, NeighborsOK
  <2>3. PICK t : t = ForwardAnswers(r, id, found, path)
    OBVIOUS
  <2>4. t = [r EXCEPT !.out = [r.out EXCEPT ![to] = r.out[to] \o q]]
    BY <1>3, <2>1, <2>3 DEF ForwardAnswers
  <2>5. Packets(q) /\ Talk(q) = {}
    <3> DEFINE A == {Answer(id, found[i], path) : i \in 1 .. Len(found)}
    <3>1. Len(found) \in Nat
      BY Sequences
    <3>2. q \in Seq(A)
      BY <3>1, IsASeq
    <3>3. q = [i \in 1 .. Len(found) |-> q[i]] /\ \A i \in 1 .. Len(found) : q[i] = Answer(id, found[i], path)
      OBVIOUS
    <3> HIDE DEF q
    <3>4. Len(q) = Len(found)
      BY <3>1, <3>2, <3>3, LenProperties
    <3>5. \A i \in 1 .. Len(q) : q[i].type = "ANSWER"
      BY <3>3, <3>4 DEF Answer
    <3> QED BY <3>2, <3>5 DEF Packets, IsSeq, PacketOK, Types, Says, Talk
  <2> HIDE DEF q
  <2>6. Packets(r.out[to])
    BY <2>2 DEF WorkOK
  <2>7. Packets(r.out[to] \o q) /\ \A x \in Letters : Speech(r.out[to], x) => Speech(r.out[to] \o q, x)
    BY <2>5, <2>6, SaysNothingMore
  <2>8. /\ t = [f \in WorkFields |-> t[f]] /\ t.n = r.n /\ t.s = r.s
        /\ t.out = [r.out EXCEPT ![to] = r.out[to] \o q]
    BY <2>4 DEF WorkOK, WorkFields
  <2>9. /\ t.out = [k \in Node |-> t.out[k]] /\ t.out[to] = r.out[to] \o q
        /\ \A k \in Node \ {to} : t.out[k] = r.out[k]
    BY <2>2, <2>8 DEF WorkOK
  <2>10. \A k \in Node : Packets(t.out[k]) /\ \A x \in Letters : Speech(r.out[k], x) => Speech(t.out[k], x)
    BY <2>7, <2>9 DEF WorkOK
  <2>11. WorkOK(t) /\ t.n = r.n
    BY <2>2, <2>8, <2>9, <2>10 DEF WorkOK
  <2> QED BY <2>3, <2>8, <2>10, <2>11 DEF Calm, Alike
<1> QED BY <1>1, <1>2, <1>3

LEMMA AnsweredIsCalm ==
    ASSUME NEW r, WorkOK(r), NEW m, MessageOK(m)
    PROVE  Calm(r, Answered(r, m).r) /\ MessageOK(Answered(r, m).m)
<1> DEFINE new   == Holders(r) \ m.found
           taken == {h \in new : FoundBefore(r, h, new) < m.responses}
           t     == ForwardAnswers(r, m.id, InOrder(r, taken), m.path)
           found == t.found \cup {<<m.id, h>> : h \in taken}
           u     == [t EXCEPT !.found = @ \cup {<<m.id, h>> : h \in taken}]
           k     == [m EXCEPT !.found = @ \cup taken, !.responses = @ - Cardinality(taken)]
<1>1. Answered(r, m).r = u /\ Answered(r, m).m = k
  BY DEF Answered
<1>2. IsSeq(InOrder(r, taken))
  <2>1. taken \subseteq Node
    BY DEF Holders, WorkOK, StateOK, NeighborsOK
  <2> HIDE DEF taken
  <2>2. Cardinality(taken) \in Nat
    BY <2>1, Constants, FS_Subset, FS_CardinalityType
  <2> DEFINE F(i) == CHOOSE h \in taken : FoundBefore(r, h, taken) = i - 1
             A == {F(i) : i \in 1 .. Cardinality(taken)}
  <2>3. InOrder(r, taken) = [i \in 1 .. Cardinality(taken) |-> F(i)]
    BY DEF InOrder
  <2>4. \A i \in 1 .. Cardinality(taken) : F(i) \in A
    OBVIOUS
  <2> HIDE DEF F, A
  <2>5. InOrder(r, taken) \in Seq(A)
    BY <2>2, <2>3, <2>4, IsASeq
  <2> QED BY <2>5 DEF IsSeq
<1>3. Calm(r, t)
  <2> HIDE DEF taken
  <2> QED BY <1>2, ForwardAnswersIsCalm
<1> HIDE DEF t, taken
<1>4. Calm(t, u)
  <2>1. WorkOK(t)
    BY <1>3 DEF Calm
  <2>2. u = [t EXCEPT !.found = found]
    OBVIOUS
  <2> HIDE DEF found, u
  <2> QED BY <2>1, <2>2, NotesChanged
<1>5. MessageOK(k)
  <2>1. DOMAIN k = DOMAIN m /\ (m.type \in {"SEARCH", "ROUTE"} => k.type = m.type)
    BY DEF MessageOK
  <2> QED BY <2>1 DEF MessageOK
<1> QED BY <1>1, <1>3, <1>4, <1>5, CalmIsTransitive

LEMMA WaitsIsCalm ==
    ASSUME NEW r, WorkOK(r), NEW m, MessageOK(m), NEW fromApp
    PROVE  Calm(r, Waits(r, m, fromApp)) /\ Calm(r, Remembers(r, m))
<1>1. StateOK(r.n, r.s)
  BY DEF WorkOK
<1>2. Calm(r, Waits(r, m, fromApp))
  <2> DEFINE s == [r.s EXCEPT !.waiting = @ \cup {[msg |-> m, fromApp |-> fromApp]}]
  <2>1. StateOK(r.n, s) /\ Alike(r.s, s)
    BY <1>1 DEF StateOK, NodeFields, Alike
  <2>2. Waits(r, m, fromApp) = [r EXCEPT !.s = s]
    BY DEF Waits
  <2> HIDE DEF s
  <2> QED BY <2>1, <2>2, StateChanged
<1>3. Calm(r, Remembers(r, m))
  <2> DEFINE s == [r.s EXCEPT !.messages = With(@, m.id, DOMAIN r.s.neighbors \ {m.src})]
  <2>1. StateOK(r.n, s) /\ Alike(r.s, s)
    BY <1>1 DEF StateOK, NodeFields, Alike
  <2>2. CASE m.id \in DOMAIN r.s.messages
    BY <2>2, CalmIsReflexive DEF Remembers
  <2>3. CASE m.id \notin DOMAIN r.s.messages
    <3>1. Remembers(r, m) = [r EXCEPT !.s = s]
      BY <2>3 DEF Remembers
    <3> HIDE DEF s
    <3> QED BY <2>1, <3>1, StateChanged
  <2> QED BY <2>2, <2>3
<1> QED BY <1>2, <1>3

LEMMA SendOnIsCalm ==
    ASSUME NEW r, WorkOK(r), NEW m, MessageOK(m), NEW fromApp, NEW to \in DOMAIN r.s.neighbors,
           r.s.neighbors[to].received # 0
    PROVE  Calm(r, SendOn(r, m, to, fromApp))
<1> DEFINE t == TokenUsed(r, to)
           u == GrantTokenBack(t, fromApp)
           k == [m EXCEPT !.hops = @ - 1, !.src = r.n, !.degree = r.s.degree]
<1>1. SendOn(r, m, to, fromApp) = Send(u, to, k)
  BY DEF SendOn
<1>2. Calm(r, t)
  BY TokenGranted
<1>3. Calm(t, u)
  BY <1>2, GrantTokenIsCalm DEF Calm
<1>4. PacketOK(k) /\ k.type \notin Says
  <2>1. DOMAIN k = DOMAIN m /\ (m.type \in {"SEARCH", "ROUTE"} => k.type = m.type)
    BY DEF MessageOK
  <2> QED BY <2>1 DEF MessageOK, PacketOK, Types, Says
<1>5. to \in Node \ {r.n}
  BY DEF WorkOK, StateOK, NeighborsOK
<1>6. WorkOK(u) /\ u.n = r.n
  BY <1>2, <1>3 DEF Calm
<1> HIDE DEF t, u, k
<1>7. Calm(u, Send(u, to, k))
  BY <1>4, <1>5, <1>6, Sent
<1> QED BY <1>1, <1>2, <1>3, <1>7, CalmIsTransitive

LEMMA WalkOnIsCalm ==
    ASSUME NEW r, WorkOK(r), NEW m, MessageOK(m), NEW fromApp
    PROVE  Calm(r, WalkOn(r, m, fromApp))
<1> DEFINE nodes == Remaining(r, m)
           hop   == Max(WithToken(r, nodes))
           t     == Remembers(r, m)
           ms    == [t.s.messages EXCEPT ![m.id] = nodes \ {hop}]
           s     == [t.s EXCEPT !.messages = ms]
           u     == [t EXCEPT !.s = s]
<1>1. Calm(r, t) /\ t.s.neighbors = r.s.neighbors
  <2>1. Calm(r, t)
    BY WaitsIsCalm
  <2>2. r = [f \in WorkFields |-> r[f]] /\ r.s = [f \in NodeFields |-> r.s[f]]
    BY DEF WorkOK, StateOK
  <2>3. t.s.neighbors = r.s.neighbors
    BY <2>2 DEF Remembers, WorkFields, NodeFields
  <2> QED BY <2>1, <2>3
<1>2. WorkOK(t) /\ StateOK(t.n, t.s) /\ t.n = r.n
  BY <1>1 DEF Calm, WorkOK
<1>3. WithToken(r, nodes) \in SUBSET DOMAIN r.s.neighbors /\ DOMAIN r.s.neighbors \subseteq Node
  BY DEF Remaining, WithToken, WorkOK, StateOK, NeighborsOK
<1>4. CASE WithToken(r, nodes) = {}
  <2>1. WalkOn(r, m, fromApp) = Waits(t, m, fromApp)
    BY <1>4 DEF WalkOn
  <2> HIDE DEF t
  <2>2. Calm(t, Waits(t, m, fromApp))
    BY <1>2, WaitsIsCalm
  <2> QED BY <1>1, <2>1, <2>2, CalmIsTransitive
<1>5. CASE WithToken(r, nodes) # {}
  <2>1. WalkOn(r, m, fromApp) = SendOn([t EXCEPT !.s.messages[m.id] = nodes \ {hop}], m, hop, fromApp)
    BY <1>5 DEF WalkOn
  <2>2. [t EXCEPT !.s.messages[m.id] = nodes \ {hop}] = u
    OBVIOUS
  <2>3. hop \in WithToken(r, nodes)
    BY <1>3, <1>5, MaxIsOne
  <2>4. hop \in DOMAIN r.s.neighbors /\ r.s.neighbors[hop].received > 0
    BY <1>3, <2>3 DEF WithToken
  <2> HIDE DEF t, hop, nodes
  <2>5. StateOK(t.n, s) /\ Alike(t.s, s) /\ s.neighbors = t.s.neighbors
    BY <1>2 DEF StateOK, NodeFields, Alike
  <2> HIDE DEF ms
  <2>6. Calm(t, u) /\ u.s = s
    <3>1. t = [f \in WorkFields |-> t[f]]
      BY <1>2 DEF WorkOK
    <3> HIDE DEF s
    <3> QED BY <1>2, <2>5, <3>1, StateChanged DEF WorkFields
  <2> HIDE DEF s, u
  <2>7. Calm(u, SendOn(u, m, hop, fromApp))
    <3>1. WorkOK(u) /\ hop \in DOMAIN u.s.neighbors /\ u.s.neighbors[hop].received # 0
      BY <1>1, <2>4, <2>5, <2>6 DEF Calm
    <3> QED BY <3>1, SendOnIsCalm
  <2> QED BY <1>1, <2>1, <2>2, <2>6, <2>7, CalmIsTransitive
<1> QED BY <1>4, <1>5

LEMMA ForwardIsCalm ==
    ASSUME NEW r, WorkOK(r), NEW m, MessageOK(m), NEW fromApp
    PROVE  Calm(r, Forward(r, m, fromApp))
<1> DEFINE t == GrantTokenBack(r, fromApp)
<1>1. Calm(r, t) /\ WorkOK(t)
  BY GrantTokenIsCalm DEF Calm
<1>2. Calm(t, Deliver(t, m.id, {r.n}))
  <2> HIDE DEF t
  <2> QED BY <1>1, NotesChanged DEF Deliver
<1>3. Calm(r, Deliver(t, m.id, {r.n}))
  BY <1>1, <1>2, CalmIsTransitive
<1> HIDE DEF t
<1>4. CASE m.dest \in DOMAIN r.s.neighbors /\ r.s.neighbors[m.dest].received # 0
  BY <1>1, <1>3, <1>4, SendOnIsCalm, CalmIsReflexive DEF Forward, t
<1>5. CASE ~(m.dest \in DOMAIN r.s.neighbors /\ r.s.neighbors[m.dest].received # 0)
  BY <1>1, <1>3, <1>5, WalkOnIsCalm, WaitsIsCalm DEF Forward, t
<1> QED BY <1>4, <1>5

LEMMA ProcessSearchIsCalm ==
    ASSUME NEW r, WorkOK(r), NEW m, MessageOK(m), NEW fromApp
    PROVE  Calm(r, ProcessSearch(r, m, fromApp))
<1> DEFINE a == Answered(r, m)
           k == [a.m EXCEPT !.path = Reversed(r.n, @)]
           t == GrantToken(a.r)
           minted == IF fromApp THEN Min({1, Size(r.s)}) ELSE 0
<1>1. Calm(r, a.r) /\ WorkOK(a.r) /\ MessageOK(a.m)
  BY AnsweredIsCalm DEF Calm
<1> HIDE DEF a
<1>2. CASE a.m.responses > 0
  <2>1. MessageOK(k)
    <3>1. DOMAIN k = DOMAIN a.m /\ (a.m.type \in {"SEARCH", "ROUTE"} => k.type = a.m.type)
      BY <1>1 DEF MessageOK
    <3> QED BY <1>1, <3>1 DEF MessageOK
  <2>2. ProcessSearch(r, m, fromApp) = Forward(a.r, k, fromApp)
    BY <1>2 DEF ProcessSearch, a
  <2> HIDE DEF k
  <2>3. Calm(a.r, Forward(a.r, k, fromApp))
    BY <1>1, <2>1, ForwardIsCalm
  <2> QED BY <1>1, <2>2, <2>3, CalmIsTransitive
<1>3. CASE ~(a.m.responses > 0)
  <2>1. ProcessSearch(r, m, fromApp) = [t EXCEPT !.minted = minted]
    BY <1>3 DEF ProcessSearch, a
  <2>2. Calm(a.r, t) /\ WorkOK(t)
    BY <1>1, GrantTokenIsCalm DEF Calm
  <2> HIDE DEF t, minted
  <2>3. Calm(t, [t EXCEPT !.minted = minted])
    BY <2>2, NotesChanged
  <2> QED BY <1>1, <2>1, <2>2, <2>3, CalmIsTransitive
<1> QED BY <1>2, <1>3

(***************************************************************************)
(* The handshake, and what it does to other links                          *)
(***************************************************************************)

LEMMA CalmIsUnsaid ==
    ASSUME NEW r, NEW t, Calm(r, t), Unsaid(r)
    PROVE  Unsaid(t)
BY DEF Calm, Unsaid, Letters

\* A state with other neighbors.
LEMMA OtherNeighbors ==
    ASSUME NEW n, NEW s, StateOK(n, s), NEW b, NeighborsOK(n, b), NEW u, u = [s EXCEPT !.neighbors = b]
    PROVE  StateOK(n, u) /\ u.neighbors = b /\ u.neighCand = s.neighCand
BY DEF StateOK, NodeFields

LEMMA ErasedIsOK ==
    ASSUME NEW n, NEW s, StateOK(n, s), NEW m
    PROVE  /\ NeighborsOK(n, Erased(s.neighbors, m))
           /\ DOMAIN Erased(s.neighbors, m) = DOMAIN s.neighbors \ {m}
           /\ Cardinality(DOMAIN Erased(s.neighbors, m)) \in 0 .. maxNeighbors
           /\ m \in DOMAIN s.neighbors => Cardinality(DOMAIN Erased(s.neighbors, m)) < Size(s)
<1> DEFINE b == s.neighbors
           c == Erased(b, m)
<1>1. NeighborsOK(n, b) /\ IsFiniteSet(DOMAIN b) /\ Size(s) = Cardinality(DOMAIN b) /\ Size(s) \in Nat
  BY SizeIsZero DEF StateOK, Size
<1>2. c = [k \in DOMAIN b \ {m} |-> b[k]]
  BY DEF Erased
<1> HIDE DEF b, c
<1>3. DOMAIN c = DOMAIN b \ {m} /\ c = [k \in DOMAIN c |-> c[k]] /\ \A k \in DOMAIN c : c[k] = b[k]
  BY <1>2
<1>4. /\ Cardinality(DOMAIN b \ {m}) = IF m \in DOMAIN b THEN Cardinality(DOMAIN b) - 1 ELSE Cardinality(DOMAIN b)
      /\ Cardinality(DOMAIN b \ {m}) \in Nat
  BY <1>1, FS_RemoveElement, FS_CardinalityType
<1>5. Cardinality(DOMAIN c) \in Nat /\ Cardinality(DOMAIN c) <= maxNeighbors
  BY <1>1, <1>3, <1>4, Constants DEF NeighborsOK
<1>6. NeighborsOK(n, c)
  BY <1>1, <1>3, <1>5 DEF NeighborsOK
<1> QED BY <1>1, <1>3, <1>4, <1>5, <1>6, Constants DEF b, c

LEMMA MadeRoomIsOK ==
    ASSUME NEW r, WorkOK(r), Unsaid(r), NEW m \in Node \ {r.n}, NEW d, Accepts(r.s, m, d),
           NEW t, t = MadeRoom(r, m, d)
    PROVE  /\ WorkOK(t) /\ t.n = r.n /\ t.s.neighCand = r.s.neighCand /\ HasRoom(t.s)
           /\ m \notin DOMAIN r.s.neighbors /\ m \notin DOMAIN t.s.neighbors
           /\ Speech(t.out[m], "none")
           /\ \A k \in Node \ {r.n, m} : Aside(r, t, k)
<1> DEFINE drop == DropCandidate(r.s, m, d)
           c == Erased(r.s.neighbors, drop)
           s == [r.s EXCEPT !.neighbors = c]
           u == [r EXCEPT !.s = s]
<1>1. m \notin DOMAIN r.s.neighbors
  BY DEF Accepts
<1>2. CASE HasRoom(r.s)
  <2>1. t = r
    BY <1>2 DEF MadeRoom
  <2> QED BY <1>1, <1>2, <2>1 DEF Unsaid, Aside
<1>3. CASE ~HasRoom(r.s)
  <2>1. t = Send(u, drop, Note(u, "DISCONNECT"))
    BY <1>3 DEF MadeRoom, Disconnected
  <2>2. drop \in DOMAIN r.s.neighbors
    <3> DEFINE below == {k \in DOMAIN r.s.neighbors : k <= m}
    <3>1. below \in SUBSET Node
      BY DEF WorkOK, StateOK, NeighborsOK
    <3>2. drop # None
      BY <1>3 DEF Accepts
    <3>3. below # {} /\ drop = Max(below)
      BY <3>2 DEF DropCandidate
    <3> HIDE DEF drop
    <3> QED BY <3>1, <3>3, MaxIsOne
  <2> HIDE DEF drop
  <2>3. /\ NeighborsOK(r.n, c) /\ DOMAIN c = DOMAIN r.s.neighbors \ {drop}
        /\ Cardinality(DOMAIN c) \in Nat /\ Cardinality(DOMAIN c) < Size(r.s)
    <3>1. StateOK(r.n, r.s)
      BY DEF WorkOK
    <3>2. /\ NeighborsOK(r.n, c) /\ DOMAIN c = DOMAIN r.s.neighbors \ {drop}
          /\ Cardinality(DOMAIN c) \in 0 .. maxNeighbors /\ Cardinality(DOMAIN c) < Size(r.s)
      BY <2>2, <3>1, ErasedIsOK
    <3> QED BY <3>2, Constants
  <2> HIDE DEF c
  <2>4. StateOK(r.n, s) /\ s.neighbors = c /\ s.neighCand = r.s.neighCand
    <3>1. StateOK(r.n, r.s)
      BY DEF WorkOK
    <3> QED BY <2>3, <3>1, OtherNeighbors
  <2> HIDE DEF s
  <2>5. /\ u = [f \in WorkFields |-> u[f]] /\ u.n = r.n /\ u.out = r.out /\ u.s = s
    BY DEF WorkOK, WorkFields
  <2>6. WorkOK(u)
    BY <2>4, <2>5, Changed
  <2> HIDE DEF u
  <2>7. drop \in Node \ {u.n} /\ PacketOK(Note(u, "DISCONNECT")) /\ Note(u, "DISCONNECT").type = "DISCONNECT"
    BY <2>2, <2>5 DEF WorkOK, StateOK, NeighborsOK, PacketOK, Note, Types, Says
  <2>8. /\ WorkOK(t) /\ t.n = r.n /\ t.s = s
        /\ \A k \in Node \ {drop} : t.out[k] = r.out[k]
        /\ Speech(t.out[drop], "DISCONNECT")
    <3>1. Speech(u.out[drop], "none") /\ "DISCONNECT" \in Says
      BY <2>5, <2>7 DEF Unsaid, Says
    <3> QED BY <2>1, <2>5, <2>6, <2>7, <3>1, Sent
  <2>9. HasRoom(t.s)
    BY <2>3, <2>4, <2>8, SizeIsZero, Constants DEF HasRoom, Size, WorkOK
  <2>10. m # drop
    BY <1>1, <2>2
  <2>11. \A k \in Node \ {r.n, m} : Aside(r, t, k)
    BY <2>2, <2>3, <2>4, <2>8 DEF Aside, Unsaid
  <2> QED BY <1>1, <2>3, <2>4, <2>8, <2>9, <2>10, <2>11 DEF Unsaid
<1> QED BY <1>2, <1>3

LEMMA AddNeighborIsOK ==
    ASSUME NEW r, WorkOK(r), HasRoom(r.s), NEW m \in Node \ {r.n}, NEW d, NEW t, t = AddNeighbor(r, m, d)
    PROVE  /\ WorkOK(t) /\ t.n = r.n /\ t.s.neighCand = r.s.neighCand
           /\ DOMAIN t.s.neighbors = DOMAIN r.s.neighbors \cup {m}
           /\ \A k \in Node : \A x \in Letters : Speech(r.out[k], x) => Speech(t.out[k], x)
<1> DEFINE s == [r.s EXCEPT !.degree = Size(r.s), !.state = "READY", !.updateTimer = TRUE]
           v == [r EXCEPT !.s = s]
           u == IF r.s.keys THEN KeyList(v, m) ELSE v
           b == With(u.s.neighbors, m, Info(d))
           z == [u.s EXCEPT !.neighbors = b]
<1>1. v = [r EXCEPT !.s.degree = Size(r.s), !.s.state = "READY", !.s.updateTimer = TRUE]
  BY DEF WorkOK, WorkFields, StateOK, NodeFields
<1>2. t = [u EXCEPT !.s = z]
  BY <1>1 DEF AddNeighbor
<1>3. Calm(r, v) /\ v.s = s /\ WorkOK(v) /\ v.n = r.n
  <2>1. StateOK(r.n, r.s) /\ Size(r.s) \in 0 .. maxNeighbors /\ r = [f \in WorkFields |-> r[f]]
    BY SizeIsZero, Constants DEF WorkOK
  <2>2. StateOK(r.n, s) /\ Alike(r.s, s)
    BY <2>1 DEF StateOK, NodeFields, Alike
  <2> HIDE DEF s
  <2>3. Calm(r, v) /\ v.s = s
    BY <2>1, <2>2, StateChanged DEF WorkFields
  <2> QED BY <2>3 DEF Calm
<1> HIDE DEF v
<1>4. Calm(v, u) /\ u.s = v.s
  <2>1. PacketOK(Note(v, "KEYLIST")) /\ Note(v, "KEYLIST").type \notin Says
    BY DEF PacketOK, Note, Types, Says
  <2> QED BY <1>3, <2>1, Sent, CalmIsReflexive DEF KeyList
<1> HIDE DEF u
<1>5. /\ WorkOK(u) /\ u.n = r.n /\ u.s.neighCand = r.s.neighCand /\ u.s.neighbors = r.s.neighbors
      /\ \A k \in Node : \A x \in Letters : Speech(r.out[k], x) => Speech(u.out[k], x)
  <2>1. s.neighbors = r.s.neighbors
    BY DEF WorkOK, StateOK, NodeFields
  <2> QED BY <1>3, <1>4, <2>1 DEF Calm, Alike
<1>6. NeighborsOK(r.n, b) /\ DOMAIN b = DOMAIN r.s.neighbors \cup {m}
  <2> DEFINE o == r.s.neighbors
  <2>1. b = [k \in DOMAIN o \cup {m} |-> IF k = m THEN Info(d) ELSE o[k]]
    BY <1>5 DEF With
  <2> HIDE DEF b
  <2>2. NeighborsOK(r.n, o) /\ IsFiniteSet(DOMAIN o) /\ Cardinality(DOMAIN o) < maxNeighbors
        /\ Cardinality(DOMAIN o) \in Nat
    BY SizeIsZero DEF WorkOK, StateOK, HasRoom, Size
  <2>3. IsInfo(Info(d))
    BY Constants DEF IsInfo, Info, InfoFields
  <2> HIDE DEF o
  <2>4. DOMAIN b = DOMAIN o \cup {m} /\ b = [k \in DOMAIN b |-> b[k]]
        /\ \A k \in DOMAIN b : b[k] = IF k = m THEN Info(d) ELSE o[k]
    BY <2>1
  <2>5. Cardinality(DOMAIN o \cup {m}) <= maxNeighbors
    <3>1. Cardinality(DOMAIN o \cup {m}) = IF m \in DOMAIN o THEN Cardinality(DOMAIN o) ELSE Cardinality(DOMAIN o) + 1
      BY <2>2, FS_AddElement
    <3> QED BY <2>2, <3>1, Constants
  <2> QED BY <2>2, <2>3, <2>4, <2>5 DEF NeighborsOK, o
<1> HIDE DEF b
<1>7. StateOK(r.n, z) /\ z.neighbors = b /\ z.neighCand = r.s.neighCand
  <2>1. StateOK(r.n, u.s)
    BY <1>5 DEF WorkOK
  <2> QED BY <1>5, <1>6, <2>1, OtherNeighbors
<1> HIDE DEF z
<1>8. t = [f \in WorkFields |-> t[f]] /\ t.n = r.n /\ t.out = u.out /\ t.s = z
  BY <1>2, <1>5 DEF WorkOK, WorkFields
<1>9. WorkOK(t)
  BY <1>5, <1>7, <1>8, Changed
<1> QED BY <1>5, <1>6, <1>7, <1>8, <1>9

LEMMA OtherCandidates ==
    ASSUME NEW r, WorkOK(r), NEW m \in Node \ {r.n}
    PROVE  \A t \in {Candidate(r, m), NoCandidate(r, m)} :
              WorkOK(t) /\ t.n = r.n /\ t.out = r.out /\ t.s.neighbors = r.s.neighbors /\ t.s.knownNodes = r.s.knownNodes
<1> DEFINE Wanted(t) == WorkOK(t) /\ t.n = r.n /\ t.out = r.out /\ t.s.neighbors = r.s.neighbors
                      /\ t.s.knownNodes = r.s.knownNodes
<1>1. StateOK(r.n, r.s) /\ r = [f \in WorkFields |-> r[f]] /\ r.n \in Node
  BY DEF WorkOK
<1>2. ASSUME NEW C \in SUBSET (Node \ {r.n}), NEW t, t = [r EXCEPT !.s = [r.s EXCEPT !.neighCand = C]]
      PROVE  Wanted(t)
  <2> DEFINE s == [r.s EXCEPT !.neighCand = C]
  <2>1. StateOK(r.n, s) /\ s.neighbors = r.s.neighbors /\ s.knownNodes = r.s.knownNodes
    BY <1>1 DEF StateOK, NodeFields
  <2> HIDE DEF s
  <2>2. t = [f \in WorkFields |-> t[f]] /\ t.n = r.n /\ t.out = r.out /\ t.s = s
    BY <1>1, <1>2 DEF WorkFields, s
  <2> QED BY <2>1, <2>2, Changed
<1>3. r.s.neighCand \cup {m} \in SUBSET (Node \ {r.n}) /\ r.s.neighCand \ {m} \in SUBSET (Node \ {r.n})
  BY <1>1 DEF StateOK
<1>4. /\ Candidate(r, m) = [r EXCEPT !.s = [r.s EXCEPT !.neighCand = r.s.neighCand \cup {m}]]
      /\ NoCandidate(r, m) = [r EXCEPT !.s = [r.s EXCEPT !.neighCand = r.s.neighCand \ {m}]]
  BY DEF Candidate, NoCandidate
<1> HIDE DEF Wanted
<1>5. Wanted(Candidate(r, m)) /\ Wanted(NoCandidate(r, m))
  BY <1>2, <1>3, <1>4
<1> QED BY <1>5 DEF Wanted

LEMMA CandidatesAre ==
    ASSUME NEW r, WorkOK(r), NEW m
    PROVE  /\ Candidate(r, m).s.neighCand = r.s.neighCand \cup {m}
           /\ NoCandidate(r, m).s.neighCand = r.s.neighCand \ {m}
<1>1. r.s = [f \in NodeFields |-> r.s[f]] /\ r = [f \in WorkFields |-> r[f]]
  BY DEF WorkOK, StateOK
<1> QED BY <1>1 DEF Candidate, NoCandidate, WorkFields, NodeFields

LEMMA LearnsIsCalm ==
    ASSUME NEW r, WorkOK(r), NEW m, NEW nodes \in SUBSET Node
    PROVE  Calm(r, Learns(r, m, nodes))
<1> DEFINE s == [r.s EXCEPT !.knownNodes = r.s.knownNodes \cup (nodes \ {r.n, m})]
<1>1. StateOK(r.n, r.s)
  BY DEF WorkOK
<1>2. StateOK(r.n, s) /\ Alike(r.s, s)
  BY <1>1 DEF StateOK, NodeFields, Alike
<1>3. Learns(r, m, nodes) = [r EXCEPT !.s = s]
  BY DEF Learns
<1> HIDE DEF s
<1> QED BY <1>2, <1>3, StateChanged

\* What is aside stays so.
LEMMA AsideStays ==
    ASSUME NEW r, NEW q, NEW t, NEW k, Aside(r, q, k), k \in DOMAIN t.s.neighbors <=> k \in DOMAIN q.s.neighbors,
           k \in t.s.neighCand <=> k \in q.s.neighCand, \A x \in Letters : Speech(q.out[k], x) => Speech(t.out[k], x)
    PROVE  Aside(r, t, k)
BY DEF Aside, Letters, Says

LEMMA Stays ==
    ASSUME NEW r, Unsaid(r), NEW t, NEW k \in Node, k \in DOMAIN t.s.neighbors <=> k \in DOMAIN r.s.neighbors,
           k \in t.s.neighCand <=> k \in r.s.neighCand, \A x \in Letters : Speech(r.out[k], x) => Speech(t.out[k], x)
    PROVE  Aside(r, t, k)
BY DEF Aside, Unsaid, Letters, Says

LEMMA Answering ==
    ASSUME NEW r, WorkOK(r), NEW m \in Node \ {r.n}, NEW type \in {"RSP", "ACK", "DNY", "DISCONNECT"}, NEW t,
           \/ type \in {"RSP", "ACK"} /\ t = Send(r, m, WithNeighbors(r, type))
           \/ type \in {"DNY", "DISCONNECT"} /\ t = Send(r, m, Note(r, type)),
           Speech(r.out[m], "none")
    PROVE  /\ WorkOK(t) /\ t.n = r.n /\ t.s = r.s /\ Speech(t.out[m], type)
           /\ \A k \in Node \ {m} : t.out[k] = r.out[k]
<1>1. DOMAIN r.s.neighbors \subseteq Node /\ type \in Says
  BY DEF WorkOK, StateOK, NeighborsOK, Says
<1>2. type \in {"RSP", "ACK"} => PacketOK(WithNeighbors(r, type)) /\ WithNeighbors(r, type).type = type
  BY <1>1 DEF PacketOK, WithNeighbors, Types
<1>3. type \in {"DNY", "DISCONNECT"} => PacketOK(Note(r, type)) /\ Note(r, type).type = type
  BY <1>1 DEF PacketOK, Note, Types
<1> QED BY <1>1, <1>2, <1>3, Sent

LEMMA HandlesJoinReq ==
    ASSUME NEW r, WorkOK(r), Unsaid(r), NEW m \in Node \ {r.n}, NEW d, NEW t, t = HandleJoinReq(r, m, d)
    PROVE  Handled(r, t, m, "REQ")
<1>0. Speech(r.out[m], "none") /\ {"RSP", "DNY"} \subseteq Letters
  BY DEF Unsaid, Letters, Says
<1>1. CASE Accepts(r.s, m, d)
  <2>1. PICK q : q = MadeRoom(r, m, d)
    OBVIOUS
  <2>2. PICK u : u = Candidate(q, m)
    OBVIOUS
  <2>3. t = Send(u, m, WithNeighbors(u, "RSP"))
    BY <1>1, <2>1, <2>2 DEF HandleJoinReq
  <2>4. /\ WorkOK(q) /\ q.n = r.n /\ q.s.neighCand = r.s.neighCand
        /\ m \notin DOMAIN r.s.neighbors /\ m \notin DOMAIN q.s.neighbors /\ Speech(q.out[m], "none")
        /\ \A k \in Node \ {r.n, m} : Aside(r, q, k)
    BY <1>1, <2>1, MadeRoomIsOK
  <2>5. /\ WorkOK(u) /\ u.n = q.n /\ u.out = q.out /\ u.s.neighbors = q.s.neighbors
        /\ u.s.neighCand = q.s.neighCand \cup {m}
    BY <2>2, <2>4, OtherCandidates, CandidatesAre
  <2>6. /\ WorkOK(t) /\ t.n = u.n /\ t.s = u.s /\ Speech(t.out[m], "RSP")
        /\ \A k \in Node \ {m} : t.out[k] = u.out[k]
    BY <2>3, <2>4, <2>5, Answering
  <2>7. \A k \in Node \ {r.n, m} : Aside(r, t, k)
    BY <2>4, <2>5, <2>6, AsideStays
  <2>8. Reply("REQ", Sided(r.s, m), Sided(t.s, m), "RSP")
    BY <2>4, <2>5, <2>6 DEF Reply, Sided
  <2> QED BY <1>0, <2>4, <2>5, <2>6, <2>7, <2>8 DEF Handled
<1>2. CASE ~Accepts(r.s, m, d)
  <2>1. t = Send(r, m, Note(r, "DNY"))
    BY <1>2 DEF HandleJoinReq, Denied
  <2>2. /\ WorkOK(t) /\ t.n = r.n /\ t.s = r.s /\ Speech(t.out[m], "DNY")
        /\ \A k \in Node \ {m} : t.out[k] = r.out[k]
    BY <1>0, <2>1, Answering
  <2>3. \A k \in Node \ {r.n, m} : Aside(r, t, k)
    BY <2>2, Stays
  <2>4. Reply("REQ", Sided(r.s, m), Sided(t.s, m), "DNY")
    BY <2>2 DEF Reply, Sided
  <2> QED BY <1>0, <2>2, <2>3, <2>4 DEF Handled
<1> QED BY <1>1, <1>2

LEMMA HandlesJoinRsp ==
    ASSUME NEW r, WorkOK(r), Unsaid(r), NEW m \in Node \ {r.n}, NEW d, NEW nodes \in SUBSET Node,
           NEW t, t = HandleJoinRsp(r, m, d, nodes)
    PROVE  Handled(r, t, m, "RSP")
<1>0. {"ACK", "DNY", "none"} \subseteq Letters /\ m \in Node
  BY DEF Letters, Says
<1>1. CASE m \notin r.s.neighCand
  <2>1. t = r
    BY <1>1 DEF HandleJoinRsp
  <2>2. \A k \in Node \ {r.n, m} : Aside(r, t, k)
    BY <2>1, Stays
  <2>3. Reply("RSP", Sided(r.s, m), Sided(t.s, m), "none") /\ Speech(t.out[m], "none")
    BY <1>1, <2>1 DEF Reply, Sided, Unsaid
  <2> QED BY <1>0, <2>1, <2>2, <2>3 DEF Handled
<1>2. CASE m \in r.s.neighCand
  <2>1. PICK q : q = NoCandidate(r, m)
    OBVIOUS
  <2>2. /\ WorkOK(q) /\ q.n = r.n /\ q.out = r.out /\ q.s.neighbors = r.s.neighbors
        /\ q.s.neighCand = r.s.neighCand \ {m}
    BY <2>1, OtherCandidates, CandidatesAre
  <2>3. Unsaid(q) /\ Speech(q.out[m], "none")
    BY <2>2 DEF Unsaid
  <2>4. CASE Accepts(q.s, m, d)
    <3>1. PICK u : u = MadeRoom(q, m, d)
      OBVIOUS
    <3>2. PICK v : v = AddNeighbor(u, m, d)
      OBVIOUS
    <3>3. PICK w : w = Learns(v, m, nodes)
      OBVIOUS
    <3>4. t = Send(w, m, WithNeighbors(w, "ACK"))
      BY <1>2, <2>1, <2>4, <3>1, <3>2, <3>3 DEF HandleJoinRsp
    <3>5. /\ WorkOK(u) /\ u.n = q.n /\ u.s.neighCand = q.s.neighCand /\ HasRoom(u.s)
          /\ m \notin DOMAIN q.s.neighbors /\ Speech(u.out[m], "none")
          /\ \A k \in Node \ {q.n, m} : Aside(q, u, k)
      BY <2>2, <2>3, <2>4, <3>1, MadeRoomIsOK
    <3>6. /\ WorkOK(v) /\ v.n = u.n /\ v.s.neighCand = u.s.neighCand
          /\ DOMAIN v.s.neighbors = DOMAIN u.s.neighbors \cup {m}
          /\ \A k \in Node : \A x \in Letters : Speech(u.out[k], x) => Speech(v.out[k], x)
      BY <2>2, <3>2, <3>5, AddNeighborIsOK
    <3>7. Calm(v, w)
      BY <3>3, <3>6, LearnsIsCalm
    <3>8. WorkOK(w) /\ w.n = r.n /\ Alike(v.s, w.s) /\ Speech(w.out[m], "none")
      BY <1>0, <2>2, <3>5, <3>6, <3>7 DEF Calm
    <3>9. /\ WorkOK(t) /\ t.n = w.n /\ t.s = w.s /\ Speech(t.out[m], "ACK")
          /\ \A k \in Node \ {m} : t.out[k] = w.out[k]
      BY <3>4, <3>8, Answering
    <3>10. ASSUME NEW k \in Node \ {r.n, m}
           PROVE  Aside(r, t, k)
      <4>1. Aside(q, u, k)
        BY <2>2, <3>5
      <4>2. Aside(r, u, k)
        BY <2>2, <4>1 DEF Aside
      <4>3. /\ k \in DOMAIN t.s.neighbors <=> k \in DOMAIN u.s.neighbors
            /\ k \in t.s.neighCand <=> k \in u.s.neighCand
        BY <3>6, <3>8, <3>9 DEF Alike
      <4>4. \A x \in Letters : Speech(u.out[k], x) => Speech(t.out[k], x)
        BY <3>6, <3>7, <3>9 DEF Calm
      <4> QED BY <4>2, <4>3, <4>4, AsideStays
    <3>11. Reply("RSP", Sided(r.s, m), Sided(t.s, m), "ACK")
      <4>1. m \in r.s.neighCand /\ m \notin DOMAIN r.s.neighbors /\ m \in DOMAIN t.s.neighbors /\ m \notin t.s.neighCand
        BY <1>2, <2>2, <3>5, <3>6, <3>8, <3>9 DEF Alike
      <4> QED BY <4>1 DEF Reply, Sided
    <3> QED BY <1>0, <3>8, <3>9, <3>10, <3>11 DEF Handled
  <2>5. CASE ~Accepts(q.s, m, d)
    <3>1. t = Send(q, m, Note(q, "DNY"))
      BY <1>2, <2>1, <2>5 DEF HandleJoinRsp, Denied
    <3>2. /\ WorkOK(t) /\ t.n = q.n /\ t.s = q.s /\ Speech(t.out[m], "DNY")
          /\ \A k \in Node \ {m} : t.out[k] = q.out[k]
      BY <2>2, <2>3, <3>1, Answering
    <3>3. \A k \in Node \ {r.n, m} : Aside(r, t, k)
      BY <2>2, <3>2, Stays
    <3>4. Reply("RSP", Sided(r.s, m), Sided(t.s, m), "DNY")
      BY <1>2, <2>2, <3>2 DEF Reply, Sided
    <3> QED BY <1>0, <2>2, <3>2, <3>3, <3>4 DEF Handled
  <2> QED BY <2>4, <2>5
<1> QED BY <1>1, <1>2

LEMMA HandlesJoinAck ==
    ASSUME NEW r, WorkOK(r), Unsaid(r), NEW m \in Node \ {r.n}, NEW d, NEW nodes \in SUBSET Node,
           NEW t, t = HandleJoinAck(r, m, d, nodes)
    PROVE  Handled(r, t, m, "ACK")
<1>0. {"DISCONNECT", "none"} \subseteq Letters /\ m \in Node /\ Speech(r.out[m], "none")
  BY DEF Letters, Says, Unsaid
<1>1. CASE Expected(r.s, m)
  <2>1. PICK q : q = NoCandidate(r, m)
    OBVIOUS
  <2>2. PICK v : v = AddNeighbor(q, m, d)
    OBVIOUS
  <2>3. t = Learns(v, m, nodes)
    BY <1>1, <2>1, <2>2 DEF HandleJoinAck
  <2>4. /\ WorkOK(q) /\ q.n = r.n /\ q.out = r.out /\ q.s.neighbors = r.s.neighbors
        /\ q.s.neighCand = r.s.neighCand \ {m}
    BY <2>1, OtherCandidates, CandidatesAre
  <2>5. m \in r.s.neighCand /\ HasRoom(q.s)
    BY <1>1, <2>4 DEF Expected, HasRoom, Size
  <2>6. /\ WorkOK(v) /\ v.n = q.n /\ v.s.neighCand = q.s.neighCand
        /\ DOMAIN v.s.neighbors = DOMAIN q.s.neighbors \cup {m}
        /\ \A k \in Node : \A x \in Letters : Speech(q.out[k], x) => Speech(v.out[k], x)
    BY <2>2, <2>4, <2>5, AddNeighborIsOK
  <2>7. Calm(v, t)
    BY <2>3, <2>6, LearnsIsCalm
  <2>8. /\ WorkOK(t) /\ t.n = r.n /\ t.s.neighCand = r.s.neighCand \ {m}
        /\ DOMAIN t.s.neighbors = DOMAIN r.s.neighbors \cup {m}
        /\ \A k \in Node : \A x \in Letters : Speech(r.out[k], x) => Speech(t.out[k], x)
    BY <2>4, <2>6, <2>7 DEF Calm, Alike
  <2>9. \A k \in Node \ {r.n, m} : Aside(r, t, k)
    BY <2>8, Stays
  <2>10. Reply("ACK", Sided(r.s, m), Sided(t.s, m), "none") /\ Speech(t.out[m], "none")
    BY <1>0, <2>5, <2>8 DEF Reply, Sided
  <2> QED BY <1>0, <2>8, <2>9, <2>10 DEF Handled
<1>2. CASE ~Expected(r.s, m)
  <2>1. t = Send(r, m, Note(r, "DISCONNECT"))
    BY <1>2 DEF HandleJoinAck, Disconnected
  <2>2. /\ WorkOK(t) /\ t.n = r.n /\ t.s = r.s /\ Speech(t.out[m], "DISCONNECT")
        /\ \A k \in Node \ {m} : t.out[k] = r.out[k]
    BY <1>0, <2>1, Answering
  <2>3. \A k \in Node \ {r.n, m} : Aside(r, t, k)
    BY <2>2, Stays
  <2>4. Reply("ACK", Sided(r.s, m), Sided(t.s, m), "DISCONNECT")
    BY <2>2 DEF Reply, Sided
  <2> QED BY <1>0, <2>2, <2>3, <2>4 DEF Handled
<1> QED BY <1>1, <1>2

LEMMA HandlesJoinDny ==
    ASSUME NEW r, WorkOK(r), Unsaid(r), NEW m \in Node \ {r.n}, NEW t, t = HandleJoinDny(r, m)
    PROVE  Handled(r, t, m, "DNY")
<1>1. PICK q : q = NoCandidate(r, m)
  OBVIOUS
<1>2. /\ WorkOK(q) /\ q.n = r.n /\ q.out = r.out /\ q.s.neighbors = r.s.neighbors
      /\ q.s.neighCand = r.s.neighCand \ {m}
  BY <1>1, OtherCandidates, CandidatesAre
<1> DEFINE s == [q.s EXCEPT !.knownNodes = q.s.knownNodes \ {m}]
<1>3. t = [q EXCEPT !.s = s]
  BY <1>1 DEF HandleJoinDny
<1>4. Calm(q, t)
  <2>1. StateOK(q.n, q.s)
    BY <1>2 DEF WorkOK
  <2>2. StateOK(q.n, s) /\ Alike(q.s, s)
    BY <2>1 DEF StateOK, NodeFields, Alike
  <2> HIDE DEF s
  <2> QED BY <1>2, <1>3, <2>2, StateChanged
<1>5. /\ WorkOK(t) /\ t.n = r.n /\ t.s.neighCand = r.s.neighCand \ {m}
      /\ DOMAIN t.s.neighbors = DOMAIN r.s.neighbors
      /\ \A k \in Node : \A x \in Letters : Speech(r.out[k], x) => Speech(t.out[k], x)
  BY <1>2, <1>4 DEF Calm, Alike
<1>6. \A k \in Node \ {r.n, m} : Aside(r, t, k)
  BY <1>5, Stays
<1>7. Reply("DNY", Sided(r.s, m), Sided(t.s, m), "none") /\ Speech(t.out[m], "none") /\ "none" \in Letters
  BY <1>5 DEF Reply, Sided, Unsaid, Letters
<1> QED BY <1>5, <1>6, <1>7 DEF Handled

LEMMA ToInitIsOK ==
    ASSUME NEW n, NEW s, StateOK(n, s), NEW boot \in Node \cup {None}
    PROVE  StateOK(n, ToInit(s, boot)) /\ Alike(s, ToInit(s, boot)) /\ ToInit(s, boot).neighbors = s.neighbors
<1> DEFINE known == IF boot = None THEN s.knownNodes ELSE s.knownNodes \cup {boot}
<1>1. PICK u : u = ToInit(s, boot)
  OBVIOUS
<1>2. s = [f \in NodeFields |-> s[f]]
  BY DEF StateOK
<1>3. /\ u = [f \in NodeFields |-> u[f]] /\ u.state = "INIT" /\ u.neighbors = s.neighbors /\ u.degree = 0
      /\ u.neighCand = s.neighCand /\ u.knownNodes = known /\ u.waiting = s.waiting
  BY <1>1, <1>2 DEF NodeFields, ToInit
<1>4. known \subseteq Node \cup {None} /\ 0 \in 0 .. maxNeighbors
  BY Constants DEF StateOK
<1> HIDE DEF known
<1>5. StateOK(n, u) /\ Alike(s, u)
  BY <1>3, <1>4 DEF StateOK, Alike
<1> QED BY <1>1, <1>3, <1>5

LEMMA HandlesDisconnect ==
    ASSUME NEW r, WorkOK(r), Unsaid(r), NEW m \in Node \ {r.n}, NEW boot \in Node \cup {None},
           NEW t, t = RemoveNeighbor(r, m, boot)
    PROVE  Handled(r, t, m, "DISCONNECT")
<1> DEFINE left == Erased(r.s.neighbors, m)
           s == [r.s EXCEPT !.neighbors = left, !.degree = Cardinality(DOMAIN left), !.updateTimer = TRUE]
           z == IF left = << >> THEN ToInit(s, boot) ELSE s
<1>1. t = [r EXCEPT !.s = z]
  BY DEF RemoveNeighbor
<1>2. StateOK(r.n, r.s)
  BY DEF WorkOK
<1>3. /\ NeighborsOK(r.n, left) /\ DOMAIN left = DOMAIN r.s.neighbors \ {m}
      /\ Cardinality(DOMAIN left) \in 0 .. maxNeighbors
  BY <1>2, ErasedIsOK
<1> HIDE DEF left
<1>4. StateOK(r.n, s) /\ s.neighbors = left /\ s.neighCand = r.s.neighCand
  BY <1>2, <1>3 DEF StateOK, NodeFields
<1> HIDE DEF s
<1>5. StateOK(r.n, z) /\ z.neighbors = left /\ z.neighCand = r.s.neighCand
  BY <1>4, ToInitIsOK DEF Alike
<1> HIDE DEF z
<1>6. t = [f \in WorkFields |-> t[f]] /\ t.n = r.n /\ t.out = r.out /\ t.s = z
  BY <1>1 DEF WorkOK, WorkFields
<1>7. WorkOK(t)
  BY <1>5, <1>6, Changed
<1>8. \A k \in Node \ {r.n, m} : Aside(r, t, k)
  BY <1>3, <1>5, <1>6, Stays
<1>9. Reply("DISCONNECT", Sided(r.s, m), Sided(t.s, m), "none") /\ Speech(t.out[m], "none") /\ "none" \in Letters
  BY <1>3, <1>5, <1>6 DEF Reply, Sided, Unsaid, Letters
<1> QED BY <1>6, <1>7, <1>8, <1>9 DEF Handled

(***************************************************************************)
(* Two nodes                                                               *)
(***************************************************************************)

LEMMA PairIsSymmetric ==
    ASSUME NEW x, NEW y, NEW c, NEW d, Pair(x, y, c, d)
    PROVE  Pair(y, x, d, c)
BY AgreeIsSymmetric DEF Pair

LEMMA WordsOfPairs ==
    ASSUME NEW x, NEW y, NEW v, NEW w, Agree(x, y, v, w)
    PROVE  /\ Proper(v) /\ Proper(w)
           /\ v = <<v[1], v[2], v[3], v[4]>> /\ w = <<w[1], w[2], w[3], w[4]>> /\ v[4] = "none" /\ w[4] = "none"
BY AgreeIsProper, WordsAreFour DEF Proper

LEMMA Hears ==
    ASSUME NEW x \in Sides, NEW y \in Sides, NEW z \in Sides, NEW v, NEW w, Agree(x, y, v, w), NEW say, NEW type,
           w[1] = type, Reply(type, x, z, say), Recalls(x, z), type = "ACK" => z.refused \/ ~z.cand
    PROVE  /\ Agree(z, y, Then(v, say), Rest(w))
           /\ type = "DISCONNECT" => Agree(z, y, Then(v, say), w)
<1>1. v = <<v[1], v[2], v[3], v[4]>> /\ w = <<w[1], w[2], w[3], w[4]>>
  BY WordsOfPairs
<1>2. PICK v1, v2, v3, v4, w2, w3, w4 : v = <<v1, v2, v3, v4>> /\ w = <<type, w2, w3, w4>>
  BY <1>1
<1>3. Rest(w) = <<w2, w3, w4, "none">>
  BY <1>2 DEF Rest
<1>4. Agree(x, y, <<v1, v2, v3, v4>>, <<type, w2, w3, w4>>)
  BY <1>2
<1>5. type \in {"REQ", "RSP", "ACK", "DNY", "DISCONNECT"}
  BY DEF Reply
<1>6. CASE type = "REQ"
  BY <1>2, <1>3, <1>4, <1>6, HearsReq
<1>7. CASE type = "RSP"
  BY <1>2, <1>3, <1>4, <1>7, HearsRsp
<1>8. CASE type = "ACK"
  BY <1>2, <1>3, <1>4, <1>8, HearsAck
<1>9. CASE type = "DNY"
  BY <1>2, <1>3, <1>4, <1>9, HearsDny
<1>10. CASE type = "DISCONNECT"
  BY <1>2, <1>3, <1>4, <1>10, HearsDisconnect
<1> QED BY <1>5, <1>6, <1>7, <1>8, <1>9, <1>10

LEMMA ThenNothing ==
    \A v : Then(v, "none") = v
BY DEF Then

\* Nothing that the handshake is about is said or heard.
LEMMA PairKeeps ==
    ASSUME NEW x \in Sides, NEW y \in Sides, NEW z \in Sides, NEW c, NEW d, NEW o, Pair(x, y, c, d),
           IsSeq(c), IsSeq(d), IsSeq(o), Speech(o, "none"), z.linked = x.linked, z.cand = x.cand, Recalls(x, z)
    PROVE  /\ Pair(z, y, c \o o, d)
           /\ d # << >> /\ Head(d).type \notin Says => Pair(z, y, c \o o, Tail(d))
<1>1. PICK v, w : Carries(c, v) /\ Carries(d, w) /\ Agree(x, y, v, w)
  BY DEF Pair
<1>2. /\ Proper(v) /\ Proper(w)
      /\ v = <<v[1], v[2], v[3], v[4]>> /\ w = <<w[1], w[2], w[3], w[4]>>
  BY <1>1, WordsOfPairs
<1>3. Agree(z, y, v, w)
  BY <1>1, <1>2, KeepsOn
<1>4. Carries(c \o o, v)
  BY <1>1, <1>2, CarriesMore, ThenNothing DEF Letters
<1>5. d # << >> /\ Head(d).type \notin Says => Carries(Tail(d), w)
  BY <1>1, <1>2, CarriesRest
<1> QED BY <1>1, <1>3, <1>4, <1>5 DEF Pair

LEMMA PairDrops ==
    ASSUME NEW x \in Sides, NEW y \in Sides, NEW z \in Sides, NEW c, NEW d, NEW o, Pair(x, y, c, d),
           IsSeq(c), IsSeq(o), Speech(o, "DISCONNECT"), x.linked, ~z.linked, z.cand = x.cand, Recalls(x, z)
    PROVE  Pair(z, y, c \o o, d)
<1>1. PICK v, w : Carries(c, v) /\ Carries(d, w) /\ Agree(x, y, v, w)
  BY DEF Pair
<1>2. /\ Proper(v) /\ Proper(w)
      /\ v = <<v[1], v[2], v[3], v[4]>> /\ w = <<w[1], w[2], w[3], w[4]>>
  BY <1>1, WordsOfPairs
<1>3. Agree(z, y, Then(v, "DISCONNECT"), w)
  BY <1>1, <1>2, DropsTo
<1>4. Carries(c \o o, Then(v, "DISCONNECT"))
  <2>1. "DISCONNECT" \in Letters
    BY DEF Letters, Says
  <2> QED BY <1>1, <1>2, <2>1, CarriesMore
<1> QED BY <1>1, <1>3, <1>4 DEF Pair

LEMMA PairHears ==
    ASSUME NEW x \in Sides, NEW y \in Sides, NEW z \in Sides, NEW c, NEW d, NEW o, Pair(x, y, c, d),
           IsSeq(c), IsSeq(d), IsSeq(o), d # << >>, Head(d).type \in Says, NEW say \in Letters, Speech(o, say),
           Reply(Head(d).type, x, z, say), Recalls(x, z), Head(d).type = "ACK" => z.refused \/ ~z.cand
    PROVE  Pair(z, y, c \o o, Tail(d))
<1>1. PICK v, w : Carries(c, v) /\ Carries(d, w) /\ Agree(x, y, v, w)
  BY DEF Pair
<1>2. Proper(v) /\ Proper(w)
  BY <1>1, WordsOfPairs
<1>3. /\ w[1] = Head(d).type
      /\ Carries(Tail(d), Rest(w)) \/ (Head(d).type = "DISCONNECT" /\ Carries(Tail(d), w))
  BY <1>1, <1>2, CarriesRest
<1>4. /\ Agree(z, y, Then(v, say), Rest(w))
      /\ Head(d).type = "DISCONNECT" => Agree(z, y, Then(v, say), w)
  BY <1>1, <1>3, Hears
<1>5. Carries(c \o o, Then(v, say))
  BY <1>1, <1>2, CarriesMore
<1> QED BY <1>3, <1>4, <1>5 DEF Pair

LEMMA PairLoses ==
    ASSUME NEW x \in Sides, NEW y \in Sides, NEW z \in Sides, NEW c, NEW d, NEW o, Pair(x, y, c, d), c = << >>, d = << >>,
           IsSeq(o), Speech(o, "none"), x.linked, ~z.linked, z.cand = x.cand, z.gone, Recalls(x, z)
    PROVE  Pair(z, y, c \o o, d)
<1>1. PICK v, w : Carries(c, v) /\ Carries(d, w) /\ Agree(x, y, v, w)
  BY DEF Pair
<1>2. /\ Proper(v) /\ Proper(w)
      /\ v = <<v[1], v[2], v[3], v[4]>> /\ w = <<w[1], w[2], w[3], w[4]>>
  BY <1>1, WordsOfPairs
<1>3. v[1] = "none" /\ w[1] = "none"
  BY <1>1, <1>2, NothingIsSaid DEF Silence
<1>4. Agree(z, y, v, w)
  BY <1>1, <1>2, <1>3, LosesSilently
<1>5. Carries(c \o o, v)
  <2>1. IsSeq(c) /\ "none" \in Letters
    BY NothingIsSaid DEF Letters
  <2> QED BY <1>1, <1>2, <2>1, CarriesMore, ThenNothing, ZenonT(30)
<1> QED BY <1>1, <1>4, <1>5 DEF Pair

LEMMA PairAsks ==
    ASSUME NEW x \in Sides, NEW y \in Sides, NEW z \in Sides, NEW c, NEW d, NEW o, Pair(x, y, c, d),
           IsSeq(c), IsSeq(d), IsSeq(o), Speech(o, "REQ"),
           \A i \in 1 .. Len(c) : c[i].type \notin {"REQ", "RSP", "ACK", "DNY"},
           \A i \in 1 .. Len(d) : d[i].type \notin {"RSP", "ACK", "DNY"},
           ~x.linked, ~x.cand, ~z.linked, z.cand, Recalls(x, z)
    PROVE  Pair(z, y, c \o o, d)
<1>1. PICK v, w : Carries(c, v) /\ Carries(d, w) /\ Agree(x, y, v, w)
  BY DEF Pair
<1>2. /\ Proper(v) /\ Proper(w)
      /\ v = <<v[1], v[2], v[3], v[4]>> /\ w = <<w[1], w[2], w[3], w[4]>>
  BY <1>1, WordsOfPairs
<1>3. /\ {v[1], v[2], v[3]} \cap {"REQ", "RSP", "ACK", "DNY"} = {}
      /\ {w[1], w[2], w[3]} \cap {"RSP", "ACK", "DNY"} = {}
  BY <1>1, <1>2, LettersAreSaid
<1>4. Agree(z, y, Then(v, "REQ"), w)
  BY <1>1, <1>2, <1>3, AsksFor
<1>5. Carries(c \o o, Then(v, "REQ"))
  <2>1. "REQ" \in Letters
    BY DEF Letters, Says
  <2> QED BY <1>1, <1>2, <2>1, CarriesMore
<1> QED BY <1>1, <1>4, <1>5 DEF Pair

(***************************************************************************)
(* The invariant                                                           *)
(***************************************************************************)

LEMMA SidesAreSides ==
    \A s, h, n, k : SideOf(s, h, n, k) \in Sides
<1> TAKE s, h, n, k
<1> DEFINE l == k \in DOMAIN s.neighbors
           c == k \in s.neighCand
           g == <<n, k>> \in h.dropped /\ k \notin DOMAIN s.neighbors
           f == <<n, k>> \in h.refused
<1>1. l \in BOOLEAN /\ c \in BOOLEAN /\ g \in BOOLEAN /\ f \in BOOLEAN /\ ~(l /\ g)
  OBVIOUS
<1>2. SideOf(s, h, n, k) = [linked |-> l, cand |-> c, gone |-> g, refused |-> f]
  BY DEF SideOf
<1> HIDE DEF l, c, g, f
<1> QED BY <1>1, <1>2 DEF Sides

LEMMA SidesSay ==
    ASSUME NEW s, NEW h, NEW n, NEW k
    PROVE  /\ SideOf(s, h, n, k) \in Sides
           /\ SideOf(s, h, n, k).linked = (k \in DOMAIN s.neighbors)
           /\ SideOf(s, h, n, k).cand = (k \in s.neighCand)
           /\ SideOf(s, h, n, k).gone = (<<n, k>> \in h.dropped /\ k \notin DOMAIN s.neighbors)
           /\ SideOf(s, h, n, k).refused = (<<n, k>> \in h.refused)
<1>1. SideOf(s, h, n, k) \in Sides
  BY SidesAreSides
<1>2. SideOf(s, h, n, k).linked = (k \in DOMAIN s.neighbors)
  BY DEF SideOf
<1>3. SideOf(s, h, n, k).cand = (k \in s.neighCand)
  BY DEF SideOf
<1>4. SideOf(s, h, n, k).gone = (<<n, k>> \in h.dropped /\ k \notin DOMAIN s.neighbors)
  BY DEF SideOf
<1>5. SideOf(s, h, n, k).refused = (<<n, k>> \in h.refused)
  BY DEF SideOf
<1> QED BY <1>1, <1>2, <1>3, <1>4, <1>5

LEMMA LinksAreSets ==
    ASSUME NEW c \in Configs, NEW n \in Node
    PROVE  /\ c \in Config /\ Linked(c, n) \subseteq Node \ {n} /\ Cardinality(Linked(c, n)) \in 0 .. maxNeighbors
           /\ \A m \in Node \ {n} : m \in Linked(c, n) <=> n \in Linked(c, m)
<1>1. c \in Config /\ Cardinality(Linked(c, n)) <= maxNeighbors
  BY GiaAssumption
<1>2. Linked(c, n) \subseteq Node \ {n}
  BY DEF Linked
<1>3. Cardinality(Linked(c, n)) \in Nat
  BY <1>2, Constants, FS_Subset, FS_CardinalityType
<1>4. \A m \in Node \ {n} : m \in Linked(c, n) <=> n \in Linked(c, m)
  <2>1. \A m : {m, n} = {n, m}
    OBVIOUS
  <2> QED BY <2>1 DEF Linked
<1> QED BY <1>1, <1>2, <1>3, <1>4, Constants

LEMMA FreshIsOK ==
    ASSUME NEW c \in Configs, NEW n \in Node
    PROVE  /\ StateOK(n, Fresh(c, n)) /\ DOMAIN Fresh(c, n).neighbors = Linked(c, n)
           /\ Fresh(c, n).neighCand = {}
<1> DEFINE L == Linked(c, n)
           e(m) == [Info(IF Linked(c, m) = {} THEN 0 ELSE Cardinality(Linked(c, m)) - 1) EXCEPT !.keys = m \in c.keys]
           b == [m \in L |-> e(m)]
           d == IF L = {} THEN 0 ELSE Cardinality(L) - 1
<1>1. PICK s : s = Fresh(c, n)
  OBVIOUS
<1>2. /\ s.neighbors = b /\ s.degree = d /\ s.neighCand = {} /\ s.knownNodes = {} /\ s.waiting = {}
      /\ s.state \in {"NONE", "READY"}
      /\ s = [f \in NodeFields |-> s[f]]
  BY <1>1 DEF Fresh, NodeFields
<1>3. \A m : IsInfo(e(m))
  BY Constants DEF IsInfo, Info, InfoFields
<1> HIDE DEF e
<1>4. L \subseteq Node \ {n} /\ Cardinality(L) \in 0 .. maxNeighbors
  BY LinksAreSets
<1>5. d \in 0 .. maxNeighbors
  <2>1. L # {} => Cardinality(L) # 0
    BY <1>4, Constants, FS_Subset, FS_EmptySet
  <2> QED BY <1>4, <2>1, Constants
<1> HIDE DEF L, d
<1>6. NeighborsOK(n, b) /\ DOMAIN b = L
  <2>1. DOMAIN b = L /\ b = [m \in DOMAIN b |-> b[m]] /\ \A m \in L : b[m] = e(m)
    OBVIOUS
  <2> HIDE DEF b
  <2> QED BY <1>3, <1>4, <2>1, Constants DEF NeighborsOK
<1> HIDE DEF b
<1>7. StateOK(n, s)
  BY <1>2, <1>5, <1>6 DEF StateOK
<1> QED BY <1>1, <1>2, <1>6, <1>7 DEF L

LEMMA InitIsIInv ==
    ASSUME Init
    PROVE  IInv
<1>1. config \in Configs /\ config \in Config
  BY LinksAreSets, GiaAssumption DEF Init
<1>2. /\ node = [n \in Node |-> node[n]]
      /\ \A n \in Node : node[n] = Fresh(config, n)
      /\ channel = [p \in Node \X Node |-> channel[p]]
      /\ \A n, k \in Node : channel[<<n, k>>] = << >>
  BY DEF Init
<1>3. history = [f \in HistoryFields |-> history[f]]
  BY DEF Init, HistoryFields
<1>4. NodesOK
  BY <1>1, <1>2, FreshIsOK DEF NodesOK
<1>5. ChannelsOK
  <2>1. Len(<< >>) = 0
    BY EmptySeq
  <2>2. Packets(<< >>)
    BY <2>1, NothingIsSaid DEF Packets
  <2>3. \A n, k \in Node : Packets(channel[<<n, k>>])
    BY <1>2, <2>2
  <2> QED BY <1>2, <2>3 DEF ChannelsOK
<1>6. ASSUME NEW n \in Node, NEW k \in Node, n # k
      PROVE  Dialogue(n, k)
  <2> PICK x, y : x = SideOf(node[n], history, n, k) /\ y = SideOf(node[k], history, k, n)
    OBVIOUS
  <2>0. /\ DOMAIN node[n].neighbors = Linked(config, n) /\ node[n].neighCand = {}
        /\ DOMAIN node[k].neighbors = Linked(config, k) /\ node[k].neighCand = {}
    BY <1>1, <1>2, FreshIsOK
  <2>1. ~x.cand /\ ~y.cand /\ x.linked = y.linked
    <3>1. k \in Linked(config, n) <=> n \in Linked(config, k)
      BY <1>1, <1>6, LinksAreSets
    <3>2. k \notin node[n].neighCand /\ n \notin node[k].neighCand
      BY <2>0
    <3>3. k \in DOMAIN node[n].neighbors <=> n \in DOMAIN node[k].neighbors
      BY <2>0, <3>1
    <3>4. x.cand = (k \in node[n].neighCand)
      BY DEF SideOf
    <3>5. x.linked = (k \in DOMAIN node[n].neighbors)
      BY DEF SideOf
    <3>6. y.cand = (n \in node[k].neighCand)
      BY DEF SideOf
    <3>7. y.linked = (n \in DOMAIN node[k].neighbors)
      BY DEF SideOf
    <3>8. (k \in DOMAIN node[n].neighbors) = (n \in DOMAIN node[k].neighbors)
      BY <3>3
    <3>9. ~x.cand /\ ~y.cand
      BY <3>2, <3>4, <3>6, Zenon
    <3>10. x.linked = y.linked
      BY <3>5, <3>7, <3>8, Zenon
    <3> QED BY <3>9, <3>10
  <2>2. Agree(x, y, Silence, Silence)
    BY <2>1 DEF Agree, Row, Gone
  <2>3. channel[<<n, k>>] = << >> /\ channel[<<k, n>>] = << >>
    BY <1>2
  <2> QED BY <2>2, <2>3, NothingIsSaid DEF Dialogue, Pair
<1> QED BY <1>1, <1>3, <1>4, <1>5, <1>6 DEF IInv

(***************************************************************************)
(* What a step leaves                                                      *)
(***************************************************************************)
LEMMA SameSide ==
    ASSUME NEW s, NEW h, NEW t, NEW g, NEW n, NEW k,
           k \in DOMAIN s.neighbors <=> k \in DOMAIN t.neighbors, k \in s.neighCand <=> k \in t.neighCand,
           <<n, k>> \in h.dropped <=> <<n, k>> \in g.dropped, <<n, k>> \in h.refused <=> <<n, k>> \in g.refused
    PROVE  SideOf(s, h, n, k) = SideOf(t, g, n, k)
BY DEF SideOf

LEMMA PacketsJoin ==
    ASSUME NEW o, Packets(o), NEW q, Packets(q)
    PROVE  Packets(o \o q) /\ (o = << >> /\ q = << >> => o \o q = << >>)
<1> DEFINE n == Len(o)
           c == o \o q
<1>1. /\ n \in Nat /\ Len(q) \in Nat /\ IsSeq(c) /\ Len(c) = n + Len(q)
      /\ \A i \in 1 .. n : c[i] = o[i]
      /\ \A i \in 1 .. Len(q) : c[n + i] = q[i]
  BY Sequences DEF Packets
<1>2. c = << >> <=> Len(c) = 0
  BY <1>1, Sequences
<1>3. (o = << >> => n = 0) /\ (q = << >> => Len(q) = 0)
  BY Sequences DEF Packets
<1> HIDE DEF n, c
<1>4. \A i \in 1 .. Len(c) : i \in 1 .. n \/ (i - n \in 1 .. Len(q) /\ n + (i - n) = i)
  BY <1>1
<1>5. \A i \in 1 .. Len(c) : PacketOK(c[i])
  BY <1>1, <1>4 DEF Packets, n
<1> QED BY <1>1, <1>2, <1>3, <1>5 DEF Packets, c

LEMMA Finished ==
    ASSUME IInv, config' \in Config, NEW r, NEW chan, NEW past, After(r, chan, past), Finish(r, chan, past)
    PROVE  IInv'
<1> PICK n : n = r.n
  OBVIOUS
<1>1. n \in Node /\ WorkOK(r) /\ StateOK(n, r.s)
  BY DEF After, WorkOK
<1>2. node' = [k \in Node |-> node'[k]] /\ node'[n] = r.s /\ \A k \in Node \ {n} : node'[k] = node[k]
  BY <1>1 DEF Finish, IInv, NodesOK
<1>3. NodesOK'
  <2>1. \A k \in Node : StateOK(k, node'[k])
    BY <1>1, <1>2 DEF IInv, NodesOK
  <2> QED BY <1>2, <2>1 DEF NodesOK
<1>4. /\ channel' = [p \in Node \X Node |-> channel'[p]]
      /\ \A k \in Node : channel'[<<n, k>>] = chan[<<n, k>>] \o r.out[k]
      /\ \A a \in Node \ {n}, k \in Node : channel'[<<a, k>>] = chan[<<a, k>>]
  BY <1>1 DEF Finish
<1>5. ChannelsOK'
  <2>1. \A k \in Node : Packets(chan[<<n, k>>]) /\ Packets(r.out[k])
    BY <1>1 DEF After, WorkOK
  <2>2. chan[<<n, n>>] = << >> /\ r.out[n] = << >>
    BY <1>1 DEF After, WorkOK
  <2>3. \A k \in Node : Packets(channel'[<<n, k>>])
    <3> TAKE k \in Node
    <3>1. PICK o, q : o = chan[<<n, k>>] /\ q = r.out[k]
      OBVIOUS
    <3>2. Packets(o \o q)
      BY <2>1, <3>1, PacketsJoin
    <3> QED BY <1>4, <3>1, <3>2
  <2>4. channel'[<<n, n>>] = << >>
    <3>1. PICK o, q : o = chan[<<n, n>>] /\ q = r.out[n]
      OBVIOUS
    <3>2. o \o q = << >>
      BY <1>1, <2>1, <2>2, <3>1, PacketsJoin
    <3> QED BY <1>1, <1>4, <3>1, <3>2
  <2>5. \A a \in Node \ {n}, k \in Node : Packets(channel'[<<a, k>>])
    BY <1>4 DEF After
  <2>6. \A a \in Node \ {n} : channel'[<<a, a>>] = << >>
    BY <1>4 DEF After
  <2> QED BY <1>4, <2>3, <2>4, <2>5, <2>6 DEF ChannelsOK
<1>6. /\ history' = [f \in HistoryFields |-> history'[f]]
      /\ history'.dropped = past.dropped /\ history'.refused = past.refused /\ history'.again = past.again
  BY DEF Finish, After, HistoryFields
<1>7. ASSUME NEW k \in Node \ {n}
      PROVE  Dialogue(n, k)' /\ Dialogue(k, n)'
  <2>1. CASE {n, k} \in past.again
    <3>1. {k, n} = {n, k}
      OBVIOUS
    <3> QED BY <1>6, <2>1, <3>1 DEF Dialogue
  <2>2. CASE {n, k} \notin past.again
    <3>1. Pair(SideOf(r.s, past, n, k), SideOf(node[k], past, k, n), chan[<<n, k>>] \o r.out[k], chan[<<k, n>>])
      BY <2>2 DEF After
    <3>2. SideOf(r.s, past, n, k) = SideOf(node'[n], history', n, k)
      BY <1>2, <1>6 DEF SideOf
    <3>3. SideOf(node[k], past, k, n) = SideOf(node'[k], history', k, n)
      BY <1>2, <1>6 DEF SideOf
    <3>4. chan[<<n, k>>] \o r.out[k] = channel'[<<n, k>>] /\ chan[<<k, n>>] = channel'[<<k, n>>]
      BY <1>1, <1>4
    <3>5. Pair(SideOf(node'[n], history', n, k), SideOf(node'[k], history', k, n), channel'[<<n, k>>], channel'[<<k, n>>])
      BY <3>1, <3>2, <3>3, <3>4
    <3>6. Pair(SideOf(node'[k], history', k, n), SideOf(node'[n], history', n, k), channel'[<<k, n>>], channel'[<<n, k>>])
      BY <3>5, PairIsSymmetric
    <3> QED BY <3>5, <3>6 DEF Dialogue
  <2> QED BY <2>1, <2>2
<1>8. ASSUME NEW a \in Node \ {n}, NEW b \in Node \ {n}, a # b
      PROVE  Dialogue(a, b)'
  <2>1. CASE {a, b} \in history.again
    <3>1. {a, b} \in history'.again
      BY <1>6, <2>1 DEF After
    <3> QED BY <3>1 DEF Dialogue
  <2>2. CASE {a, b} \notin history.again
    <3>1. Pair(SideOf(node[a], history, a, b), SideOf(node[b], history, b, a), channel[<<a, b>>], channel[<<b, a>>])
      BY <1>8, <2>2 DEF IInv, Dialogue
    <3>2. /\ <<a, b>> \in history.dropped <=> <<a, b>> \in history'.dropped
          /\ <<b, a>> \in history.dropped <=> <<b, a>> \in history'.dropped
          /\ <<a, b>> \in history.refused <=> <<a, b>> \in history'.refused
          /\ <<b, a>> \in history.refused <=> <<b, a>> \in history'.refused
      BY <1>6 DEF After
    <3>3. SideOf(node[a], history, a, b) = SideOf(node'[a], history', a, b)
      BY <1>2, <3>2, SameSide
    <3>4. SideOf(node[b], history, b, a) = SideOf(node'[b], history', b, a)
      BY <1>2, <3>2, SameSide
    <3>5. channel[<<a, b>>] = channel'[<<a, b>>] /\ channel[<<b, a>>] = channel'[<<b, a>>]
      BY <1>4, ZenonT(30) DEF After
    <3> QED BY <3>1, <3>3, <3>4, <3>5 DEF Dialogue
  <2> QED BY <2>1, <2>2
<1>9. \A a, b \in Node : a # b => Dialogue(a, b)'
  <2> TAKE a, b \in Node
  <2> HAVE a # b
  <2>1. CASE a = n
    BY <1>7, <2>1
  <2>2. CASE b = n
    BY <1>7, <2>2
  <2>3. CASE a # n /\ b # n
    BY <1>8, <2>3
  <2> QED BY <2>1, <2>2, <2>3
<1> QED BY <1>3, <1>5, <1>6, <1>9 DEF IInv

LEMMA SidesRecall ==
    ASSUME NEW s, NEW h, NEW t, NEW g, NEW n, NEW k,
           <<n, k>> \in h.dropped => <<n, k>> \in g.dropped \/ k \in DOMAIN t.neighbors,
           <<n, k>> \in h.refused => <<n, k>> \in g.refused \/ k \notin t.neighCand
    PROVE  Recalls(SideOf(s, h, n, k), SideOf(t, g, n, k))
BY DEF Recalls, SideOf

LEMMA SidesReply ==
    ASSUME NEW s, NEW h, NEW t, NEW g, NEW n, NEW k, NEW type, NEW say, Reply(type, Sided(s, k), Sided(t, k), say)
    PROVE  Reply(type, SideOf(s, h, n, k), SideOf(t, g, n, k), say)
BY DEF Reply, Sided, SideOf

LEMMA Working ==
    ASSUME IInv, NEW n \in Node, NEW r, r = Work(n)
    PROVE  WorkOK(r) /\ Unsaid(r) /\ r.n = n /\ r.s = node[n]
<1>1. /\ r = [f \in WorkFields |-> r[f]] /\ r.n = n /\ r.s = node[n] /\ r.out = [to \in Node |-> << >>]
  BY DEF Work, WorkFields
<1>2. StateOK(n, node[n])
  BY DEF IInv, NodesOK
<1>3. Packets(<< >>) /\ Speech(<< >>, "none")
  BY NothingIsSaid, EmptySeq DEF Packets
<1>4. r.out = [to \in Node |-> r.out[to]] /\ \A k \in Node : r.out[k] = << >>
  BY <1>1
<1>5. \A k \in Node : Packets(r.out[k]) /\ Speech(r.out[k], "none")
  BY <1>3, <1>4
<1> QED BY <1>1, <1>2, <1>4, <1>5 DEF WorkOK, Unsaid

LEMMA CalmIsAside ==
    ASSUME NEW r, Unsaid(r), NEW t, Calm(r, t), NEW k \in Node
    PROVE  Aside(r, t, k)
<1>1. /\ k \in DOMAIN t.s.neighbors <=> k \in DOMAIN r.s.neighbors
      /\ k \in t.s.neighCand <=> k \in r.s.neighCand
      /\ \A x \in Letters : Speech(r.out[k], x) => Speech(t.out[k], x)
  BY DEF Calm, Alike
<1> QED BY <1>1, Stays

\* What is aside between two nodes leaves them in agreement.
LEMMA AsidePair ==
    ASSUME IInv, NEW n \in Node, NEW k \in Node \ {n}, {n, k} \notin history.again,
           NEW t, t.n = n, Packets(t.out[k]), Aside(Work(n), t, k), NEW past, Remembered(t, past)
    PROVE  /\ Pair(SideOf(t.s, past, n, k), SideOf(node[k], past, k, n), channel[<<n, k>>] \o t.out[k], channel[<<k, n>>])
           /\ channel[<<k, n>>] # << >> /\ Head(channel[<<k, n>>]).type \notin Says /\ Calm(Work(n), t)
                => Pair(SideOf(t.s, past, n, k), SideOf(node[k], past, k, n),
                        channel[<<n, k>>] \o t.out[k], Tail(channel[<<k, n>>]))
<1> PICK c, d, o : c = channel[<<n, k>>] /\ d = channel[<<k, n>>] /\ o = t.out[k]
  OBVIOUS
<1> PICK x, y, z : x = SideOf(node[n], history, n, k) /\ y = SideOf(node[k], history, k, n) /\ z = SideOf(t.s, past, n, k)
  OBVIOUS
<1>1. x \in Sides /\ y \in Sides /\ z \in Sides
  BY SidesAreSides
<1>2. Pair(x, y, c, d)
  BY DEF IInv, Dialogue
<1>3. Recalls(x, z)
  BY SidesRecall DEF Remembered
<1>4. y = SideOf(node[k], past, k, n)
  BY SameSide DEF Remembered
<1>5. IsSeq(c) /\ IsSeq(d) /\ IsSeq(o)
  BY DEF IInv, ChannelsOK, Packets
<1>6. k \in t.s.neighCand <=> k \in node[n].neighCand
  BY Working DEF Aside
<1>7. z.cand = x.cand
  BY <1>6 DEF SideOf
<1>8. ASSUME k \in DOMAIN t.s.neighbors <=> k \in DOMAIN node[n].neighbors
      PROVE  z.linked = x.linked
  BY <1>8 DEF SideOf
<1>9. CASE (k \in DOMAIN t.s.neighbors <=> k \in DOMAIN node[n].neighbors) /\ Speech(o, "none")
  <2>1. z.linked = x.linked
    BY <1>8, <1>9
  <2>2. /\ Pair(z, y, c \o o, d)
        /\ d # << >> /\ Head(d).type \notin Says => Pair(z, y, c \o o, Tail(d))
    BY <1>1, <1>2, <1>3, <1>5, <1>7, <1>9, <2>1, PairKeeps
  <2> QED BY <1>4, <2>2
<1>10. CASE k \in DOMAIN node[n].neighbors /\ k \notin DOMAIN t.s.neighbors /\ Speech(o, "DISCONNECT")
  <2>1. x.linked /\ ~z.linked
    BY <1>10 DEF SideOf
  <2>2. Pair(z, y, c \o o, d)
    BY <1>1, <1>2, <1>3, <1>5, <1>7, <1>10, <2>1, PairDrops
  <2>3. ~Calm(Work(n), t)
    BY <1>10, Working DEF Calm, Alike
  <2> QED BY <1>4, <2>2, <2>3
<1> QED BY <1>9, <1>10, Working DEF Aside

LEMMA CalmStep ==
    ASSUME IInv, config' \in Config, NEW n \in Node, NEW t, Calm(Work(n), t), Leave(t)
    PROVE  IInv'
<1>1. /\ WorkOK(t) /\ t.n = n /\ \A k \in Node : Packets(t.out[k])
  BY Working DEF Calm, WorkOK
<1>2. Remembered(t, history)
  BY DEF Remembered, IInv
<1>3. \A k \in Node \ {n} : \/ {n, k} \in history.again
                            \/ Pair(SideOf(t.s, history, n, k), SideOf(node[k], history, k, n),
                                    channel[<<n, k>>] \o t.out[k], channel[<<k, n>>])
  <2> TAKE k \in Node \ {n}
  <2>1. Aside(Work(n), t, k)
    BY Working, CalmIsAside
  <2> QED BY <1>1, <1>2, <2>1, AsidePair
<1>4. After(t, channel, history)
  BY <1>1, <1>2, <1>3 DEF After, Remembered, IInv, ChannelsOK
<1> QED BY <1>4, Finished DEF Leave

(***************************************************************************)
(* The steps of timers and applications                                    *)
(***************************************************************************)
LEMMA UsesKeeps ==
    ASSUME config \in Config, NEW b \in {"requests", "updates", "timeouts", "forgets", "puts"}, Uses(b)
    PROVE  config' \in Config
<1>1. config' = [config EXCEPT ![b] = config[b] - 1] /\ config[b] > 0
  BY DEF Uses
<1>2. CASE b = "requests"
  BY <1>1, <1>2 DEF Config
<1>3. CASE b = "updates"
  BY <1>1, <1>3 DEF Config
<1>4. CASE b = "timeouts"
  BY <1>1, <1>4 DEF Config
<1>5. CASE b = "forgets"
  BY <1>1, <1>5 DEF Config
<1>6. CASE b = "puts"
  BY <1>1, <1>6 DEF Config
<1> QED BY <1>2, <1>3, <1>4, <1>5, <1>6

LEMMA BootsAreNodes ==
    \A n : Boots(n) \subseteq Node \cup {None} /\ ReadyNodes \subseteq Node
BY DEF Boots, ReadyNodes

\* A handler that first changes the node's own state.
LEMMA Begins ==
    ASSUME IInv, NEW n \in Node, NEW s, StateOK(n, s), Alike(node[n], s), NEW t, t = [Work(n) EXCEPT !.s = s]
    PROVE  Calm(Work(n), t) /\ WorkOK(t) /\ t.n = n /\ t.s = s
<1> PICK r : r = Work(n)
  OBVIOUS
<1>1. WorkOK(r) /\ r.n = n /\ r.s = node[n]
  BY Working
<1>2. Calm(r, t)
  BY <1>1, StateChanged
<1>3. r = [f \in WorkFields |-> r[f]]
  BY <1>1 DEF WorkOK
<1>4. t.s = s
  BY <1>3 DEF WorkFields
<1> QED BY <1>1, <1>2, <1>4 DEF Calm

LEMMA SendAllIsCalm ==
    ASSUME NEW r, WorkOK(r), NEW type \in {"UPDATE", "KEYLIST"}
    PROVE  Calm(r, SendAll(r, type))
<1> PICK t : t = SendAll(r, type)
  OBVIOUS
<1> PICK p : p = Note(r, type)
  OBVIOUS
<1>1. PacketOK(p) /\ p.type \notin Says
  BY DEF PacketOK, Note, Types, Says
<1>2. /\ t = [f \in WorkFields |-> t[f]] /\ t.n = r.n /\ t.s = r.s
      /\ t.out = [k \in Node |-> IF k \in DOMAIN r.s.neighbors THEN Append(r.out[k], p) ELSE r.out[k]]
  BY DEF WorkOK, WorkFields, SendAll
<1>3. \A k \in Node : Packets(t.out[k]) /\ \A x \in Letters : Speech(r.out[k], x) => Speech(t.out[k], x)
  <2> TAKE k \in Node
  <2>1. PICK o : o = r.out[k]
    OBVIOUS
  <2>2. Packets(o)
    BY <2>1 DEF WorkOK
  <2>3. t.out[k] = Append(o, p) \/ t.out[k] = o
    BY <1>2, <2>1
  <2>4. Packets(Append(o, p)) /\ \A x \in Letters : Speech(o, x) => Speech(Append(o, p), x)
    BY <1>1, <2>2, SaysOneMore
  <2> QED BY <2>1, <2>2, <2>3, <2>4
<1>4. r.n \notin DOMAIN r.s.neighbors
  BY DEF WorkOK, StateOK, NeighborsOK
<1>5. t.out = [k \in Node |-> t.out[k]] /\ t.out[t.n] = << >>
  <2>1. PICK out : out = t.out
    OBVIOUS
  <2>2. out = [k \in Node |-> IF k \in DOMAIN r.s.neighbors THEN Append(r.out[k], p) ELSE r.out[k]]
    BY <1>2, <2>1
  <2>3. r.n \in Node /\ r.out[r.n] = << >>
    BY DEF WorkOK
  <2>4. out = [k \in Node |-> out[k]] /\ out[r.n] = << >>
    BY <1>4, <2>2, <2>3
  <2> QED BY <1>2, <2>1, <2>4
<1>6. WorkOK(t)
  <2>1. t.n \in Node /\ StateOK(t.n, t.s)
    BY <1>2 DEF WorkOK
  <2> QED BY <1>2, <1>3, <1>5, <2>1 DEF WorkOK
<1> QED BY <1>2, <1>3, <1>6 DEF Calm, Alike

LEMMA JoinOverlayKeeps ==
    ASSUME IInv, NEW n \in Node, JoinOverlay(n)
    PROVE  IInv'
<1>1. PICK boot \in Boots(n) :
        LET s == ToInit(node[n], boot)
        IN  Finishes([Work(n) EXCEPT !.s = [s EXCEPT !.state = IF boot = None THEN "READY" ELSE "INIT"]])
  BY DEF JoinOverlay
<1> DEFINE s == ToInit(node[n], boot)
           u == [s EXCEPT !.state = IF boot = None THEN "READY" ELSE "INIT"]
<1>2. boot \in Node \cup {None} /\ StateOK(n, node[n])
  BY BootsAreNodes DEF IInv, NodesOK
<1>3. StateOK(n, s) /\ Alike(node[n], s)
  BY <1>2, ToInitIsOK
<1> HIDE DEF s
<1>4. StateOK(n, u) /\ Alike(node[n], u)
  BY <1>3 DEF StateOK, NodeFields, Alike
<1>5. Finishes([Work(n) EXCEPT !.s = u])
  BY <1>1 DEF s
<1> HIDE DEF u
<1>6. Calm(Work(n), [Work(n) EXCEPT !.s = u])
  BY <1>4, Begins
<1> QED BY <1>5, <1>6, CalmStep DEF Finishes, IInv

LEMMA UpdateTimerKeeps ==
    ASSUME IInv, NEW n \in Node, UpdateTimer(n)
    PROVE  IInv'
<1> DEFINE s == [node[n] EXCEPT !.updateTimer = FALSE]
<1> PICK t : t = [Work(n) EXCEPT !.s.updateTimer = FALSE]
  OBVIOUS
<1>1. t = [Work(n) EXCEPT !.s = s]
  BY Working
<1>2. StateOK(n, s) /\ Alike(node[n], s)
  <2>1. StateOK(n, node[n])
    BY DEF IInv, NodesOK
  <2> QED BY <2>1 DEF StateOK, NodeFields, Alike
<1> HIDE DEF s
<1>3. Calm(Work(n), t) /\ WorkOK(t)
  BY <1>1, <1>2, Begins
<1>4. Calm(Work(n), SendAll(t, "UPDATE"))
  BY <1>3, SendAllIsCalm, CalmIsTransitive
<1>5. config' \in Config
  BY UsesKeeps DEF UpdateTimer, IInv
<1> QED BY <1>4, <1>5, CalmStep DEF UpdateTimer

LEMMA SendKeyListTimerKeeps ==
    ASSUME IInv, NEW n \in Node, SendKeyListTimer(n)
    PROVE  IInv'
<1> DEFINE s == [node[n] EXCEPT !.keyListTimer = FALSE]
<1> PICK t : t = [Work(n) EXCEPT !.s.keyListTimer = FALSE]
  OBVIOUS
<1>1. t = [Work(n) EXCEPT !.s = s]
  BY Working
<1>2. StateOK(n, s) /\ Alike(node[n], s)
  <2>1. StateOK(n, node[n])
    BY DEF IInv, NodesOK
  <2> QED BY <2>1 DEF StateOK, NodeFields, Alike
<1> HIDE DEF s
<1>3. Calm(Work(n), t) /\ WorkOK(t)
  BY <1>1, <1>2, Begins
<1>4. Calm(Work(n), SendAll(t, "KEYLIST"))
  BY <1>3, SendAllIsCalm, CalmIsTransitive
<1> QED BY <1>4, CalmStep DEF SendKeyListTimer, Finishes, IInv

LEMMA SendTokenTimerKeeps ==
    ASSUME IInv, NEW n \in Node, SendTokenTimer(n)
    PROVE  IInv'
<1> DEFINE s == [node[n] EXCEPT !.tokenTimer = FALSE]
<1> PICK t : t = [Work(n) EXCEPT !.s.tokenTimer = FALSE]
  OBVIOUS
<1> PICK u, k : u = GrantToken(t) /\ k = Min({1, Size(t.s)})
  OBVIOUS
<1>1. t = [Work(n) EXCEPT !.s = s]
  BY Working
<1>2. StateOK(n, s) /\ Alike(node[n], s)
  <2>1. StateOK(n, node[n])
    BY DEF IInv, NodesOK
  <2> QED BY <2>1 DEF StateOK, NodeFields, Alike
<1> HIDE DEF s
<1>3. Calm(Work(n), t) /\ WorkOK(t)
  BY <1>1, <1>2, Begins
<1>4. Calm(t, u) /\ WorkOK(u)
  BY <1>3, GrantTokenIsCalm DEF Calm
<1>5. Calm(u, [u EXCEPT !.minted = k])
  BY <1>4, NotesChanged
<1>6. Calm(Work(n), [u EXCEPT !.minted = k])
  BY <1>3, <1>4, <1>5, CalmIsTransitive
<1>7. Finishes([u EXCEPT !.minted = k])
  BY DEF SendTokenTimer
<1> QED BY <1>6, <1>7, CalmStep DEF Finishes, IInv

LEMMA TimedoutMessagesKeeps ==
    ASSUME IInv, NEW n \in Node, TimedoutMessages(n)
    PROVE  IInv'
<1>1. PICK id : Uses("forgets") /\ Leave([Work(n) EXCEPT !.s.messages = Erased(@, id)])
  BY DEF TimedoutMessages
<1> DEFINE s == [node[n] EXCEPT !.messages = Erased(node[n].messages, id)]
<1> PICK t : t = [Work(n) EXCEPT !.s.messages = Erased(@, id)]
  OBVIOUS
<1>2. t = [Work(n) EXCEPT !.s = s]
  BY Working
<1>3. StateOK(n, s) /\ Alike(node[n], s)
  <2>1. StateOK(n, node[n])
    BY DEF IInv, NodesOK
  <2> QED BY <2>1 DEF StateOK, NodeFields, Alike
<1> HIDE DEF s
<1>4. Calm(Work(n), t)
  BY <1>2, <1>3, Begins
<1>5. config' \in Config
  BY <1>1, UsesKeeps DEF IInv
<1> QED BY <1>1, <1>4, <1>5, CalmStep

LEMMA WaitForTokenKeeps ==
    ASSUME IInv, NEW n \in Node, WaitForToken(n)
    PROVE  IInv'
<1>1. PICK w \in node[n].waiting :
        Finishes(Forward([Work(n) EXCEPT !.s.waiting = @ \ {w}], w.msg, w.fromApp))
  BY DEF WaitForToken
<1> DEFINE s == [node[n] EXCEPT !.waiting = node[n].waiting \ {w}]
<1> PICK t : t = [Work(n) EXCEPT !.s.waiting = @ \ {w}]
  OBVIOUS
<1>2. t = [Work(n) EXCEPT !.s = s]
  BY Working
<1>3. StateOK(n, s) /\ Alike(node[n], s) /\ MessageOK(w.msg)
  <2>1. StateOK(n, node[n])
    BY DEF IInv, NodesOK
  <2>2. MessageOK(w.msg)
    BY <2>1 DEF StateOK
  <2> QED BY <2>1, <2>2 DEF StateOK, NodeFields, Alike
<1> HIDE DEF s
<1>4. Calm(Work(n), t) /\ WorkOK(t)
  BY <1>2, <1>3, Begins
<1>5. Calm(t, Forward(t, w.msg, w.fromApp))
  BY <1>3, <1>4, ForwardIsCalm
<1>6. Calm(Work(n), Forward(t, w.msg, w.fromApp))
  BY <1>4, <1>5, CalmIsTransitive
<1> QED BY <1>1, <1>6, CalmStep DEF Finishes, IInv

LEMMA HandlePutKeeps ==
    ASSUME IInv, NEW n \in Node, HandlePut(n)
    PROVE  IInv'
<1> DEFINE s == [node[n] EXCEPT !.keys = TRUE, !.keyListTimer = TRUE]
<1> PICK t : t = [Work(n) EXCEPT !.s.keys = TRUE, !.s.keyListTimer = TRUE]
  OBVIOUS
<1>1. t = [Work(n) EXCEPT !.s = s]
  BY Working
<1>2. StateOK(n, s) /\ Alike(node[n], s)
  <2>1. StateOK(n, node[n])
    BY DEF IInv, NodesOK
  <2> QED BY <2>1 DEF StateOK, NodeFields, Alike
<1> HIDE DEF s
<1>3. Calm(Work(n), t)
  BY <1>1, <1>2, Begins
<1>4. config' \in Config
  BY UsesKeeps DEF HandlePut, IInv
<1> QED BY <1>3, <1>4, CalmStep DEF HandlePut

LEMMA HandleRequestKeeps ==
    ASSUME IInv, NEW id \in Ids, HandleRequest(id)
    PROVE  IInv'
<1> PICK q, m, n : q = config.searches[id] /\ m = Request(id) /\ n = q.origin
  OBVIOUS
<1>1. config.searches \in [Ids -> [origin : Node \cup {None}, dest : Node \cup {None}, responses : Nat]]
  BY DEF IInv, Config
<1>2. n \in Node /\ q \in [origin : Node \cup {None}, dest : Node \cup {None}, responses : Nat]
  BY <1>1 DEF HandleRequest
<1>3. MessageOK(m)
  BY DEF Request, MessageOK
<1>4. config' \in Config
  <2> DEFINE p == [q EXCEPT !.origin = None]
             S == [config.searches EXCEPT ![id] = p]
  <2>1. p \in [origin : Node \cup {None}, dest : Node \cup {None}, responses : Nat]
    BY <1>2
  <2>2. config' = [config EXCEPT !.searches = S]
    BY DEF HandleRequest
  <2> HIDE DEF p
  <2>3. S \in [Ids -> [origin : Node \cup {None}, dest : Node \cup {None}, responses : Nat]]
    BY <1>1, <2>1
  <2> HIDE DEF S
  <2> QED BY <2>2, <2>3 DEF IInv, Config
<1> PICK r : r = Work(n)
  OBVIOUS
<1>5. WorkOK(r)
  BY <1>2, Working
<1>6. Leave(IF r.s.state # "READY" THEN r ELSE IF m.type = "SEARCH" THEN ProcessSearch(r, m, TRUE) ELSE Forward(r, m, TRUE))
  BY DEF HandleRequest
<1>7. Calm(r, r) /\ Calm(r, ProcessSearch(r, m, TRUE)) /\ Calm(r, Forward(r, m, TRUE))
  BY <1>3, <1>5, CalmIsReflexive, ProcessSearchIsCalm, ForwardIsCalm
<1>8. PICK t : Calm(Work(n), t) /\ Leave(t)
  BY <1>6, <1>7
<1> QED BY <1>2, <1>4, <1>8, CalmStep

(***************************************************************************)
(* The steps that handle packets                                           *)
(***************************************************************************)
LEMMA CalmThenHandled ==
    ASSUME NEW r, Unsaid(r), NEW u, Calm(r, u), NEW t, NEW from, NEW type, Handled(u, t, from, type)
    PROVE  Handled(r, t, from, type)
<1>1. u.n = r.n /\ WorkOK(t) /\ t.n = u.n
  BY DEF Calm, Handled
<1>2. Sided(r.s, from) = Sided(u.s, from)
  <2>1. DOMAIN u.s.neighbors = DOMAIN r.s.neighbors /\ u.s.neighCand = r.s.neighCand
    BY DEF Calm, Alike
  <2> QED BY <2>1 DEF Sided
<1>3. \A k \in Node \ {r.n, from} : Aside(r, t, k)
  <2> TAKE k \in Node \ {r.n, from}
  <2>1. Aside(u, t, k)
    BY <1>1 DEF Handled
  <2>2. k \in DOMAIN u.s.neighbors <=> k \in DOMAIN r.s.neighbors
    BY DEF Calm, Alike
  <2>3. k \in u.s.neighCand <=> k \in r.s.neighCand
    BY DEF Calm, Alike
  <2> QED BY <2>1, <2>2, <2>3 DEF Aside
<1> QED BY <1>1, <1>2, <1>3 DEF Handled

LEMMA HandleIsOK ==
    ASSUME NEW r, WorkOK(r), Unsaid(r), NEW from \in Node \ {r.n}, NEW m, PacketOK(m),
           NEW boot \in Node \cup {None}, NEW t, t = Handle(r, from, m, boot)
    PROVE  /\ m.type \in Says => Handled(r, t, from, m.type)
           /\ m.type \notin Says => Calm(r, t)
<1> PICK u : u = UpdateNeighborList(r, from, m.degree)
  OBVIOUS
<1>1. Calm(r, u)
  BY TokenGranted, CalmIsReflexive DEF UpdateNeighborList
<1>2. /\ WorkOK(u) /\ u.n = r.n /\ Unsaid(u)
      /\ from \in DOMAIN r.s.neighbors <=> from \in DOMAIN u.s.neighbors
  BY <1>1, CalmIsUnsaid DEF Calm, Alike
<1>3. CASE m.type = "REQ"
  <2>1. t = HandleJoinReq(u, from, m.degree)
    BY <1>3 DEF Handle
  <2>2. Handled(u, t, from, "REQ")
    BY <1>2, <2>1, HandlesJoinReq
  <2> QED BY <1>1, <1>3, <2>2, CalmThenHandled DEF Says
<1>4. CASE m.type = "RSP"
  <2>1. t = HandleJoinRsp(u, from, m.degree, m.nodes) /\ m.nodes \in SUBSET Node
    BY <1>4 DEF Handle, PacketOK
  <2>2. Handled(u, t, from, "RSP")
    BY <1>2, <2>1, HandlesJoinRsp
  <2> QED BY <1>1, <1>4, <2>2, CalmThenHandled DEF Says
<1>5. CASE m.type = "ACK"
  <2>1. t = HandleJoinAck(u, from, m.degree, m.nodes) /\ m.nodes \in SUBSET Node
    BY <1>5 DEF Handle, PacketOK
  <2>2. Handled(u, t, from, "ACK")
    BY <1>2, <2>1, HandlesJoinAck
  <2> QED BY <1>1, <1>5, <2>2, CalmThenHandled DEF Says
<1>6. CASE m.type = "DNY"
  <2>1. t = HandleJoinDny(u, from)
    BY <1>6 DEF Handle
  <2>2. Handled(u, t, from, "DNY")
    BY <1>2, <2>1, HandlesJoinDny
  <2> QED BY <1>1, <1>6, <2>2, CalmThenHandled DEF Says
<1>7. CASE m.type = "DISCONNECT"
  <2>1. t = RemoveNeighbor(u, from, boot)
    BY <1>7 DEF Handle
  <2>2. Handled(u, t, from, "DISCONNECT")
    BY <1>2, <2>1, HandlesDisconnect
  <2> QED BY <1>1, <1>7, <2>2, CalmThenHandled DEF Says
<1>8. CASE m.type = "TOKEN"
  <2>1. t = IF from \in DOMAIN r.s.neighbors THEN [u EXCEPT !.s.neighbors[from].received = @ + 1] ELSE u
    BY <1>8 DEF Handle
  <2>2. from \in DOMAIN r.s.neighbors => Calm(u, [u EXCEPT !.s.neighbors[from].received = @ + 1])
    BY <1>2, TokenGranted
  <2> QED BY <1>1, <1>8, <2>1, <2>2, CalmIsTransitive DEF Says
<1>9. CASE m.type = "KEYLIST"
  <2>1. t = IF from \in DOMAIN r.s.neighbors THEN [r EXCEPT !.s.neighbors[from].keys = TRUE] ELSE r
    BY <1>9 DEF Handle
  <2>2. from \in DOMAIN r.s.neighbors => Calm(r, [r EXCEPT !.s.neighbors[from].keys = TRUE])
    BY TokenGranted
  <2> QED BY <1>9, <2>1, <2>2, CalmIsReflexive DEF Says
<1>10. CASE m.type = "SEARCH"
  <2>1. t = ProcessSearch(u, m, FALSE) /\ MessageOK(m)
    BY <1>10 DEF Handle, PacketOK
  <2>2. Calm(u, t)
    BY <1>2, <2>1, ProcessSearchIsCalm
  <2> QED BY <1>1, <1>10, <2>2, CalmIsTransitive DEF Says
<1>11. CASE m.type = "ROUTE"
  <2>1. t = (IF r.s.state = "READY" THEN Forward(u, m, FALSE) ELSE r) /\ MessageOK(m)
    BY <1>11 DEF Handle, PacketOK
  <2>2. Calm(u, Forward(u, m, FALSE))
    BY <1>2, <2>1, ForwardIsCalm
  <2> QED BY <1>1, <1>11, <2>1, <2>2, CalmIsTransitive, CalmIsReflexive DEF Says
<1>12. CASE m.type = "ANSWER"
  <2>1. t = ForwardAnswers(r, m.id, <<m.found>>, m.path)
    BY <1>12 DEF Handle
  <2>2. <<m.found>> \in Seq({m.found})
    OBVIOUS
  <2>3. IsSeq(<<m.found>>)
    BY <2>2 DEF IsSeq
  <2> QED BY <1>12, <2>1, <2>3, ForwardAnswersIsCalm DEF Says
<1>13. CASE m.type = "UPDATE"
  <2>1. t = u
    BY <1>13 DEF Handle
  <2> QED BY <1>1, <1>13, <2>1 DEF Says
<1>14. m.type \in {"REQ", "RSP", "ACK", "DNY", "DISCONNECT", "TOKEN", "KEYLIST", "SEARCH", "ROUTE", "ANSWER", "UPDATE"}
  BY DEF PacketOK, Types, Says
<1> QED BY <1>3, <1>4, <1>5, <1>6, <1>7, <1>8, <1>9, <1>10, <1>11, <1>12, <1>13, <1>14

LEMMA HandleUDPMessageKeeps ==
    ASSUME IInv, NEW n \in Node, NEW from \in Node, HandleUDPMessage(from, n)
    PROVE  IInv'
<1>1. PICK boot \in Boots(n) :
        LET m == Head(channel[<<from, n>>])
            r == Handle(Work(n), from, m, boot)
        IN  Finish(r, [channel EXCEPT ![<<from, n>>] = Tail(@)],
                   [history EXCEPT
                      !.dropped = IF from \in DOMAIN r.s.neighbors THEN @ \ {<<n, from>>} ELSE @,
                      !.refused = IF from \notin r.s.neighCand THEN @ \ {<<n, from>>}
                                  ELSE IF m.type = "ACK" THEN @ \cup {<<n, from>>} ELSE @])
  BY DEF HandleUDPMessage
<1>a. PICK m, t : m = Head(channel[<<from, n>>]) /\ t = Handle(Work(n), from, m, boot)
  OBVIOUS
<1>b. PICK chan : chan = [channel EXCEPT ![<<from, n>>] = Tail(@)]
  OBVIOUS
<1>c. PICK dropped, refused :
      /\ dropped = IF from \in DOMAIN t.s.neighbors THEN history.dropped \ {<<n, from>>} ELSE history.dropped
      /\ refused = IF from \notin t.s.neighCand THEN history.refused \ {<<n, from>>}
                   ELSE IF m.type = "ACK" THEN history.refused \cup {<<n, from>>} ELSE history.refused
  OBVIOUS
<1>d. PICK past : past = [history EXCEPT !.dropped = dropped, !.refused = refused]
  OBVIOUS
<1>2. Finish(t, chan, past)
  BY <1>1, <1>a, <1>b, <1>c, <1>d
<1>3. channel[<<from, n>>] # << >> /\ from # n
  BY DEF HandleUDPMessage, IInv, ChannelsOK
<1>4. PacketOK(m) /\ Packets(Tail(channel[<<from, n>>]))
  <2> PICK c : c = channel[<<from, n>>]
    OBVIOUS
  <2>1. IsSeq(c) /\ c # << >> /\ \A i \in 1 .. Len(c) : PacketOK(c[i])
    BY <1>3 DEF IInv, ChannelsOK, Packets
  <2>2. /\ Len(c) \in Nat /\ Len(c) # 0 /\ IsSeq(Tail(c)) /\ Len(Tail(c)) = Len(c) - 1 /\ Head(c) = c[1]
        /\ \A i \in 1 .. Len(c) - 1 : Tail(c)[i] = c[i + 1]
    BY <2>1, Sequences
  <2>3. 1 \in 1 .. Len(c) /\ \A i \in 1 .. Len(c) - 1 : i + 1 \in 1 .. Len(c)
    BY <2>2
  <2>4. PacketOK(Head(c)) /\ Packets(Tail(c))
    BY <2>1, <2>2, <2>3 DEF Packets
  <2> QED BY <1>a, <2>4
<1>5. /\ m.type \in Says => Handled(Work(n), t, from, m.type)
      /\ m.type \notin Says => Calm(Work(n), t)
  <2>1. boot \in Node \cup {None}
    BY BootsAreNodes
  <2> QED BY <1>a, <1>3, <1>4, <2>1, Working, HandleIsOK
<1>6. WorkOK(t) /\ t.n = n /\ \A k \in Node : Packets(t.out[k])
  <2>1. WorkOK(t) /\ t.n = n
    BY <1>5, Working DEF Handled, Calm
  <2> QED BY <2>1 DEF WorkOK
<1>7. /\ past = [f \in HistoryFields |-> past[f]] /\ past.again = history.again
      /\ past.dropped = dropped /\ past.refused = refused
  BY <1>d DEF IInv, HistoryFields
<1>8. Remembered(t, past)
  <2>1. \A a \in Node \ {n}, b \in Node : <<a, b>> # <<n, from>>
    OBVIOUS
  <2>2. \A a \in Node \ {n}, b \in Node : /\ <<a, b>> \in past.dropped <=> <<a, b>> \in history.dropped
                                          /\ <<a, b>> \in past.refused <=> <<a, b>> \in history.refused
    BY <1>c, <1>7, <2>1
  <2>3. \A k \in Node : <<n, k>> = <<n, from>> => k = from
    OBVIOUS
  <2>4. \A k \in Node : <<n, k>> \in history.dropped => <<n, k>> \in past.dropped \/ k \in DOMAIN t.s.neighbors
    BY <1>c, <1>7, <2>3
  <2>5. \A k \in Node : <<n, k>> \in history.refused => <<n, k>> \in past.refused \/ k \notin t.s.neighCand
    BY <1>c, <1>7, <2>3
  <2>6. past = [f \in HistoryFields |-> past[f]] /\ history.again \subseteq past.again /\ t.n = n
    BY <1>6, <1>7
  <2> QED BY <2>2, <2>4, <2>5, <2>6 DEF Remembered
<1>9. /\ chan = [p \in Node \X Node |-> chan[p]]
      /\ chan[<<from, n>>] = Tail(channel[<<from, n>>])
      /\ \A a, b \in Node : <<a, b>> # <<from, n>> => chan[<<a, b>>] = channel[<<a, b>>]
  BY <1>b DEF IInv, ChannelsOK
<1>10. /\ \A a \in Node, b \in Node : Packets(chan[<<a, b>>])
       /\ \A a \in Node : chan[<<a, a>>] = << >>
       /\ \A a \in Node, b \in Node \ {n} : chan[<<a, b>>] = channel[<<a, b>>]
  BY <1>3, <1>4, <1>9 DEF IInv, ChannelsOK
<1>11. \A k \in Node \ {n, from} :
         \/ {n, k} \in past.again
         \/ Pair(SideOf(t.s, past, n, k), SideOf(node[k], past, k, n), chan[<<n, k>>] \o t.out[k], chan[<<k, n>>])
  <2> TAKE k \in Node \ {n, from}
  <2>1. Aside(Work(n), t, k)
    BY <1>5, Working, CalmIsAside DEF Handled
  <2>2. chan[<<n, k>>] = channel[<<n, k>>] /\ chan[<<k, n>>] = channel[<<k, n>>]
    BY <1>3, <1>9
  <2> QED BY <1>6, <1>7, <1>8, <2>1, <2>2, AsidePair
<1>12. {n, from} \in past.again
       \/ Pair(SideOf(t.s, past, n, from), SideOf(node[from], past, from, n), chan[<<n, from>>] \o t.out[from], chan[<<from, n>>])
  <2> SUFFICES ASSUME {n, from} \notin history.again
               PROVE  Pair(SideOf(t.s, past, n, from), SideOf(node[from], past, from, n),
                           chan[<<n, from>>] \o t.out[from], chan[<<from, n>>])
    BY <1>7
  <2>1. chan[<<n, from>>] = channel[<<n, from>>] /\ chan[<<from, n>>] = Tail(channel[<<from, n>>])
    BY <1>3, <1>9
  <2>2. CASE m.type \notin Says
    <3>1. Aside(Work(n), t, from) /\ Calm(Work(n), t)
      BY <1>5, <2>2, Working, CalmIsAside
    <3>2. Head(channel[<<from, n>>]).type \notin Says /\ from \in Node \ {n}
      BY <1>a, <1>3, <2>2
    <3> QED BY <1>3, <1>6, <1>8, <2>1, <3>1, <3>2, AsidePair
  <2>3. CASE m.type \in Says
    <3>c. PICK c, d, o : c = channel[<<n, from>>] /\ d = channel[<<from, n>>] /\ o = t.out[from]
      OBVIOUS
    <3>x. PICK x, y, z : /\ x = SideOf(node[n], history, n, from) /\ y = SideOf(node[from], history, from, n)
                       /\ z = SideOf(t.s, past, n, from)
      OBVIOUS
    <3>1. x \in Sides /\ y \in Sides /\ z \in Sides
      BY <3>x, SidesAreSides
    <3>2. Pair(x, y, c, d)
      BY <3>c, <3>x, <1>3 DEF IInv, Dialogue
    <3>3. PICK say \in Letters : Reply(m.type, Sided(Work(n).s, from), Sided(t.s, from), say) /\ Speech(o, say)
      BY <3>c, <1>5, <2>3 DEF Handled
    <3>4. Reply(m.type, x, z, say)
      BY <3>x, <3>3, Working, SidesReply
    <3>5. Recalls(x, z)
      BY <3>x, <1>6, <1>8, SidesRecall DEF Remembered
    <3>6. y = SideOf(node[from], past, from, n)
      <4>1. /\ <<from, n>> \in past.dropped <=> <<from, n>> \in history.dropped
            /\ <<from, n>> \in past.refused <=> <<from, n>> \in history.refused
        BY <1>3, <1>6, <1>8 DEF Remembered
      <4> QED BY <3>x, <4>1 DEF SideOf
    <3>7. m.type = "ACK" => z.refused \/ ~z.cand
      <4>1. m.type = "ACK" => <<n, from>> \in past.refused \/ from \notin t.s.neighCand
        BY <1>c, <1>7
      <4> QED BY <3>x, <4>1 DEF SideOf
    <3>8. IsSeq(c) /\ IsSeq(d) /\ IsSeq(o)
      BY <3>c, <1>6 DEF IInv, ChannelsOK, Packets
    <3>9. Pair(z, y, c \o o, Tail(d))
      <4>1. Head(d).type = m.type /\ d # << >>
        BY <1>a, <3>c, <1>3
      <4>2. Head(d).type \in Says /\ Reply(Head(d).type, x, z, say) /\ (Head(d).type = "ACK" => z.refused \/ ~z.cand)
        BY <2>3, <3>4, <3>7, <4>1
      <4>3. Speech(o, say)
        BY <3>3
      <4> QED BY <3>1, <3>2, <3>5, <3>8, <4>1, <4>2, <4>3, PairHears
    <3> QED BY <3>c, <3>x, <2>1, <3>6, <3>9
  <2> QED BY <2>2, <2>3
<1>13. After(t, chan, past)
  BY <1>6, <1>7, <1>8, <1>9, <1>10, <1>11, <1>12 DEF After, Remembered
<1>14. config' \in Config
  BY DEF HandleUDPMessage, IInv
<1> QED BY <1>2, <1>13, <1>14, Finished

(***************************************************************************)
(* The timers that ask for links and drop them                             *)
(***************************************************************************)
LEMMA AsideStep ==
    ASSUME IInv, config' \in Config, NEW n \in Node, NEW t, WorkOK(t), t.n = n, NEW past, Remembered(t, past),
           Finish(t, channel, past),
           \A k \in Node \ {n} :
               \/ Aside(Work(n), t, k)
               \/ {n, k} \in past.again
               \/ Pair(SideOf(t.s, past, n, k), SideOf(node[k], past, k, n),
                       channel[<<n, k>>] \o t.out[k], channel[<<k, n>>])
    PROVE  IInv'
<1>1. \A k \in Node : Packets(t.out[k])
  BY DEF WorkOK
<1>2. \A k \in Node \ {n} : \/ {n, k} \in past.again
                            \/ Pair(SideOf(t.s, past, n, k), SideOf(node[k], past, k, n),
                                    channel[<<n, k>>] \o t.out[k], channel[<<k, n>>])
  <2> TAKE k \in Node \ {n}
  <2>1. CASE {n, k} \in history.again
    BY <2>1 DEF Remembered
  <2>2. CASE {n, k} \notin history.again /\ Aside(Work(n), t, k)
    BY <1>1, <2>2, AsidePair
  <2> QED BY <2>1, <2>2
<1>3. After(t, channel, past)
  BY <1>2 DEF After, Remembered, IInv, ChannelsOK
<1> QED BY <1>3, Finished

LEMMA SatisfactionTimerKeeps ==
    ASSUME IInv, NEW n \in Node, SatisfactionTimer(n)
    PROVE  IInv'
<1>1. PICK boot \in IF ReadyNodes = {} THEN {None} ELSE ReadyNodes :
        LET known == Known(n, boot)
            t     == [Work(n) EXCEPT !.s.knownNodes = known, !.s.satisfactionTimer = FALSE]
        IN  \/ known = {None} /\ Finishes([t EXCEPT !.s.state = "CRASH"])
            \/ known # {None} /\ Finishes(t)
            \/ \E m \in known \ ({n, None} \cup DOMAIN node[n].neighbors \cup node[n].neighCand) :
                  /\ Uses("requests")
                  /\ Finish(Send(Candidate(t, m), m, Note(t, "REQ")), channel,
                            [history EXCEPT !.again = IF TooSoon(n, m) THEN @ \cup {{n, m}} ELSE @])
  BY DEF SatisfactionTimer
<1>a. PICK known : known = Known(n, boot)
  OBVIOUS
<1>b. PICK t : t = [Work(n) EXCEPT !.s.knownNodes = known, !.s.satisfactionTimer = FALSE]
  OBVIOUS
<1>c. PICK s : s = [node[n] EXCEPT !.knownNodes = known, !.satisfactionTimer = FALSE]
  OBVIOUS
<1>2. \/ Finishes([t EXCEPT !.s.state = "CRASH"])
      \/ Finishes(t)
      \/ \E m \in known \ ({n, None} \cup DOMAIN node[n].neighbors \cup node[n].neighCand) :
            /\ Uses("requests")
            /\ Finish(Send(Candidate(t, m), m, Note(t, "REQ")), channel,
                      [history EXCEPT !.again = IF TooSoon(n, m) THEN @ \cup {{n, m}} ELSE @])
  BY <1>1, <1>a, <1>b
<1>3. StateOK(n, node[n]) /\ config \in Config
  BY DEF IInv, NodesOK
<1>4. known \subseteq Node \cup {None}
  <2>1. boot \in Node \cup {None}
    BY BootsAreNodes
  <2> QED BY <1>3, <1>a, <2>1 DEF Known, StateOK
<1>5. StateOK(n, s) /\ Alike(node[n], s)
  BY <1>3, <1>4, <1>c DEF StateOK, NodeFields, Alike
<1>6. t = [Work(n) EXCEPT !.s = s]
  BY <1>b, <1>c, Working
<1>7. Calm(Work(n), t) /\ WorkOK(t) /\ t.n = n /\ t.s = s
  BY <1>5, <1>6, Begins, ZenonT(120)
<1>8. CASE Finishes(t)
  BY <1>7, <1>8, CalmStep DEF Finishes, IInv
<1>9. CASE Finishes([t EXCEPT !.s.state = "CRASH"])
  <2>a. PICK u : u = [s EXCEPT !.state = "CRASH"]
    OBVIOUS
  <2>1. StateOK(n, u) /\ Alike(s, u)
    BY <1>5, <2>a DEF StateOK, NodeFields, Alike
  <2>2. [t EXCEPT !.s.state = "CRASH"] = [t EXCEPT !.s = u]
    BY <1>7, <2>a
  <2>3. Calm(t, [t EXCEPT !.s = u])
    BY <1>7, <2>1, StateChanged
  <2>4. Calm(Work(n), [t EXCEPT !.s.state = "CRASH"])
    BY <1>7, <2>2, <2>3, CalmIsTransitive
  <2> QED BY <1>3, <1>9, <2>4, CalmStep DEF Finishes
<1>10. ASSUME NEW m \in known \ ({n, None} \cup DOMAIN node[n].neighbors \cup node[n].neighCand), Uses("requests"),
              Finish(Send(Candidate(t, m), m, Note(t, "REQ")), channel,
                     [history EXCEPT !.again = IF TooSoon(n, m) THEN @ \cup {{n, m}} ELSE @])
       PROVE  IInv'
  <2>a. PICK u : u = Candidate(t, m)
    OBVIOUS
  <2>b. PICK w : w = Send(u, m, Note(t, "REQ"))
    OBVIOUS
  <2>c. PICK past : past = [history EXCEPT !.again = IF TooSoon(n, m) THEN @ \cup {{n, m}} ELSE @]
    OBVIOUS
  <2>1. m \in Node \ {n} /\ m \notin DOMAIN node[n].neighbors /\ m \notin node[n].neighCand
    BY <1>4
  <2>2. /\ WorkOK(u) /\ u.n = n /\ u.out = t.out /\ u.s.neighbors = t.s.neighbors
        /\ u.s.neighCand = t.s.neighCand \cup {m}
    BY <1>7, <2>1, <2>a, OtherCandidates, CandidatesAre
  <2>3. Unsaid(t) /\ DOMAIN t.s.neighbors = DOMAIN node[n].neighbors /\ t.s.neighCand = node[n].neighCand
    BY <1>5, <1>7, Working, CalmIsUnsaid DEF Alike
  <2>4. PacketOK(Note(t, "REQ")) /\ Note(t, "REQ").type = "REQ" /\ "REQ" \in Says
    BY DEF PacketOK, Note, Types, Says
  <2>5. /\ WorkOK(w) /\ w.n = n /\ w.s = u.s /\ Speech(w.out[m], "REQ")
        /\ \A k \in Node \ {m} : w.out[k] = t.out[k]
    BY <2>1, <2>2, <2>3, <2>4, <2>b, Sent DEF Unsaid
  <2>6. /\ past = [f \in HistoryFields |-> past[f]] /\ past.dropped = history.dropped
        /\ past.refused = history.refused /\ history.again \subseteq past.again
        /\ TooSoon(n, m) => {n, m} \in past.again
    BY <2>c DEF IInv, HistoryFields
  <2>7. Remembered(w, past)
    BY <2>6 DEF Remembered
  <2>8. \A k \in Node \ {n, m} : Aside(Work(n), w, k)
    <3> TAKE k \in Node \ {n, m}
    <3>1. Aside(Work(n), t, k)
      BY <1>7, Working, CalmIsAside
    <3>2. /\ k \in DOMAIN w.s.neighbors <=> k \in DOMAIN t.s.neighbors
          /\ k \in w.s.neighCand <=> k \in t.s.neighCand
          /\ w.out[k] = t.out[k]
      BY <2>2, <2>5
    <3> QED BY <3>1, <3>2, AsideStays
  <2>9. {n, m} \in past.again
        \/ Pair(SideOf(w.s, past, n, m), SideOf(node[m], past, m, n), channel[<<n, m>>] \o w.out[m], channel[<<m, n>>])
    <3> SUFFICES ASSUME {n, m} \notin past.again
                 PROVE  Pair(SideOf(w.s, past, n, m), SideOf(node[m], past, m, n),
                             channel[<<n, m>>] \o w.out[m], channel[<<m, n>>])
      OBVIOUS
    <3>c. PICK c, d, o : c = channel[<<n, m>>] /\ d = channel[<<m, n>>] /\ o = w.out[m]
      OBVIOUS
    <3>x. PICK x, y, z : /\ x = SideOf(node[n], history, n, m) /\ y = SideOf(node[m], history, m, n)
                         /\ z = SideOf(w.s, past, n, m)
      OBVIOUS
    <3>1. x \in Sides /\ y \in Sides /\ z \in Sides
      BY <3>x, SidesAreSides
    <3>2. Pair(x, y, c, d)
      BY <2>1, <2>6, <3>c, <3>x DEF IInv, Dialogue
    <3>3. Recalls(x, z)
      BY <2>5, <2>7, <3>x, <2>1, SidesRecall DEF Remembered
    <3>4. y = SideOf(node[m], past, m, n)
      BY <2>6, <3>x DEF SideOf
    <3>5. ~x.linked /\ ~x.cand
      BY <2>1, <3>x DEF SideOf
    <3>6. ~z.linked /\ z.cand
      <4>1. m \notin DOMAIN w.s.neighbors /\ m \in w.s.neighCand
        BY <2>1, <2>2, <2>3, <2>5
      <4> QED BY <3>x, <4>1 DEF SideOf
    <3>7. IsSeq(c) /\ IsSeq(d) /\ IsSeq(o)
      BY <2>1, <2>5, <3>c DEF IInv, ChannelsOK, WorkOK, Packets
    <3>8. ~TooSoon(n, m)
      BY <2>6
    <3>9. /\ \A i \in 1 .. Len(c) : c[i].type \notin {"REQ", "RSP", "ACK", "DNY"}
          /\ \A i \in 1 .. Len(d) : d[i].type \notin {"RSP", "ACK", "DNY"}
      BY <3>8, <3>c DEF TooSoon, OnItsWay
    <3>10. Speech(o, "REQ")
      BY <2>5, <3>c
    <3>11. Pair(z, y, c \o o, d)
      BY <3>1, <3>2, <3>3, <3>5, <3>6, <3>7, <3>9, <3>10, PairAsks
    <3> QED BY <3>c, <3>x, <3>4, <3>11
  <2>10. Finish(w, channel, past)
    BY <1>10, <2>a, <2>b, <2>c
  <2>11. config' \in Config
    BY <1>3, <1>10, UsesKeeps
  <2> QED BY <2>5, <2>7, <2>8, <2>9, <2>10, <2>11, AsideStep
<1> QED BY <1>2, <1>8, <1>9, <1>10

LEMMA NothingJoined ==
    ASSUME NEW c, NEW d, IsSeq(c), IsSeq(d), c \o d = << >>
    PROVE  c = << >> /\ d = << >>
<1>1. /\ Len(c) \in Nat /\ Len(d) \in Nat /\ IsSeq(c \o d) /\ Len(c \o d) = Len(c) + Len(d)
      /\ c = << >> <=> Len(c) = 0
      /\ d = << >> <=> Len(d) = 0
  BY Sequences
<1>2. Len(c \o d) = 0
  BY <1>1, EmptySeq
<1> QED BY <1>1, <1>2

LEMMA TimedoutNeighborsKeeps ==
    ASSUME IInv, NEW n \in Node, TimedoutNeighbors(n)
    PROVE  IInv'
<1>1. PICK boot \in Boots(n) :
        LET r    == Work(n)
            gone == {m \in DOMAIN r.s.neighbors : ~r.s.neighbors[m].heard}
            left == [m \in DOMAIN r.s.neighbors \ gone |-> [r.s.neighbors[m] EXCEPT !.heard = FALSE]]
            t    == [r EXCEPT !.s.neighbors = left]
        IN  /\ \A m \in gone : Silent(n, m)
            /\ Finish(IF left = << >> THEN [t EXCEPT !.s = ToInit(t.s, boot)] ELSE t, channel,
                      [history EXCEPT !.dropped = @ \cup {<<n, m>> : m \in gone}])
  BY DEF TimedoutNeighbors
<1>r. PICK r : r = Work(n)
  OBVIOUS
<1>g. PICK gone : gone = {m \in DOMAIN r.s.neighbors : ~r.s.neighbors[m].heard}
  OBVIOUS
<1>l. PICK left : left = [m \in DOMAIN r.s.neighbors \ gone |-> [r.s.neighbors[m] EXCEPT !.heard = FALSE]]
  OBVIOUS
<1>t. PICK t : t = [r EXCEPT !.s.neighbors = left]
  OBVIOUS
<1>u. PICK u : u = IF left = << >> THEN [t EXCEPT !.s = ToInit(t.s, boot)] ELSE t
  OBVIOUS
<1>p. PICK past : past = [history EXCEPT !.dropped = @ \cup {<<n, m>> : m \in gone}]
  OBVIOUS
<1>2. (\A m \in gone : Silent(n, m)) /\ Finish(u, channel, past)
  BY <1>1, <1>r, <1>g, <1>l, <1>t, <1>u, <1>p
<1>3. WorkOK(r) /\ Unsaid(r) /\ r.n = n /\ r.s = node[n] /\ StateOK(n, r.s)
  BY <1>r, Working DEF WorkOK
<1>4. /\ gone \subseteq DOMAIN r.s.neighbors /\ DOMAIN left = DOMAIN r.s.neighbors \ gone
      /\ left = [m \in DOMAIN left |-> left[m]]
      /\ \A m \in DOMAIN left : left[m] = [r.s.neighbors[m] EXCEPT !.heard = FALSE]
  BY <1>g, <1>l
<1>5. NeighborsOK(n, left)
  <2>1. NeighborsOK(n, r.s.neighbors)
    BY <1>3 DEF StateOK
  <2>2. \A m \in DOMAIN left : IsInfo(left[m])
    <3> TAKE m \in DOMAIN left
    <3>1. PICK e : e = r.s.neighbors[m]
      OBVIOUS
    <3>2. IsInfo(e) /\ left[m] = [e EXCEPT !.heard = FALSE]
      BY <1>4, <2>1, <3>1 DEF NeighborsOK
    <3> QED BY <3>2 DEF IsInfo, InfoFields
  <2>3. Cardinality(DOMAIN left) <= maxNeighbors
    <3>1. IsFiniteSet(DOMAIN r.s.neighbors)
      BY <2>1, Constants, FS_Subset DEF NeighborsOK
    <3>2. Cardinality(DOMAIN left) <= Cardinality(DOMAIN r.s.neighbors)
      BY <1>4, <3>1, FS_Subset
    <3>3. Cardinality(DOMAIN left) \in Nat /\ Cardinality(DOMAIN r.s.neighbors) \in Nat
      BY <1>4, <3>1, FS_Subset, FS_CardinalityType
    <3> QED BY <2>1, <3>2, <3>3, Constants DEF NeighborsOK
  <2> QED BY <1>4, <2>1, <2>2, <2>3 DEF NeighborsOK
<1>6. /\ t = [f \in WorkFields |-> t[f]] /\ t.n = n /\ t.out = r.out /\ t.s = [r.s EXCEPT !.neighbors = left]
  BY <1>3, <1>t DEF WorkOK, WorkFields
<1>7. StateOK(n, t.s) /\ t.s.neighbors = left /\ t.s.neighCand = r.s.neighCand
  BY <1>3, <1>5, <1>6, OtherNeighbors
<1>8. /\ u = [f \in WorkFields |-> u[f]] /\ u.n = n /\ u.out = r.out
      /\ u.s = IF left = << >> THEN ToInit(t.s, boot) ELSE t.s
  BY <1>6, <1>u DEF WorkFields
<1>9. StateOK(n, u.s) /\ u.s.neighbors = left /\ u.s.neighCand = r.s.neighCand
  <2>1. boot \in Node \cup {None}
    BY BootsAreNodes
  <2>2. StateOK(n, ToInit(t.s, boot)) /\ Alike(t.s, ToInit(t.s, boot)) /\ ToInit(t.s, boot).neighbors = t.s.neighbors
    BY <1>7, <2>1, ToInitIsOK
  <2> QED BY <1>7, <1>8, <2>2 DEF Alike
<1>10. WorkOK(u)
  BY <1>3, <1>8, <1>9, Changed
<1>11. /\ past = [f \in HistoryFields |-> past[f]] /\ past.dropped = history.dropped \cup {<<n, m>> : m \in gone}
       /\ past.refused = history.refused /\ past.again = history.again
  BY <1>p DEF IInv, HistoryFields
<1>12. Remembered(u, past)
  BY <1>8, <1>11 DEF Remembered
<1>13. \A k \in Node \ ({n} \cup gone) : Aside(Work(n), u, k)
  <2> TAKE k \in Node \ ({n} \cup gone)
  <2>1. k \in DOMAIN u.s.neighbors <=> k \in DOMAIN r.s.neighbors
    BY <1>4, <1>9
  <2>2. (k \in u.s.neighCand <=> k \in r.s.neighCand) /\ u.out = r.out
    BY <1>8, <1>9
  <2> QED BY <1>3, <1>r, <2>1, <2>2, Stays
<1>14. ASSUME NEW k \in gone, {n, k} \notin past.again
       PROVE  Pair(SideOf(u.s, past, n, k), SideOf(node[k], past, k, n), channel[<<n, k>>] \o u.out[k], channel[<<k, n>>])
  <2>0. k \in Node \ {n}
    BY <1>3, <1>4 DEF StateOK, NeighborsOK
  <2>c. PICK c, d, o : c = channel[<<n, k>>] /\ d = channel[<<k, n>>] /\ o = u.out[k]
    OBVIOUS
  <2>x. PICK x, y, z : /\ x = SideOf(node[n], history, n, k) /\ y = SideOf(node[k], history, k, n)
                       /\ z = SideOf(u.s, past, n, k)
    OBVIOUS
  <2>1. x \in Sides /\ y \in Sides /\ z \in Sides
    BY <2>x, SidesAreSides
  <2>2. Pair(x, y, c, d)
    BY <1>11, <1>14, <2>0, <2>c, <2>x DEF IInv, Dialogue
  <2>3. Recalls(x, z)
    BY <1>8, <1>12, <2>0, <2>x, SidesRecall DEF Remembered
  <2>4. y = SideOf(node[k], past, k, n)
    <3>1. <<k, n>> \in past.dropped <=> <<k, n>> \in history.dropped
      BY <1>8, <1>12, <2>0 DEF Remembered
    <3> QED BY <1>11, <2>x, <3>1 DEF SideOf
  <2>5. k \in DOMAIN node[n].neighbors /\ k \notin DOMAIN u.s.neighbors /\ <<n, k>> \in past.dropped
    BY <1>3, <1>4, <1>9, <1>11
  <2>6. x.linked /\ ~z.linked /\ z.gone
    BY <2>5, <2>x DEF SideOf
  <2>7. z.cand = x.cand
    <3>1. u.s.neighCand = node[n].neighCand
      BY <1>3, <1>9
    <3> QED BY <2>x, <3>1 DEF SideOf
  <2>8. IsSeq(c) /\ IsSeq(d) /\ IsSeq(o) /\ Speech(o, "none")
    <3>1. IsSeq(c) /\ IsSeq(d)
      BY <2>0, <2>c DEF IInv, ChannelsOK, Packets
    <3>2. IsSeq(o)
      BY <1>10, <2>0, <2>c DEF WorkOK, Packets
    <3>3. Speech(o, "none")
      BY <1>3, <1>8, <2>0, <2>c DEF Unsaid
    <3> QED BY <3>1, <3>2, <3>3
  <2>9. c = << >> /\ d = << >>
    BY <1>2, <2>8, <2>c, NothingJoined DEF Silent, Between
  <2>10. Pair(z, y, c \o o, d)
    BY <2>1, <2>2, <2>3, <2>6, <2>7, <2>8, <2>9, PairLoses
  <2> QED BY <2>c, <2>x, <2>4, <2>10
<1>15. config' \in Config
  BY UsesKeeps DEF TimedoutNeighbors, IInv
<1> QED BY <1>2, <1>8, <1>10, <1>12, <1>13, <1>14, <1>15, AsideStep

(***************************************************************************)
(* The theorems                                                            *)
(***************************************************************************)
LEMMA StepKeeps ==
    ASSUME IInv, [Next]_vars
    PROVE  IInv'
<1>1. CASE Next
  <2>1. CASE \E n, m \in Node : HandleUDPMessage(n, m)
    BY <2>1, HandleUDPMessageKeeps
  <2>2. ASSUME NEW n \in Node,
               \/ JoinOverlay(n) \/ SatisfactionTimer(n) \/ UpdateTimer(n)
               \/ SendKeyListTimer(n) \/ SendTokenTimer(n) \/ TimedoutNeighbors(n)
               \/ TimedoutMessages(n) \/ WaitForToken(n) \/ HandlePut(n)
        PROVE  IInv'
    BY <2>2, JoinOverlayKeeps, SatisfactionTimerKeeps, UpdateTimerKeeps, SendKeyListTimerKeeps, SendTokenTimerKeeps,
       TimedoutNeighborsKeeps, TimedoutMessagesKeeps, WaitForTokenKeeps, HandlePutKeeps
  <2>3. CASE \E id \in Ids : HandleRequest(id)
    BY <2>3, HandleRequestKeeps
  <2> QED BY <1>1, <2>1, <2>2, <2>3 DEF Next
<1>2. CASE UNCHANGED vars
  <2>1. config' = config /\ node' = node /\ channel' = channel /\ history' = history
    BY <1>2 DEF vars
  <2> QED BY <2>1 DEF IInv, NodesOK, ChannelsOK, Dialogue
<1> QED BY <1>1, <1>2

LEMMA QuietAgrees ==
    ASSUME NEW x \in Sides, NEW y \in Sides, Agree(x, y, Silence, Silence)
    PROVE  (x.linked => y.linked \/ y.gone) /\ (x.cand => x.refused)
BY DEF Agree, Row, Sides, Gone, Request1, Silence, One, Two, Three

LEMMA IInvAgrees ==
    ASSUME IInv
    PROVE  LinksAgree
<1>1. TypeOK
  <2> SUFFICES ASSUME NEW n \in Node
               PROVE  /\ node[n].state \in {"NONE", "INIT", "READY", "CRASH"}
                      /\ DOMAIN node[n].neighbors \cup node[n].neighCand \subseteq Node \ {n}
                      /\ \A m \in DOMAIN node[n].neighbors :
                            {node[n].neighbors[m].received, node[n].neighbors[m].sent} \subseteq Nat
                      /\ node[n].degree \in 0 .. maxNeighbors /\ Size(node[n]) <= maxNeighbors
    BY DEF TypeOK
  <2>1. StateOK(n, node[n])
    BY DEF IInv, NodesOK
  <2>2. \A m \in DOMAIN node[n].neighbors : IsInfo(node[n].neighbors[m])
    BY <2>1 DEF StateOK, NeighborsOK
  <2>3. \A m \in DOMAIN node[n].neighbors :
           {node[n].neighbors[m].received, node[n].neighbors[m].sent} \subseteq Nat
    BY <2>2 DEF IsInfo
  <2> QED BY <2>1, <2>3 DEF StateOK, NeighborsOK, Size
<1>2. ASSUME NEW n \in Node, NEW m \in Node \ {n}, Silent(n, m), {n, m} \notin history.again
      PROVE  /\ m \in DOMAIN node[n].neighbors => n \in DOMAIN node[m].neighbors \/ <<m, n>> \in history.dropped
             /\ m \in node[n].neighCand => <<n, m>> \in history.refused
  <2>c. PICK c, d : c = channel[<<n, m>>] /\ d = channel[<<m, n>>]
    OBVIOUS
  <2>x. PICK x, y : x = SideOf(node[n], history, n, m) /\ y = SideOf(node[m], history, m, n)
    OBVIOUS
  <2>1. IsSeq(c) /\ IsSeq(d)
    BY <2>c DEF IInv, ChannelsOK, Packets
  <2>2. c = << >> /\ d = << >>
    BY <1>2, <2>1, <2>c, NothingJoined DEF Silent, Between
  <2>3. Pair(x, y, c, d)
    BY <1>2, <2>c, <2>x DEF IInv, Dialogue
  <2>4. PICK v, w : Carries(c, v) /\ Carries(d, w) /\ Agree(x, y, v, w)
    BY <2>3 DEF Pair
  <2>5. v = Silence /\ w = Silence
    BY <2>2, <2>4, AgreeIsProper, NothingIsSaid
  <2>6. x \in Sides /\ y \in Sides
    BY <2>x, SidesAreSides
  <2>7. (x.linked => y.linked \/ y.gone) /\ (x.cand => x.refused)
    BY <2>4, <2>5, <2>6, QuietAgrees
  <2>8. ASSUME m \in DOMAIN node[n].neighbors
        PROVE  n \in DOMAIN node[m].neighbors \/ <<m, n>> \in history.dropped
    <3>1. x.linked
      BY <2>8, <2>x DEF SideOf
    <3>2. y.linked => n \in DOMAIN node[m].neighbors
      BY <2>x DEF SideOf
    <3>3. y.gone => <<m, n>> \in history.dropped
      BY <2>x DEF SideOf
    <3> QED BY <2>7, <3>1, <3>2, <3>3
  <2>9. ASSUME m \in node[n].neighCand
        PROVE  <<n, m>> \in history.refused
    <3>1. x.cand
      BY <2>9, <2>x DEF SideOf
    <3>2. x.refused => <<n, m>> \in history.refused
      BY <2>x DEF SideOf
    <3> QED BY <2>7, <3>1, <3>2
  <2> QED BY <2>8, <2>9
<1> QED BY <1>1, <1>2 DEF LinksAgree

\* Nodes and channels stay well-formed, and what any two nodes think of each other fits what
\* is on its way between them: one of the rows of Row, whatever packets of searches, answers,
\* tokens and updates go between those of the handshake. (handleUDPMessage(), acceptNode(),
\* addNeighbor(), removeNeighbor(), the timers)
THEOREM Invariance == Spec => []IInv
<1>1. Init => IInv
  BY InitIsIInv
<1>2. IInv /\ [Next]_vars => IInv'
  BY StepKeeps
<1> QED BY <1>1, <1>2, PTL DEF Spec

\* When nothing is on its way between two nodes, each is a neighbor of the other or none is,
\* but for one that has not heard of the other for long, and neither is a candidate, but for
\* one whose answer came when the other was full: for any number of nodes, of neighbors and
\* of searches. (handleUDPMessage(), acceptNode(), the assertion in addNeighbor())
THEOREM Agreement == Spec => []LinksAgree
<1>1. IInv => LinksAgree
  BY IInvAgrees
<1> QED BY <1>1, Invariance, PTL

(***************************************************************************)
(* Sums                                                                    *)
(***************************************************************************)

LEMMA SizeOfOne ==
    ASSUME NEW x, NEW k \in Nat
    PROVE  IsFiniteSet({x} \X (0 .. k - 1)) /\ Cardinality({x} \X (0 .. k - 1)) = k
<1>1. IsFiniteSet(0 .. k - 1) /\ Cardinality(0 .. k - 1) = k
  BY FS_Interval
<1>2. IsFiniteSet({x}) /\ Cardinality({x}) = 1
  BY FS_Singleton
<1>3. IsFiniteSet({x} \X (0 .. k - 1)) /\ Cardinality({x} \X (0 .. k - 1)) = 1 * k
  BY <1>1, <1>2, FS_Product
<1> QED BY <1>3

LEMMA UnitsOfOne ==
    ASSUME NEW F, NEW S, \A y \in S : F[y] \in Nat, NEW x \in S
    PROVE  /\ Units(F, S) = Units(F, S \ {x}) \cup ({x} \X (0 .. F[x] - 1))
           /\ Units(F, S \ {x}) \cap ({x} \X (0 .. F[x] - 1)) = {}
<1>1. F[x] \in Nat
  OBVIOUS
<1>2. ASSUME NEW p \in S \X Nat
      PROVE  p[2] < F[p[1]] <=> (p \in (S \ {x}) \X Nat /\ p[2] < F[p[1]]) \/ p \in {x} \X (0 .. F[x] - 1)
  <2>1. p = <<p[1], p[2]>> /\ p[1] \in S /\ p[2] \in Nat
    OBVIOUS
  <2>2. CASE p[1] = x
    BY <1>1, <2>1, <2>2
  <2>3. CASE p[1] # x
    BY <2>1, <2>3
  <2> QED BY <2>2, <2>3
<1>3. {x} \X (0 .. F[x] - 1) \subseteq S \X Nat /\ (S \ {x}) \X Nat \subseteq S \X Nat
  BY <1>1
<1> QED BY <1>2, <1>3 DEF Units

LEMMA RemoveOne ==
    ASSUME NEW S, IsFiniteSet(S), NEW x \in S
    PROVE  /\ IsFiniteSet(S \ {x}) /\ Cardinality(S) \in Nat /\ Cardinality(S \ {x}) \in Nat
           /\ Cardinality(S) = Cardinality(S \ {x}) + 1
<1>1. IsFiniteSet(S \ {x}) /\ Cardinality(S \ {x}) = Cardinality(S) - 1
  BY FS_RemoveElement
<1>2. Cardinality(S) \in Nat /\ Cardinality(S \ {x}) \in Nat
  BY <1>1, FS_CardinalityType
<1> QED BY <1>1, <1>2

\* A finite set for which something fails has a smallest subset for which it fails: Bad are
\* those subsets.
LEMMA SmallestBad ==
    ASSUME NEW S, IsFiniteSet(S), NEW Bad \in SUBSET SUBSET S, Bad # {}
    PROVE  \E s \in Bad : IsFiniteSet(s) /\ \A x \in s : s \ {x} \notin Bad
<1> DEFINE Sizes == {k \in Nat : \E s \in Bad : Cardinality(s) = k}
<1>1. \A s \in Bad : IsFiniteSet(s) /\ Cardinality(s) \in Nat
  BY FS_Subset, FS_CardinalityType
<1>2. Sizes \in SUBSET Nat /\ Sizes # {}
  BY <1>1
<1>3. PICK k \in Sizes : \A j \in Sizes : k <= j
  BY <1>2, Least
<1>4. PICK s \in Bad : Cardinality(s) = k
  BY <1>3
<1>5. ASSUME NEW x \in s, s \ {x} \in Bad
      PROVE  FALSE
  <2>1. Cardinality(s) = Cardinality(s \ {x}) + 1 /\ Cardinality(s \ {x}) \in Nat
    BY <1>1, <1>4, RemoveOne
  <2>2. Cardinality(s \ {x}) \in Sizes
    BY <1>5, <2>1
  <2>3. k <= Cardinality(s \ {x}) /\ k = Cardinality(s \ {x}) + 1
    BY <1>3, <1>4, <2>1, <2>2
  <2> QED BY <2>1, <2>3
<1> QED BY <1>1, <1>4, <1>5

LEMMA UnitsAreFinite ==
    ASSUME NEW F, NEW S, IsFiniteSet(S), \A y \in S : F[y] \in Nat
    PROVE  IsFiniteSet(Units(F, S)) /\ Cardinality(Units(F, S)) \in Nat
<1> DEFINE Bad == {s \in SUBSET S : ~IsFiniteSet(Units(F, s))}
<1>1. Bad = {}
  <2> SUFFICES ASSUME Bad # {} PROVE FALSE
    OBVIOUS
  <2>1. PICK s \in Bad : \A x \in s : s \ {x} \notin Bad
    BY SmallestBad
  <2>2. CASE s = {}
    <3>1. Units(F, s) = {}
      BY <2>2 DEF Units
    <3> QED BY <2>1, <3>1, FS_EmptySet
  <2>3. CASE s # {}
    <3>1. PICK x \in s : TRUE
      BY <2>3
    <3>2. IsFiniteSet(Units(F, s \ {x}))
      BY <2>1, <3>1
    <3>3. x \in S /\ F[x] \in Nat
      BY <2>1
    <3>4. IsFiniteSet({x} \X (0 .. F[x] - 1))
      BY <3>3, SizeOfOne
    <3>5. Units(F, s) = Units(F, s \ {x}) \cup ({x} \X (0 .. F[x] - 1))
      BY <2>1, UnitsOfOne
    <3>6. IsFiniteSet(Units(F, s \ {x}) \cup ({x} \X (0 .. F[x] - 1)))
      BY <3>2, <3>4, FS_Union
    <3> QED BY <2>1, <3>5, <3>6
  <2> QED BY <2>2, <2>3
<1>2. IsFiniteSet(Units(F, S))
  BY <1>1
<1> QED BY <1>2, FS_CardinalityType

\* The sum over a set is that over the set without x, and the value of x.
LEMMA UnitsAddUp ==
    ASSUME NEW F, NEW S, IsFiniteSet(S), \A y \in S : F[y] \in Nat, NEW x \in S
    PROVE  /\ SumOver(F, S) = F[x] + SumOver(F, S \ {x})
           /\ SumOver(F, S) \in Nat /\ SumOver(F, S \ {x}) \in Nat /\ F[x] \in Nat
<1>p. PICK A, B : A = Units(F, S \ {x}) /\ B = {x} \X (0 .. F[x] - 1)
  OBVIOUS
<1>1. IsFiniteSet(S \ {x}) /\ \A y \in S \ {x} : F[y] \in Nat
  BY FS_Subset
<1>2. IsFiniteSet(A) /\ Cardinality(A) \in Nat
  BY <1>p, <1>1, UnitsAreFinite
<1>3. F[x] \in Nat /\ IsFiniteSet(B) /\ Cardinality(B) = F[x]
  BY <1>p, SizeOfOne
<1>4. Units(F, S) = A \cup B /\ A \cap B = {}
  BY <1>p, UnitsOfOne
<1>5. Cardinality(A \cap B) = 0
  BY <1>4, FS_EmptySet
<1>6. Cardinality(A \cup B) = Cardinality(A) + Cardinality(B) - Cardinality(A \cap B)
  BY <1>2, <1>3, FS_Union
<1>7. Cardinality(A \cup B) = F[x] + Cardinality(A) /\ F[x] + Cardinality(A) \in Nat
  BY <1>2, <1>3, <1>5, <1>6
<1> QED BY <1>p, <1>2, <1>3, <1>4, <1>7 DEF SumOver

LEMMA SumOverNothing ==
    ASSUME NEW F
    PROVE  SumOver(F, {}) = 0
<1>1. Units(F, {}) = {}
  BY DEF Units
<1> QED BY <1>1, FS_EmptySet DEF SumOver

LEMMA SumOverIsNat ==
    ASSUME NEW F, NEW S, IsFiniteSet(S), \A y \in S : F[y] \in Nat
    PROVE  SumOver(F, S) \in Nat
BY UnitsAreFinite DEF SumOver

LEMMA SumOverSame ==
    ASSUME NEW F, NEW G, NEW S, \A y \in S : F[y] = G[y]
    PROVE  SumOver(F, S) = SumOver(G, S)
BY DEF SumOver, Units

LEMMA SumsExist ==
    ASSUME NEW F, NEW S, IsFiniteSet(S), \A y \in S : F[y] \in Nat
    PROVE  \E it : IsSum(it, F, S)
<1> DEFINE it == [s \in SUBSET S |-> SumOver(F, s)]
<1>1. ASSUME NEW s \in SUBSET S
      PROVE  it[s] = IF s = {} THEN 0 ELSE LET x == CHOOSE x \in s : TRUE IN F[x] + it[s \ {x}]
  <2>1. CASE s = {}
    <3> QED BY <2>1, SumOverNothing
  <2>2. CASE s # {}
    <3> DEFINE x == CHOOSE x \in s : TRUE
    <3>1. x \in s
      BY <2>2
    <3> HIDE DEF x
    <3>2. IsFiniteSet(s) /\ s \ {x} \in SUBSET S
      BY FS_Subset
    <3>3. SumOver(F, s) = F[x] + SumOver(F, s \ {x})
      BY <3>1, <3>2, UnitsAddUp
    <3>4. it[s] = F[x] + it[s \ {x}]
      BY <3>2, <3>3
    <3> QED BY <2>2, <3>4 DEF x
  <2> QED BY <2>1, <2>2
<1>2. IsSum(it, F, S)
  BY <1>1 DEF IsSum
<1> QED BY <1>2

LEMMA SumIsTotal ==
    ASSUME NEW F, NEW S, IsFiniteSet(S), \A y \in S : F[y] \in Nat, NEW it, IsSum(it, F, S)
    PROVE  it[S] = SumOver(F, S)
<1> DEFINE Bad == {s \in SUBSET S : it[s] # SumOver(F, s)}
<1>1. Bad = {}
  <2> SUFFICES ASSUME Bad # {} PROVE FALSE
    OBVIOUS
  <2>1. PICK s \in Bad : IsFiniteSet(s) /\ \A x \in s : s \ {x} \notin Bad
    BY SmallestBad
  <2>2. it[s] = IF s = {} THEN 0 ELSE LET x == CHOOSE x \in s : TRUE IN F[x] + it[s \ {x}]
    BY DEF IsSum
  <2>3. CASE s = {}
    <3> QED BY <2>1, <2>2, <2>3, SumOverNothing
  <2>4. CASE s # {}
    <3> DEFINE x == CHOOSE x \in s : TRUE
    <3>1. x \in s /\ it[s] = F[x] + it[s \ {x}]
      BY <2>2, <2>4
    <3> HIDE DEF x
    <3>2. it[s \ {x}] = SumOver(F, s \ {x})
      BY <2>1, <3>1
    <3>3. SumOver(F, s) = F[x] + SumOver(F, s \ {x})
      BY <2>1, <3>1, UnitsAddUp
    <3> QED BY <2>1, <3>1, <3>2, <3>3
  <2> QED BY <2>3, <2>4
<1> QED BY <1>1

LEMMA TotalIsNat ==
    ASSUME NEW F, Addable(F)
    PROVE  Total(F) \in Nat /\ (DOMAIN F = {} => Total(F) = 0)
<1>1. IsFiniteSet(DOMAIN F) /\ \A y \in DOMAIN F : F[y] \in Nat
  BY DEF Addable
<1> QED BY <1>1, SumOverIsNat, SumOverNothing DEF Total

\* Two functions that differ at one place only.
LEMMA TotalChanges ==
    ASSUME NEW F, NEW G, Addable(F), Addable(G), DOMAIN G = DOMAIN F, NEW x \in DOMAIN F,
           \A y \in DOMAIN F \ {x} : G[y] = F[y]
    PROVE  /\ Total(F) \in Nat /\ Total(G) \in Nat /\ F[x] \in Nat /\ G[x] \in Nat
           /\ Total(G) + F[x] = Total(F) + G[x]
<1>p. PICK S : S = DOMAIN F
  OBVIOUS
<1>1. IsFiniteSet(S) /\ \A y \in S : F[y] \in Nat /\ G[y] \in Nat
  BY <1>p DEF Addable
<1>2. SumOver(G, S \ {x}) = SumOver(F, S \ {x})
  BY <1>p, SumOverSame
<1>p2. PICK c : c = SumOver(F, S \ {x})
  OBVIOUS
<1>3. SumOver(F, S) = F[x] + c /\ c \in Nat
  BY <1>1, <1>p, <1>p2, UnitsAddUp
<1>4. SumOver(G, S) = G[x] + c
  BY <1>1, <1>3, <1>2, <1>p, <1>p2, UnitsAddUp
<1>5. Total(F) = F[x] + c /\ Total(G) = G[x] + c
  BY <1>3, <1>4, <1>p DEF Total
<1> QED BY <1>1, <1>3, <1>5, <1>p

LEMMA OneSummand ==
    ASSUME NEW a \in Nat, NEW b \in Nat, NEW x \in Nat, NEW y \in Nat, NEW c \in Nat, a + x = b + y, y = x + c
    PROVE  a = b + c
OBVIOUS

LEMMA TotalGrows ==
    ASSUME NEW F, NEW G, Addable(F), Addable(G), DOMAIN G = DOMAIN F, NEW x \in DOMAIN F,
           \A y \in DOMAIN F \ {x} : G[y] = F[y], NEW c \in Nat, G[x] = F[x] + c
    PROVE  Total(G) = Total(F) + c
<1>1. Total(F) \in Nat /\ Total(G) \in Nat /\ F[x] \in Nat /\ G[x] \in Nat /\ Total(G) + F[x] = Total(F) + G[x]
  BY TotalChanges
<1> QED BY <1>1, OneSummand

\* A value is no more than the sum; two values at different places are not either.
LEMMA TotalIsMore ==
    ASSUME NEW F, Addable(F), NEW x \in DOMAIN F
    PROVE  /\ Total(F) \in Nat /\ F[x] \in Nat /\ F[x] <= Total(F)
           /\ \A y \in DOMAIN F \ {x} : F[y] \in Nat /\ F[x] + F[y] <= Total(F)
<1>p. PICK S : S = DOMAIN F
  OBVIOUS
<1>1. IsFiniteSet(S) /\ \A y \in S : F[y] \in Nat
  BY <1>p DEF Addable
<1>2. /\ SumOver(F, S) = F[x] + SumOver(F, S \ {x})
      /\ SumOver(F, S \ {x}) \in Nat
  BY <1>1, <1>p, UnitsAddUp
<1>3. ASSUME NEW y \in S \ {x}
      PROVE  F[x] + F[y] <= SumOver(F, S)
  <2>1. IsFiniteSet(S \ {x}) /\ \A z \in S \ {x} : F[z] \in Nat
    BY <1>1, FS_Subset
  <2>2. /\ SumOver(F, S \ {x}) = F[y] + SumOver(F, (S \ {x}) \ {y})
        /\ SumOver(F, (S \ {x}) \ {y}) \in Nat
    BY <2>1, UnitsAddUp, SMTT(30)
  <2>3. F[x] \in Nat /\ F[y] \in Nat
    BY <1>1, <1>p
  <2> QED BY <1>2, <2>2, <2>3
<1>4. Total(F) = SumOver(F, S)
  BY <1>p DEF Total
<1> QED BY <1>1, <1>2, <1>3, <1>4, <1>p

LEMMA TotalOfSums ==
    ASSUME NEW F, NEW G, NEW H, Addable(F), Addable(G), Addable(H), DOMAIN G = DOMAIN F, DOMAIN H = DOMAIN F,
           \A y \in DOMAIN F : H[y] = F[y] + G[y]
    PROVE  Total(H) = Total(F) + Total(G)
<1>p. PICK S : S = DOMAIN F
  OBVIOUS
<1>1. IsFiniteSet(S) /\ \A y \in S : F[y] \in Nat /\ G[y] \in Nat /\ H[y] \in Nat /\ H[y] = F[y] + G[y]
  BY <1>p DEF Addable
<1> DEFINE Bad == {s \in SUBSET S : SumOver(H, s) # SumOver(F, s) + SumOver(G, s)}
<1>2. Bad = {}
  <2> SUFFICES ASSUME Bad # {} PROVE FALSE
    OBVIOUS
  <2>1. PICK s \in Bad : IsFiniteSet(s) /\ \A x \in s : s \ {x} \notin Bad
    BY <1>1, SmallestBad
  <2>2. CASE s = {}
    <3>1. SumOver(F, s) = 0 /\ SumOver(G, s) = 0 /\ SumOver(H, s) = 0
      BY <2>2, SumOverNothing
    <3> QED BY <2>1, <2>2, <3>1
  <2>3. CASE s # {}
    <3>1. PICK x \in s : TRUE
      BY <2>3
    <3>p. PICK f, g, h : /\ f = SumOver(F, s \ {x}) /\ g = SumOver(G, s \ {x})
                         /\ h = SumOver(H, s \ {x})
      OBVIOUS
    <3>2. h = f + g
      BY <2>1, <3>1, <3>p
    <3>3. \A y \in s : F[y] \in Nat /\ G[y] \in Nat /\ H[y] \in Nat /\ H[y] = F[y] + G[y]
      BY <1>1
    <3>4. SumOver(F, s) = F[x] + f /\ f \in Nat
      <4>1. \A y \in s : F[y] \in Nat
        BY <3>3
      <4>2. SumOver(F, s) = F[x] + SumOver(F, s \ {x}) /\ SumOver(F, s \ {x}) \in Nat
        BY <2>1, <3>1, <4>1, UnitsAddUp
      <4> QED BY <4>2, <3>p
    <3>5. SumOver(G, s) = G[x] + g /\ g \in Nat
      <4>1. \A y \in s : G[y] \in Nat
        BY <3>3
      <4>2. SumOver(G, s) = G[x] + SumOver(G, s \ {x}) /\ SumOver(G, s \ {x}) \in Nat
        BY <2>1, <3>1, <4>1, UnitsAddUp
      <4> QED BY <4>2, <3>p
    <3>6. SumOver(H, s) = H[x] + h /\ h \in Nat
      <4>1. \A y \in s : H[y] \in Nat
        BY <3>3
      <4>2. SumOver(H, s) = H[x] + SumOver(H, s \ {x}) /\ SumOver(H, s \ {x}) \in Nat
        BY <2>1, <3>1, <4>1, UnitsAddUp
      <4> QED BY <4>2, <3>p
    <3>7. SumOver(H, s) = SumOver(F, s) + SumOver(G, s)
      BY <3>2, <3>3, <3>4, <3>5, <3>6
    <3> QED BY <2>1, <3>7
  <2> QED BY <2>2, <2>3
<1>3. S \notin Bad
  BY <1>2
<1> QED BY <1>3, <1>p DEF Total

LEMMA TotalOfMultiples ==
    ASSUME NEW F, NEW G, Addable(F), Addable(G), DOMAIN G = DOMAIN F, NEW k \in Nat,
           \A y \in DOMAIN F : G[y] = k * F[y]
    PROVE  Total(G) = k * Total(F)
<1>p. PICK S : S = DOMAIN F
  OBVIOUS
<1>1. IsFiniteSet(S) /\ \A y \in S : F[y] \in Nat /\ G[y] \in Nat /\ G[y] = k * F[y]
  BY <1>p DEF Addable
<1> DEFINE Bad == {s \in SUBSET S : SumOver(G, s) # k * SumOver(F, s)}
<1>2. Bad = {}
  <2> SUFFICES ASSUME Bad # {} PROVE FALSE
    OBVIOUS
  <2>1. PICK s \in Bad : IsFiniteSet(s) /\ \A x \in s : s \ {x} \notin Bad
    BY <1>1, SmallestBad
  <2>2. CASE s = {}
    <3>1. SumOver(F, s) = 0 /\ SumOver(G, s) = 0
      BY <2>2, SumOverNothing
    <3> QED BY <2>1, <2>2, <3>1
  <2>3. CASE s # {}
    <3>1. PICK x \in s : TRUE
      BY <2>3
    <3>p. PICK f, g : f = SumOver(F, s \ {x}) /\ g = SumOver(G, s \ {x})
      OBVIOUS
    <3>2. g = k * f
      BY <2>1, <3>1, <3>p
    <3>3. \A y \in s : F[y] \in Nat /\ G[y] \in Nat /\ G[y] = k * F[y]
      BY <1>1
    <3>4. SumOver(F, s) = F[x] + f /\ f \in Nat
      <4>1. \A y \in s : F[y] \in Nat
        BY <3>3
      <4>2. SumOver(F, s) = F[x] + SumOver(F, s \ {x}) /\ SumOver(F, s \ {x}) \in Nat
        BY <2>1, <3>1, <4>1, UnitsAddUp
      <4> QED BY <4>2, <3>p
    <3>5. SumOver(G, s) = G[x] + g /\ g \in Nat
      <4>1. \A y \in s : G[y] \in Nat
        BY <3>3
      <4>2. SumOver(G, s) = G[x] + SumOver(G, s \ {x}) /\ SumOver(G, s \ {x}) \in Nat
        BY <2>1, <3>1, <4>1, UnitsAddUp
      <4> QED BY <4>2, <3>p
    <3>6. \A a, b \in Nat : k * a + k * b = k * (a + b)
      OBVIOUS
    <3>7. SumOver(G, s) = k * SumOver(F, s)
      BY <3>2, <3>3, <3>4, <3>5, <3>6
    <3> QED BY <2>1, <3>7
  <2> QED BY <2>2, <2>3
<1>3. S \notin Bad
  BY <1>2
<1> QED BY <1>3, <1>p DEF Total

LEMMA TotalOfConstants ==
    ASSUME NEW S, IsFiniteSet(S), NEW k \in Nat
    PROVE  Total([y \in S |-> k]) = k * Cardinality(S) /\ Addable([y \in S |-> k])
<1>p. PICK G : G = [y \in S |-> k]
  OBVIOUS
<1>1. Addable(G) /\ DOMAIN G = S
  BY <1>p DEF Addable
<1>2. Units(G, S) = S \X (0 .. k - 1)
  BY <1>p DEF Units
<1>3. IsFiniteSet(0 .. k - 1) /\ Cardinality(0 .. k - 1) = k
  BY FS_Interval
<1>4. Cardinality(S \X (0 .. k - 1)) = Cardinality(S) * k /\ Cardinality(S) \in Nat
  BY <1>3, FS_Product, FS_CardinalityType
<1>5. Total(G) = Cardinality(S \X (0 .. k - 1))
  BY <1>1, <1>2 DEF Total, SumOver
<1>6. \A a \in Nat : a * k = k * a
  OBVIOUS
<1> QED BY <1>1, <1>4, <1>5, <1>6, <1>p

(***************************************************************************)
(* Counting packets                                                        *)
(***************************************************************************)

LEMMA CountIsNat ==
    ASSUME NEW s, IsSeq(s), NEW q
    PROVE  /\ IsFiniteSet(Places(s, q)) /\ Count(s, q) \in Nat
           /\ Count(s, q) = 0 <=> Places(s, q) = {}
           /\ s = << >> => Count(s, q) = 0
<1>1. Len(s) \in Nat /\ (s = << >> => Len(s) = 0)
  BY Sequences
<1>2. IsFiniteSet(1 .. Len(s)) /\ Places(s, q) \subseteq 1 .. Len(s)
  BY <1>1, FS_Interval DEF Places
<1>3. IsFiniteSet(Places(s, q))
  BY <1>2, FS_Subset
<1>4. s = << >> => Places(s, q) = {}
  BY <1>1, <1>2
<1> QED BY <1>3, <1>4, FS_CardinalityType, FS_EmptySet DEF Count

LEMMA SeqOfOne ==
    ASSUME NEW m, NEW q
    PROVE  IsSeq(<<m>>) /\ Len(<<m>>) = 1 /\ <<m>>[1] = m /\ Count(<<m>>, q) = Counted(Meets(m, q))
<1>1. <<m>> \in Seq({m}) /\ Len(<<m>>) = 1 /\ <<m>>[1] = m
  OBVIOUS
<1>2. Places(<<m>>, q) = IF Meets(m, q) THEN {1} ELSE {}
  <2>1. Places(<<m>>, q) = {i \in 1 .. 1 : Meets(<<m>>[i], q)}
    BY <1>1 DEF Places
  <2>2. 1 .. 1 = {1}
    OBVIOUS
  <2>3. \A i \in {1} : Meets(<<m>>[i], q) <=> Meets(m, q)
    BY <1>1
  <2> HIDE DEF Meets
  <2> QED BY <2>1, <2>2, <2>3
<1>3. Count(<<m>>, q) = Counted(Meets(m, q))
  BY <1>2, FS_EmptySet, FS_Singleton DEF Count, Counted
<1> QED BY <1>1, <1>3 DEF IsSeq

LEMMA CountParts ==
    ASSUME NEW s, NEW o, NEW t, Parts(t, s, o), NEW q
    PROVE  Count(t, q) = Count(s, q) + Count(o, q)
<1>p. PICK A, B, l : A = Places(s, q) /\ B = Places(o, q) /\ l = Len(s)
  OBVIOUS
<1>1. l \in Nat /\ Len(o) \in Nat /\ Len(t) = l + Len(o)
  BY <1>p, Sequences DEF Parts
<1>2. IsFiniteSet(A) /\ IsFiniteSet(B) /\ A \subseteq 1 .. l /\ B \subseteq 1 .. Len(o)
  BY <1>p, CountIsNat DEF Places, Parts
<1> DEFINE Moved == {l + i : i \in B}
<1>3. IsFiniteSet(Moved) /\ Cardinality(Moved) = Cardinality(B)
  <2> DEFINE f == [i \in B |-> l + i]
  <2>1. \A i, j \in B : l + i = l + j => i = j
    BY <1>1, <1>2
  <2>2. f \in Bijection(B, Moved)
    BY <2>1 DEF Bijection, Injection, Surjection, IsInjective
  <2>3. ExistsBijection(B, Moved)
    BY <2>2 DEF ExistsBijection
  <2> QED BY <1>2, <2>3, FS_Bijection
<1>4. Places(t, q) = A \cup Moved
  <2>1. ASSUME NEW i \in 1 .. (l + Len(o)) PROVE Meets(t[i], q) <=> i \in A \cup Moved
    <3>1. CASE i \in 1 .. l
      <4>1. t[i] = s[i]
        BY <1>p, <3>1 DEF Parts
      <4>2. i \notin Moved
        BY <1>1, <1>2, <3>1
      <4> QED BY <1>p, <3>1, <4>1, <4>2 DEF Places
    <3>2. CASE i \notin 1 .. l
      <4>1. i - l \in 1 .. Len(o) /\ i = l + (i - l) /\ i \notin A
        BY <1>1, <1>2, <3>2
      <4>2. t[i] = o[i - l]
        BY <1>p, <4>1 DEF Parts
      <4>3. Meets(t[i], q) <=> i - l \in B
        BY <1>p, <4>1, <4>2 DEF Places
      <4>4. i \in Moved <=> i - l \in B
        <5>1. \A j \in B : l + j = i => j = i - l
          BY <1>1, <1>2, <4>1
        <5> QED BY <4>1, <5>1
      <4> QED BY <4>1, <4>3, <4>4
    <3> QED BY <3>1, <3>2
  <2>2. A \cup Moved \subseteq 1 .. (l + Len(o))
    <3>1. \A i \in B : l + i \in 1 .. (l + Len(o))
      BY <1>1, <1>2
    <3>2. \A i \in A : i \in 1 .. (l + Len(o))
      BY <1>1, <1>2
    <3> QED BY <3>1, <3>2
  <2> HIDE DEF Moved
  <2> QED BY <1>1, <1>p, <2>1, <2>2 DEF Places
<1>5. A \cap Moved = {}
  BY <1>1, <1>2
<1> HIDE DEF Moved
<1>6. Cardinality(A \cap Moved) = 0
  BY <1>5, FS_EmptySet
<1>7. Cardinality(A \cup Moved) = Cardinality(A) + Cardinality(Moved) - Cardinality(A \cap Moved)
  BY <1>2, <1>3, FS_Union
<1>8. Cardinality(A) \in Nat /\ Cardinality(B) \in Nat
  BY <1>2, FS_CardinalityType
<1> QED BY <1>3, <1>4, <1>6, <1>7, <1>8, <1>p DEF Count

LEMMA CountMore ==
    ASSUME NEW s, IsSeq(s), NEW q
    PROVE  /\ \A o : IsSeq(o) => Count(s \o o, q) = Count(s, q) + Count(o, q)
           /\ \A m : Count(Append(s, m), q) = Count(s, q) + Counted(Meets(m, q))
           /\ s # << >> => Count(s, q) = Counted(Meets(Head(s), q)) + Count(Tail(s), q)
<1>1. ASSUME NEW o, IsSeq(o)
      PROVE  Count(s \o o, q) = Count(s, q) + Count(o, q)
  <2>p. PICK t : t = s \o o
    OBVIOUS
  <2>1. /\ Len(t) = Len(s) + Len(o) /\ \A i \in 1 .. Len(s) : t[i] = s[i]
        /\ \A i \in 1 .. Len(o) : t[Len(s) + i] = o[i]
    BY <1>1, <2>p, Sequences
  <2>2. Count(t, q) = Count(s, q) + Count(o, q)
    BY <1>1, <2>1, CountParts DEF Parts
  <2> QED BY <2>2, <2>p
<1>2. ASSUME NEW m
      PROVE  Count(Append(s, m), q) = Count(s, q) + Counted(Meets(m, q))
  <2>p. PICK o, t : o = <<m>> /\ t = Append(s, m)
    OBVIOUS
  <2>1. /\ Len(t) = Len(s) + 1 /\ \A i \in 1 .. Len(s) : t[i] = s[i]
        /\ t[Len(s) + 1] = m
    BY <2>p, Sequences
  <2>2. IsSeq(o) /\ Len(o) = 1 /\ o[1] = m /\ Count(o, q) = Counted(Meets(m, q))
    BY <2>p, SeqOfOne
  <2>3. Len(t) = Len(s) + Len(o) /\ \A i \in 1 .. Len(o) : t[Len(s) + i] = o[i]
    BY <2>1, <2>2
  <2>s. Parts(t, s, o)
    BY <2>1, <2>2, <2>3 DEF Parts
  <2>4. Count(t, q) = Count(s, q) + Count(o, q)
    BY <2>s, CountParts
  <2> QED BY <2>2, <2>4, <2>p
<1>3. ASSUME s # << >>
      PROVE  Count(s, q) = Counted(Meets(Head(s), q)) + Count(Tail(s), q)
  <2>1. /\ Len(s) \in Nat /\ IsSeq(Tail(s)) /\ Len(Tail(s)) = Len(s) - 1 /\ Head(s) = s[1]
        /\ \A i \in 1 .. Len(s) - 1 : Tail(s)[i] = s[i + 1]
    BY <1>3, Sequences
  <2>p. PICK o, t : o = <<Head(s)>> /\ t = Tail(s)
    OBVIOUS
  <2>2. IsSeq(o) /\ Len(o) = 1 /\ o[1] = Head(s) /\ Count(o, q) = Counted(Meets(Head(s), q))
    BY <2>p, SeqOfOne
  <2>3. /\ Len(s) = Len(o) + Len(t) /\ \A i \in 1 .. Len(o) : s[i] = o[i]
        /\ \A i \in 1 .. Len(t) : s[Len(o) + i] = t[i]
    <3>1. \A i \in 1 .. Len(t) : Len(o) + i = i + 1 /\ i \in 1 .. Len(s) - 1
      BY <2>1, <2>2, <2>p
    <3> QED BY <2>1, <2>2, <2>p, <3>1
  <2>s. Parts(s, o, t)
    BY <2>1, <2>2, <2>3, <2>p DEF Parts
  <2>4. Count(s, q) = Count(o, q) + Count(t, q)
    BY <2>s, CountParts
  <2> QED BY <2>2, <2>4, <2>p
<1> QED BY <1>1, <1>2, <1>3

LEMMA AppendJoins ==
    ASSUME NEW s, IsSeq(s), NEW m
    PROVE  Append(s, m) = s \o <<m>>
<1>1. PICK S : s \in Seq(S)
  BY DEF IsSeq
<1> QED BY <1>1

LEMMA Counting ==
    ASSUME NEW q
    PROVE  /\ \A out : Parcels(out) => Addable([to \in Node |-> Count(out[to], q)]) /\ Gains(out, q) \in Nat
           /\ \A chan : Pairwise(chan) =>
                 /\ UnderWay(chan, q) \in Nat /\ Addable([n \in Node |-> Arrives(chan, n, q)])
                 /\ \A n \in Node : /\ Addable([m \in Node |-> Count(chan[<<m, n>>], q)])
                                    /\ Arrives(chan, n, q) \in Nat
<1>1. IsFiniteSet(Node)
  BY Constants
<1>2. ASSUME NEW out, Parcels(out)
      PROVE  Addable([to \in Node |-> Count(out[to], q)]) /\ Gains(out, q) \in Nat
  <2>1. Addable([to \in Node |-> Count(out[to], q)])
    BY <1>1, <1>2, CountIsNat DEF Addable, Parcels
  <2> QED BY <2>1, TotalIsNat DEF Gains
<1>3. ASSUME NEW chan, Pairwise(chan)
      PROVE  /\ UnderWay(chan, q) \in Nat /\ Addable([n \in Node |-> Arrives(chan, n, q)])
             /\ \A n \in Node : /\ Addable([m \in Node |-> Count(chan[<<m, n>>], q)])
                                /\ Arrives(chan, n, q) \in Nat
  <2>1. ASSUME NEW n \in Node
        PROVE  Addable([m \in Node |-> Count(chan[<<m, n>>], q)]) /\ Arrives(chan, n, q) \in Nat
    <3>1. Addable([m \in Node |-> Count(chan[<<m, n>>], q)])
      BY <1>1, <1>3, CountIsNat DEF Addable, Pairwise
    <3> QED BY <3>1, TotalIsNat DEF Arrives
  <2>2. Addable([n \in Node |-> Arrives(chan, n, q)])
    BY <1>1, <2>1 DEF Addable
  <2> QED BY <2>1, <2>2, TotalIsNat DEF UnderWay
<1> QED BY <1>2, <1>3

\* A node sends o to another one.
LEMMA GainsMore ==
    ASSUME NEW out, Parcels(out), NEW to \in Node, NEW o, IsSeq(o), NEW after,
           after[to] = out[to] \o o, \A k \in Node \ {to} : after[k] = out[k], NEW q
    PROVE  Parcels(after) /\ Gains(after, q) = Gains(out, q) + Count(o, q)
<1>1. IsSeq(after[to]) /\ Count(after[to], q) = Count(out[to], q) + Count(o, q)
  BY Sequences, CountMore DEF Parcels
<1>2. Parcels(after)
  BY <1>1 DEF Parcels
<1>p. PICK F, G : F = [k \in Node |-> Count(out[k], q)] /\ G = [k \in Node |-> Count(after[k], q)]
  OBVIOUS
<1>3. Addable(F) /\ Addable(G) /\ DOMAIN F = Node /\ DOMAIN G = Node
  BY <1>2, <1>p, Counting
<1>4. to \in DOMAIN F /\ \A k \in DOMAIN F \ {to} : G[k] = F[k]
  BY <1>p
<1>p2. PICK c : c = Count(o, q)
  OBVIOUS
<1>6. G[to] = F[to] + c /\ c \in Nat
  BY <1>1, <1>p, <1>p2, CountIsNat
<1>7. Total(G) = Total(F) + c
  BY <1>3, <1>4, <1>6, TotalGrows
<1> QED BY <1>2, <1>7, <1>p, <1>p2 DEF Gains

LEMMA UnderWayMore ==
    ASSUME NEW chan, Pairwise(chan), NEW n \in Node, NEW out, Parcels(out), NEW after, Adds(chan, n, out, after), NEW q
    PROVE  Pairwise(after) /\ UnderWay(after, q) = UnderWay(chan, q) + Gains(out, q)
<1>0. /\ \A k \in Node : after[<<n, k>>] = chan[<<n, k>>] \o out[k]
      /\ \A a \in Node \ {n}, b \in Node : after[<<a, b>>] = chan[<<a, b>>]
  BY DEF Adds
<1>1. \A k \in Node : /\ IsSeq(after[<<n, k>>])
                      /\ Count(after[<<n, k>>], q) = Count(chan[<<n, k>>], q) + Count(out[k], q)
  <2> SUFFICES ASSUME NEW k \in Node
               PROVE  /\ IsSeq(after[<<n, k>>])
                      /\ Count(after[<<n, k>>], q) = Count(chan[<<n, k>>], q) + Count(out[k], q)
    OBVIOUS
  <2>1. IsSeq(chan[<<n, k>>]) /\ IsSeq(out[k]) /\ after[<<n, k>>] = chan[<<n, k>>] \o out[k]
    BY <1>0 DEF Pairwise, Parcels
  <2> QED BY <2>1, Sequences, CountMore
<1>2. Pairwise(after)
  BY <1>0, <1>1 DEF Pairwise
<1>3. ASSUME NEW k \in Node
      PROVE  Arrives(after, k, q) = Arrives(chan, k, q) + Count(out[k], q)
  <2>p. PICK F, G : F = [m \in Node |-> Count(chan[<<m, k>>], q)] /\ G = [m \in Node |-> Count(after[<<m, k>>], q)]
    OBVIOUS
  <2>1. Addable(F) /\ Addable(G) /\ DOMAIN F = Node /\ DOMAIN G = Node
    BY <1>2, <2>p, Counting
  <2>2. \A m \in Node \ {n} : G[m] = F[m]
    BY <1>0, <2>p
  <2>3. Total(F) \in Nat /\ Total(G) \in Nat /\ F[n] \in Nat /\ G[n] \in Nat /\ Total(G) + F[n] = Total(F) + G[n]
    BY <2>1, <2>2, TotalChanges
  <2>4. G[n] = F[n] + Count(out[k], q) /\ Count(out[k], q) \in Nat
    BY <1>1, <2>p, CountIsNat DEF Parcels
  <2>5. Total(G) = Total(F) + Count(out[k], q)
    BY <2>3, <2>4
  <2> QED BY <2>5, <2>p DEF Arrives
<1>p. PICK F, G, H : /\ F = [k \in Node |-> Arrives(chan, k, q)] /\ G = [k \in Node |-> Count(out[k], q)]
                     /\ H = [k \in Node |-> Arrives(after, k, q)]
  OBVIOUS
<1>4. Addable(F) /\ Addable(G) /\ Addable(H) /\ DOMAIN F = Node /\ DOMAIN G = Node /\ DOMAIN H = Node
  BY <1>2, <1>p, Counting
<1>5. \A k \in Node : H[k] = F[k] + G[k]
  BY <1>3, <1>p
<1>6. Total(H) = Total(F) + Total(G)
  BY <1>4, <1>5, TotalOfSums
<1> QED BY <1>2, <1>6, <1>p DEF UnderWay, Gains

\* A packet arrives.
LEMMA UnderWayLess ==
    ASSUME NEW chan, Pairwise(chan), NEW n \in Node, NEW m \in Node, chan[<<m, n>>] # << >>, NEW after,
           after[<<m, n>>] = Tail(chan[<<m, n>>]),
           \A a, b \in Node : <<a, b>> # <<m, n>> => after[<<a, b>>] = chan[<<a, b>>], NEW q
    PROVE  Pairwise(after) /\ UnderWay(chan, q) = UnderWay(after, q) + Counted(Meets(Head(chan[<<m, n>>]), q))
<1>p. PICK c : c = Counted(Meets(Head(chan[<<m, n>>]), q))
  OBVIOUS
<1>0. c \in Nat
  BY <1>p DEF Counted
<1>1. IsSeq(after[<<m, n>>]) /\ Count(chan[<<m, n>>], q) = c + Count(after[<<m, n>>], q)
  BY <1>p, Sequences, CountMore DEF Pairwise
<1>2. Pairwise(after)
  BY <1>1 DEF Pairwise
<1>3. \A k \in Node \ {n} : Arrives(after, k, q) = Arrives(chan, k, q)
  <2>1. \A k \in Node \ {n} : \A a \in Node : after[<<a, k>>] = chan[<<a, k>>]
    OBVIOUS
  <2> QED BY <2>1 DEF Arrives
<1>4. Arrives(chan, n, q) = Arrives(after, n, q) + c
  <2>p. PICK F, G : F = [a \in Node |-> Count(chan[<<a, n>>], q)] /\ G = [a \in Node |-> Count(after[<<a, n>>], q)]
    OBVIOUS
  <2>1. Addable(F) /\ Addable(G) /\ DOMAIN F = Node /\ DOMAIN G = Node
    BY <1>2, <2>p, Counting
  <2>2. m \in DOMAIN F /\ \A a \in DOMAIN F \ {m} : G[a] = F[a]
    BY <2>1, <2>p
  <2>3. Total(F) \in Nat /\ Total(G) \in Nat /\ F[m] \in Nat /\ G[m] \in Nat /\ Total(G) + F[m] = Total(F) + G[m]
    BY <2>1, <2>2, TotalChanges
  <2>4. F[m] = c + G[m]
    BY <1>1, <2>p
  <2>5. Total(F) = Total(G) + c
    BY <1>0, <2>3, <2>4
  <2> QED BY <2>5, <2>p DEF Arrives
<1>p2. PICK F, G : F = [k \in Node |-> Arrives(chan, k, q)] /\ G = [k \in Node |-> Arrives(after, k, q)]
  OBVIOUS
<1>5. Addable(F) /\ Addable(G) /\ DOMAIN F = Node /\ DOMAIN G = Node
  BY <1>2, <1>p2, Counting
<1>6. \A k \in Node \ {n} : G[k] = F[k]
  BY <1>3, <1>p2
<1>7. Total(F) \in Nat /\ Total(G) \in Nat /\ F[n] \in Nat /\ G[n] \in Nat /\ Total(G) + F[n] = Total(F) + G[n]
  BY <1>5, <1>6, TotalChanges
<1>8. F[n] = G[n] + c
  BY <1>4, <1>p2
<1>9. Total(F) = Total(G) + c
  BY <1>0, <1>7, <1>8
<1> QED BY <1>2, <1>9, <1>p, <1>p2 DEF UnderWay

\* If none is under way, none is in a channel.
LEMMA NoneUnderWay ==
    ASSUME NEW chan, Pairwise(chan), NEW q, UnderWay(chan, q) = 0, NEW n \in Node, NEW k \in Node
    PROVE  \A i \in 1 .. Len(chan[<<n, k>>]) : ~Meets(chan[<<n, k>>][i], q)
<1>p. PICK F, G : F = [a \in Node |-> Count(chan[<<a, k>>], q)] /\ G = [a \in Node |-> Arrives(chan, a, q)]
  OBVIOUS
<1>1. Addable(F) /\ Addable(G) /\ DOMAIN F = Node /\ DOMAIN G = Node
  BY <1>p, Counting
<1>2. F[n] \in Nat /\ F[n] <= Total(F) /\ G[k] \in Nat /\ G[k] <= Total(G)
  BY <1>1, TotalIsMore
<1>3. Total(G) = 0 /\ G[k] = Total(F) /\ F[n] = Count(chan[<<n, k>>], q)
  BY <1>p DEF UnderWay, Arrives
<1>4. Count(chan[<<n, k>>], q) = 0
  BY <1>2, <1>3
<1>5. Places(chan[<<n, k>>], q) = {}
  BY <1>4, CountIsNat DEF Pairwise
<1> QED BY <1>5 DEF Places

(***************************************************************************)
(* What handlers do to tokens and messages, as long as links stay          *)
(***************************************************************************)

LEMMA BooksAreNumbers ==
    ASSUME NEW r, Books(r)
    PROVE  /\ Parcels(r.out) /\ Tokens(r.s.neighbors) \in Nat /\ Unpaid(r.s) \in Nat
           /\ Addable([m \in DOMAIN r.s.neighbors |-> r.s.neighbors[m].received])
           /\ \A q : Gains(r.out, q) \in Nat
           /\ \A id : Waiting(r.s, id) \in Nat
<1>1. Parcels(r.out)
  BY DEF Books, WorkOK, Packets, Parcels
<1>2. \A q : Gains(r.out, q) \in Nat
  BY <1>1, Counting
<1>3. IsFiniteSet(DOMAIN r.s.neighbors) /\ \A m \in DOMAIN r.s.neighbors : r.s.neighbors[m].received \in Nat
  BY SizeIsZero DEF Books, WorkOK, StateOK, NeighborsOK, IsInfo
<1>4. Addable([m \in DOMAIN r.s.neighbors |-> r.s.neighbors[m].received])
  BY <1>3 DEF Addable
<1>5. Tokens(r.s.neighbors) \in Nat
  BY <1>4, TotalIsNat DEF Tokens
<1>6. Unpaid(r.s) \in Nat
  <2>1. {w \in r.s.waiting : ~w.fromApp} \subseteq r.s.waiting
    OBVIOUS
  <2> QED BY <2>1, FS_Subset, FS_CardinalityType DEF Books, Unpaid
<1>7. ASSUME NEW id PROVE Waiting(r.s, id) \in Nat
  <2>1. {w \in r.s.waiting : w.msg.id = id} \subseteq r.s.waiting
    OBVIOUS
  <2> QED BY <2>1, FS_Subset, FS_CardinalityType DEF Books, Waiting
<1> QED BY <1>1, <1>2, <1>4, <1>5, <1>6, <1>7

LEMMA SameIsTransitive ==
    ASSUME NEW r, NEW t, NEW u, Same(r, t), Same(t, u)
    PROVE  Same(r, u)
BY CalmIsTransitive DEF Same

LEMMA SameIsReflexive ==
    ASSUME NEW r, Books(r)
    PROVE  Same(r, r) /\ Keeps(r, r)
BY CalmIsReflexive DEF Same, Keeps, Books

LEMMA SameTokens ==
    ASSUME NEW b, NEW e, DOMAIN e = DOMAIN b, \A m \in DOMAIN b : e[m].received = b[m].received
    PROVE  Tokens(e) = Tokens(b)
<1>1. [m \in DOMAIN e |-> e[m].received] = [m \in DOMAIN b |-> b[m].received]
  OBVIOUS
<1> QED BY <1>1 DEF Tokens

LEMMA KeepsCounts ==
    ASSUME NEW r, Books(r), NEW t, Keeps(r, t)
    PROVE  /\ Same(r, t) /\ Credit(t) = Credit(r)
           /\ \A id : Walkers(t, id) = Walkers(r, id)
           /\ \A q : Gains(t.out, q) = Gains(r.out, q)
           /\ \A c, f, D : Good(c, f, D, r) => Good(c, f, D, t)
<1>1. t.n = r.n /\ t.out = r.out /\ t.s.waiting = r.s.waiting /\ DOMAIN t.s.neighbors = DOMAIN r.s.neighbors
  BY DEF Keeps, Same, Calm, Alike
<1>2. Tokens(t.s.neighbors) = Tokens(r.s.neighbors)
  BY <1>1, SameTokens DEF Keeps
<1>3. Unpaid(t.s) = Unpaid(r.s) /\ \A id : Waiting(t.s, id) = Waiting(r.s, id)
  BY <1>1 DEF Unpaid, Waiting
<1>4. \A c, f, D : Good(c, f, D, r) => Good(c, f, D, t)
  BY <1>1 DEF Good
<1>5. \A q : Gains(t.out, q) = Gains(r.out, q)
  BY <1>1
<1> QED BY <1>1, <1>2, <1>3, <1>4, <1>5 DEF Keeps, Credit, Walkers

\* A packet is sent to a neighbor.
LEMMA SentCounts ==
    ASSUME NEW r, Books(r), NEW to \in DOMAIN r.s.neighbors, NEW m, PacketOK(m), m.type \notin Says,
           NEW t, t = Send(r, to, m)
    PROVE  /\ Same(r, t) /\ t.s = r.s
           /\ \A q : Gains(t.out, q) = Gains(r.out, q) + Counted(Meets(m, q))
           /\ \A c, f, D : Good(c, f, D, r) /\ Fine(c, f, D, r.n, to, m) => Good(c, f, D, t)
<1>1. to \in Node \ {r.n} /\ to \in Node /\ WorkOK(r) /\ Parcels(r.out)
  BY BooksAreNumbers DEF Books, WorkOK, StateOK, NeighborsOK
<1>2. Calm(r, t) /\ t.n = r.n /\ t.s = r.s
  BY <1>1, Sent
<1>3. /\ t.found = r.found /\ t.told = r.told /\ t.minted = r.minted
      /\ t.out[to] = Append(r.out[to], m) /\ \A k \in Node \ {to} : t.out[k] = r.out[k]
  BY <1>1 DEF WorkOK, WorkFields, Send
<1>4. Same(r, t)
  BY <1>2, <1>3 DEF Same, Books, Calm
<1>5. IsSeq(r.out[to])
  BY <1>1 DEF Parcels
<1>6. ASSUME NEW q
      PROVE  Gains(t.out, q) = Gains(r.out, q) + Counted(Meets(m, q))
  <2>p. PICK o, after, out : o = <<m>> /\ after = t.out /\ out = r.out
    OBVIOUS
  <2>1. IsSeq(o) /\ Count(o, q) = Counted(Meets(m, q))
    BY <2>p, SeqOfOne
  <2>2. after[to] = out[to] \o o
    <3>1. after[to] = Append(out[to], m) /\ IsSeq(out[to]) /\ o = <<m>>
      BY <1>3, <1>5, <2>p
    <3>2. Append(out[to], m) = out[to] \o <<m>>
      BY ONLY <3>1, AppendJoins
    <3> QED BY ONLY <3>1, <3>2
  <2>3. Parcels(out) /\ \A k \in Node \ {to} : after[k] = out[k]
    BY <1>1, <1>3, <2>p
  <2>4. Gains(after, q) = Gains(out, q) + Count(o, q)
    BY <1>1, <2>1, <2>2, <2>3, GainsMore
  <2> QED BY <2>1, <2>4, <2>p
<1>7. ASSUME NEW c, NEW f, NEW D, Good(c, f, D, r), Fine(c, f, D, r.n, to, m)
      PROVE  Good(c, f, D, t)
  <2>1. ASSUME NEW k \in Node, NEW i \in 1 .. Len(t.out[k])
        PROVE  k \in DOMAIN t.s.neighbors /\ Fine(c, f, D, t.n, k, t.out[k][i])
    <3>1. CASE k # to
      BY <1>2, <1>3, <1>7, <3>1 DEF Good
    <3>2. CASE k = to /\ i <= Len(r.out[to])
      <4>1. i \in 1 .. Len(r.out[to]) /\ t.out[k][i] = r.out[to][i]
        <5>1. Len(r.out[to]) \in Nat /\ \A j \in 1 .. Len(r.out[to]) : Append(r.out[to], m)[j] = r.out[to][j]
          BY <1>5, Sequences
        <5>2. Len(Append(r.out[to], m)) = Len(r.out[to]) + 1
          BY <1>5, Sequences
        <5> QED BY <1>3, <3>2, <5>1, <5>2
      <4> QED BY <1>1, <1>2, <1>7, <3>2, <4>1 DEF Good
    <3>3. CASE k = to /\ ~(i <= Len(r.out[to]))
      <4>1. Len(r.out[to]) \in Nat /\ Len(Append(r.out[to], m)) = Len(r.out[to]) + 1
            /\ Append(r.out[to], m)[Len(r.out[to]) + 1] = m
        BY <1>5, Sequences
      <4>2. t.out[k] = Append(r.out[to], m)
        BY <1>3, <3>3
      <4>3. i = Len(r.out[to]) + 1
        BY <3>3, <4>1, <4>2
      <4> QED BY <1>2, <1>7, <3>3, <4>1, <4>2, <4>3
    <3> QED BY <3>1, <3>2, <3>3
  <2>2. \A w \in t.s.waiting : Carried(c, f, D, t.n, w.msg)
    BY <1>2, <1>7 DEF Good
  <2> QED BY <2>1, <2>2 DEF Good
<1> QED BY <1>2, <1>4, <1>6, <1>7

LEMMA TokensAddUp ==
    ASSUME NEW r, Books(r), NEW G, G = [k \in DOMAIN r.s.neighbors |-> r.s.neighbors[k].received]
    PROVE  Addable(G) /\ Tokens(r.s.neighbors) = Total(G)
BY BooksAreNumbers DEF Tokens

LEMMA NeighborCounts ==
    ASSUME NEW r, Books(r), NEW m \in DOMAIN r.s.neighbors, NEW e, IsInfo(e), NEW t, Revised(r, m, e, t)
    PROVE  /\ Same(r, t) /\ t.out = r.out /\ t.s.waiting = r.s.waiting
           /\ r.s.neighbors[m].received \in Nat /\ e.received \in Nat
           /\ Tokens(t.s.neighbors) + r.s.neighbors[m].received = Tokens(r.s.neighbors) + e.received
           /\ e.received = r.s.neighbors[m].received => Keeps(r, t)
           /\ \A c, f, D : Good(c, f, D, r) => Good(c, f, D, t)
<1>p. PICK b : b = r.s.neighbors
  OBVIOUS
<1>1. /\ t.n = r.n /\ t.out = r.out /\ t.found = r.found /\ t.told = r.told /\ t.minted = r.minted
      /\ t.s = [r.s EXCEPT !.neighbors = [b EXCEPT ![m] = e]]
  BY <1>p DEF Books, WorkOK, WorkFields, Revised
<1>2. t.s.waiting = r.s.waiting /\ t.s.state = r.s.state /\ t.s.neighbors = [b EXCEPT ![m] = e]
  BY <1>1 DEF Books, WorkOK, StateOK, NodeFields
<1>3. b = [k \in DOMAIN b |-> b[k]] /\ m \in DOMAIN b /\ \A k \in DOMAIN b : b[k].received \in Nat
  BY <1>p, ZenonT(30) DEF Books, WorkOK, StateOK, NeighborsOK, IsInfo
<1>4. /\ DOMAIN t.s.neighbors = DOMAIN b /\ t.s.neighbors[m] = e
      /\ \A k \in DOMAIN b \ {m} : t.s.neighbors[k] = b[k]
  BY <1>2, <1>3
<1>5. Calm(r, t)
  BY NeighborChanged DEF Books, Revised
<1>6. Same(r, t)
  BY <1>1, <1>2, <1>5 DEF Same, Books, Calm
<1>7. Tokens(t.s.neighbors) + b[m].received = Tokens(b) + e.received
  <2>q. PICK u : u = t
    OBVIOUS
  <2>p. PICK F, G : /\ F = [k \in DOMAIN b |-> b[k].received]
                    /\ G = [k \in DOMAIN u.s.neighbors |-> u.s.neighbors[k].received]
    OBVIOUS
  <2>1. Books(u)
    BY <1>6, <2>q DEF Same
  <2>2. Addable(F) /\ Addable(G) /\ DOMAIN F = DOMAIN b /\ DOMAIN G = DOMAIN b
    <3>1. Addable(F) /\ DOMAIN F = DOMAIN b
      BY <1>p, <2>p, BooksAreNumbers
    <3>2. Addable(G)
      <4> HIDE <2>q
      <4> QED BY <2>1, <2>p, TokensAddUp
    <3>3. DOMAIN G = DOMAIN b
      BY <1>4, <2>p, <2>q
    <3> QED BY <3>1, <3>2, <3>3
  <2>3. m \in DOMAIN F /\ \A k \in DOMAIN F \ {m} : G[k] = F[k]
    BY <1>3, <1>4, <2>2, <2>p, <2>q
  <2>4. Total(G) + F[m] = Total(F) + G[m]
    BY <2>2, <2>3, TotalChanges
  <2>5. F[m] = b[m].received /\ G[m] = e.received
    BY <1>3, <1>4, <2>p, <2>q
  <2> QED BY <2>4, <2>5, <2>p, <2>q DEF Tokens
<1>8. e.received = b[m].received => Keeps(r, t)
  BY <1>1, <1>2, <1>4, <1>6, <1>p DEF Keeps
<1>9. \A c, f, D : Good(c, f, D, r) => Good(c, f, D, t)
  BY <1>1, <1>2, <1>4, <1>p DEF Good
<1> QED BY <1>1, <1>2, <1>3, <1>6, <1>7, <1>8, <1>9, <1>p DEF IsInfo

LEMMA InfosOf ==
    ASSUME NEW r, Books(r), NEW m \in DOMAIN r.s.neighbors
    PROVE  IsInfo(r.s.neighbors[m])
BY DEF Books, WorkOK, StateOK, NeighborsOK

LEMMA UpdateCounts ==
    ASSUME NEW r, Books(r), NEW m, NEW d
    PROVE  Keeps(r, UpdateNeighborList(r, m, d))
<1>1. CASE m \notin DOMAIN r.s.neighbors
  BY <1>1, SameIsReflexive DEF UpdateNeighborList
<1>2. CASE m \in DOMAIN r.s.neighbors
  <2>p. PICK e : e = [r.s.neighbors[m] EXCEPT !.degree = d, !.heard = TRUE]
    OBVIOUS
  <2>1. IsInfo(r.s.neighbors[m])
    BY <1>2, InfosOf
  <2>2. IsInfo(e) /\ e.received = r.s.neighbors[m].received
    BY <2>1, <2>p DEF IsInfo, InfoFields
  <2>3. PICK t : t = UpdateNeighborList(r, m, d)
    OBVIOUS
  <2>4. Revised(r, m, e, t)
    BY <1>2, <2>3, <2>p DEF UpdateNeighborList, Revised
  <2> QED BY <1>2, <2>2, <2>3, <2>4, NeighborCounts
<1> QED BY <1>1, <1>2

\* A token is worth one more.
LEMMA GrantCounts ==
    ASSUME NEW r, Books(r), NEW t, t = GrantToken(r)
    PROVE  /\ Same(r, t) /\ t.s.waiting = r.s.waiting
           /\ Tokens(t.s.neighbors) = Tokens(r.s.neighbors)
           /\ DOMAIN r.s.neighbors # {} => Gains(t.out, Paid) = Gains(r.out, Paid) + 1
           /\ DOMAIN r.s.neighbors = {} => t = r
           /\ \A q : "TOKEN" \notin q.types => Gains(t.out, q) = Gains(r.out, q)
           /\ \A c, f, D : Good(c, f, D, r) => Good(c, f, D, t)
<1>0. Size(r.s) = 0 <=> DOMAIN r.s.neighbors = {}
  BY SizeIsZero DEF Books, WorkOK
<1>1. CASE DOMAIN r.s.neighbors = {}
  <2>1. t = r
    BY <1>0, <1>1 DEF GrantToken
  <2> QED BY <1>1, <2>1, SameIsReflexive
<1>2. CASE DOMAIN r.s.neighbors # {}
  <2>1. PICK m : m = CHOOSE k \in DOMAIN r.s.neighbors : \A o \in DOMAIN r.s.neighbors \ {k} : Ahead(r.s, k, o)
    OBVIOUS
  <2>2. m \in DOMAIN r.s.neighbors
    BY <1>2, <2>1, OneIsAhead DEF Books
  <2>3. PICK u : u = [r EXCEPT !.s.neighbors[m].sent = @ + 1]
    OBVIOUS
  <2>4. t = Send(u, m, Note(r, "TOKEN"))
    BY <1>0, <1>2, <2>1, <2>3 DEF GrantToken
  <2>p. PICK e, k : e = [r.s.neighbors[m] EXCEPT !.sent = @ + 1] /\ k = Note(r, "TOKEN")
    OBVIOUS
  <2>i. IsInfo(r.s.neighbors[m])
    BY <2>2, InfosOf
  <2>5. IsInfo(e) /\ e.received = r.s.neighbors[m].received
    BY <2>i, <2>p DEF IsInfo, InfoFields
  <2>6. Revised(r, m, e, u)
    BY <2>3, <2>p DEF Revised
  <2>7. Keeps(r, u) /\ DOMAIN u.s.neighbors = DOMAIN r.s.neighbors /\ Books(u) /\ Same(r, u)
    <3>1. Keeps(r, u)
      BY <2>2, <2>5, <2>6, NeighborCounts
    <3> QED BY <3>1 DEF Keeps, Same, Calm, Alike
  <2>8. k.type = "TOKEN" /\ PacketOK(k) /\ k.type \notin Says
    BY <2>p DEF PacketOK, Note, Types, Says
  <2>9. /\ Same(u, t) /\ t.s = u.s /\ \A q : Gains(t.out, q) = Gains(u.out, q) + Counted(Meets(k, q))
        /\ \A c, f, D : Good(c, f, D, u) /\ Fine(c, f, D, u.n, m, k) => Good(c, f, D, t)
    BY <2>2, <2>4, <2>7, <2>8, <2>p, SentCounts
  <2>10. \A q : Gains(t.out, q) = Gains(r.out, q) + Counted(Meets(k, q)) /\ Gains(r.out, q) \in Nat
    BY <2>7, <2>9, BooksAreNumbers DEF Keeps
  <2>11. Gains(t.out, Paid) = Gains(r.out, Paid) + 1
    <3>1. Meets(k, Paid)
      BY <2>8 DEF Meets, Paid
    <3> QED BY <2>10, <3>1 DEF Counted
  <2>12. ASSUME NEW q, "TOKEN" \notin q.types
         PROVE  Gains(t.out, q) = Gains(r.out, q)
    <3>1. ~Meets(k, q)
      BY <2>8, <2>12 DEF Meets
    <3> QED BY <2>10, <3>1 DEF Counted
  <2>13. ASSUME NEW c, NEW f, NEW D, Good(c, f, D, r)
         PROVE  Good(c, f, D, t)
    <3>1. Good(c, f, D, u)
      BY <2>7, <2>13, KeepsCounts
    <3>2. Fine(c, f, D, u.n, m, k)
      BY <2>8 DEF Fine, IsMessage
    <3> QED BY <2>9, <3>1, <3>2
  <2>14. Same(r, t)
    BY <2>7, <2>9, SameIsTransitive
  <2>15. Tokens(t.s.neighbors) = Tokens(r.s.neighbors) /\ t.s.waiting = r.s.waiting
    BY <2>7, <2>9, SameTokens DEF Keeps
  <2> QED BY <1>2, <2>11, <2>12, <2>13, <2>14, <2>15
<1> QED BY <1>1, <1>2

\* Nothing but the waiting messages, and what is known of them, changes.
LEMMA StateCounts ==
    ASSUME NEW r, Books(r), NEW s, s = [x \in NodeFields |-> s[x]], s.state = r.s.state, s.neighbors = r.s.neighbors,
           s.degree = r.s.degree, s.neighCand = r.s.neighCand, s.knownNodes = r.s.knownNodes,
           IsFiniteSet(s.waiting), \A w \in s.waiting : MessageOK(w.msg), NEW t, t = [r EXCEPT !.s = s]
    PROVE  /\ Same(r, t) /\ t.s = s /\ t.out = r.out /\ Tokens(t.s.neighbors) = Tokens(r.s.neighbors)
           /\ s.waiting = r.s.waiting => Keeps(r, t)
<1>1. StateOK(r.n, s) /\ Alike(r.s, s)
  BY DEF Books, WorkOK, StateOK, Alike
<1>2. Calm(r, t)
  BY <1>1, StateChanged DEF Books
<1>3. t.s = s /\ t.out = r.out /\ t.found = r.found /\ t.told = r.told /\ t.minted = r.minted
  BY DEF Books, WorkOK, WorkFields
<1>4. Same(r, t)
  BY <1>2, <1>3 DEF Same, Calm, Books
<1> QED BY <1>3, <1>4 DEF Keeps

LEMMA RemembersCounts ==
    ASSUME NEW r, Books(r), NEW m
    PROVE  /\ Keeps(r, Remembers(r, m)) /\ Remembers(r, m).s.neighbors = r.s.neighbors
           /\ \A ms : Keeps(r, [r EXCEPT !.s.messages = ms]) /\ [r EXCEPT !.s.messages = ms].s.neighbors = r.s.neighbors
<1>1. ASSUME NEW ms
      PROVE  Keeps(r, [r EXCEPT !.s.messages = ms]) /\ [r EXCEPT !.s.messages = ms].s.neighbors = r.s.neighbors
  <2>p. PICK s, t : s = [r.s EXCEPT !.messages = ms] /\ t = [r EXCEPT !.s.messages = ms]
    OBVIOUS
  <2>1. t = [r EXCEPT !.s = s]
    BY <2>p
  <2>2. /\ s = [x \in NodeFields |-> s[x]] /\ s.state = r.s.state /\ s.neighbors = r.s.neighbors
        /\ s.degree = r.s.degree /\ s.neighCand = r.s.neighCand /\ s.knownNodes = r.s.knownNodes
        /\ s.waiting = r.s.waiting
    BY <2>p DEF Books, WorkOK, StateOK, NodeFields
  <2>3. IsFiniteSet(s.waiting) /\ \A w \in s.waiting : MessageOK(w.msg)
    BY <2>2 DEF Books, WorkOK, StateOK
  <2>4. Keeps(r, t) /\ t.s = s
    BY <2>1, <2>2, <2>3, StateCounts
  <2> QED BY <2>2, <2>4, <2>p
<1>2. CASE m.id \in DOMAIN r.s.messages
  BY <1>1, <1>2, SameIsReflexive DEF Remembers
<1>3. CASE m.id \notin DOMAIN r.s.messages
  <2>p. PICK ms : ms = With(r.s.messages, m.id, DOMAIN r.s.neighbors \ {m.src})
    OBVIOUS
  <2>1. Remembers(r, m) = [r EXCEPT !.s.messages = ms]
    BY <1>3, <2>p DEF Remembers
  <2> QED BY <1>1, <2>1
<1> QED BY <1>1, <1>2, <1>3

LEMMA MailIsOK ==
    ASSUME NEW m, Mail(m)
    PROVE  /\ MessageOK(m) /\ PacketOK(m) /\ m.type \notin Says /\ Meets(m, Paid)
           /\ \A id \in Ids : Meets(m, Walks(id)) <=> id = m.id
           /\ \A q : q.types = {"ANSWER"} => ~Meets(m, q)
<1>1. m.type \in {"SEARCH", "ROUTE"} /\ "type" \in DOMAIN m
  BY DEF Mail, IsMessage, MessageFields
<1>2. \A id \in Ids : id # None
  BY DEF Ids, None
<1>3. MessageOK(m) /\ PacketOK(m) /\ m.type \notin Says
  BY <1>1 DEF MessageOK, PacketOK, Types, Says
<1>4. Meets(m, Paid)
  BY <1>1 DEF Meets, Paid
<1>5. \A id \in Ids : Meets(m, Walks(id)) <=> id = m.id
  BY <1>1, <1>2 DEF Meets, Walks
<1>6. \A q : q.types = {"ANSWER"} => ~Meets(m, q)
  BY <1>1 DEF Meets
<1> QED BY <1>3, <1>4, <1>5, <1>6

LEMMA PassedAfter ==
    ASSUME NEW r, Books(r), NEW u, Keeps(r, u), NEW t, NEW m, NEW fromApp, Passed(u, t, m, fromApp)
    PROVE  Passed(r, t, m, fromApp)
<1>1. /\ u.n = r.n /\ u.found = r.found /\ u.told = r.told /\ u.minted = r.minted /\ u.s.state = r.s.state
      /\ Calm(r, u)
  BY DEF Keeps, Same, Calm
<1>2. /\ Credit(u) = Credit(r) /\ \A id : Walkers(u, id) = Walkers(r, id)
      /\ \A q : Gains(u.out, q) = Gains(r.out, q)
      /\ \A c, f, D : Good(c, f, D, r) => Good(c, f, D, u)
  BY KeepsCounts
<1>3. Calm(r, t)
  BY <1>1, CalmIsTransitive DEF Passed
<1>4. \A c, f, D : Good(c, f, D, r) /\ Carried(c, f, D, r.n, m) => Good(c, f, D, t)
  BY <1>1, <1>2 DEF Passed
<1>5. \A q : q.types = {"ANSWER"} => Gains(t.out, q) = Gains(r.out, q)
  BY <1>2 DEF Passed
<1>6. \A id \in Ids : Walkers(t, id) + Counted(id = m.id /\ t.told # r.told) <= Walkers(r, id) + Counted(id = m.id)
  BY <1>1, <1>2 DEF Passed
<1> QED BY <1>1, <1>2, <1>3, <1>4, <1>5, <1>6 DEF Passed

LEMMA GrantBackCounts ==
    ASSUME NEW r, Books(r), NEW fromApp, ~fromApp => DOMAIN r.s.neighbors # {}, NEW t, t = GrantTokenBack(r, fromApp)
    PROVE  /\ Same(r, t) /\ t.s.waiting = r.s.waiting
           /\ Tokens(t.s.neighbors) = Tokens(r.s.neighbors)
           /\ Gains(t.out, Paid) = Gains(r.out, Paid) + Counted(~fromApp)
           /\ \A q : "TOKEN" \notin q.types => Gains(t.out, q) = Gains(r.out, q)
           /\ \A c, f, D : Good(c, f, D, r) => Good(c, f, D, t)
<1>1. CASE fromApp
  <2>1. t = r
    BY <1>1 DEF GrantTokenBack
  <2>2. Gains(r.out, Paid) \in Nat
    BY BooksAreNumbers
  <2>3. Gains(t.out, Paid) = Gains(r.out, Paid) + Counted(~fromApp)
    <3>1. Counted(~fromApp) = 0
      BY <1>1 DEF Counted
    <3> QED BY <2>1, <2>2, <3>1
  <2>4. Same(r, t)
    BY <2>1, SameIsReflexive
  <2> QED BY <2>1, <2>3, <2>4
<1>2. CASE ~fromApp
  <2>1. t = GrantToken(r)
    BY <1>2 DEF GrantTokenBack
  <2>2. Counted(~fromApp) = 1
    BY <1>2 DEF Counted
  <2> QED BY <1>2, <2>1, <2>2, GrantCounts
<1> QED BY <1>1, <1>2

LEMMA SendOnCounts ==
    ASSUME NEW r, Books(r), NEW m, Mail(m), NEW fromApp, NEW to \in DOMAIN r.s.neighbors,
           r.s.neighbors[to].received # 0, NEW t, t = SendOn(r, m, to, fromApp)
    PROVE  Passed(r, t, m, fromApp) /\ t.told = r.told
<1>p. PICK u, v, k : /\ u = TokenUsed(r, to) /\ v = GrantTokenBack(u, fromApp)
                     /\ k = [m EXCEPT !.hops = @ - 1, !.src = r.n, !.degree = r.s.degree]
  OBVIOUS
<1>1. t = Send(v, to, k)
  BY <1>p DEF SendOn
<1>2. /\ Same(r, u) /\ u.out = r.out /\ u.s.waiting = r.s.waiting
      /\ Tokens(u.s.neighbors) + 1 = Tokens(r.s.neighbors)
      /\ \A c, f, D : Good(c, f, D, r) => Good(c, f, D, u)
  <2>p. PICK e : e = [r.s.neighbors[to] EXCEPT !.received = @ - 1]
    OBVIOUS
  <2>i. IsInfo(r.s.neighbors[to])
    BY InfosOf
  <2>1. IsInfo(e) /\ e.received + 1 = r.s.neighbors[to].received /\ e.received \in Nat
    BY <2>i, <2>p DEF IsInfo, InfoFields
  <2>2. Revised(r, to, e, u)
    BY <1>p, <2>p DEF TokenUsed, Revised
  <2>e. to \in DOMAIN r.s.neighbors /\ Books(r) /\ IsInfo(e)
    BY <2>1
  <2>3. /\ Same(r, u) /\ u.out = r.out /\ u.s.waiting = r.s.waiting
        /\ Tokens(u.s.neighbors) + r.s.neighbors[to].received = Tokens(r.s.neighbors) + e.received
        /\ \A c, f, D : Good(c, f, D, r) => Good(c, f, D, u)
    BY <2>e, <2>2, NeighborCounts
  <2>4. Tokens(r.s.neighbors) \in Nat /\ Tokens(u.s.neighbors) \in Nat
    BY <2>3, BooksAreNumbers DEF Same
  <2>5. Tokens(u.s.neighbors) + 1 = Tokens(r.s.neighbors)
    BY <2>1, <2>3, <2>4
  <2> QED BY <2>3, <2>5
<1>3. Books(u) /\ u.n = r.n /\ DOMAIN u.s.neighbors = DOMAIN r.s.neighbors
  BY <1>2 DEF Same, Calm, Alike
<1>4. /\ Same(u, v) /\ v.s.waiting = u.s.waiting /\ Tokens(v.s.neighbors) = Tokens(u.s.neighbors)
      /\ Gains(v.out, Paid) = Gains(u.out, Paid) + Counted(~fromApp)
      /\ \A q : "TOKEN" \notin q.types => Gains(v.out, q) = Gains(u.out, q)
      /\ \A c, f, D : Good(c, f, D, u) => Good(c, f, D, v)
  BY <1>3, <1>p, GrantBackCounts
<1>5. Books(v) /\ v.n = r.n /\ to \in DOMAIN v.s.neighbors
  BY <1>3, <1>4 DEF Same, Calm, Alike
<1>6. /\ k = [x \in MessageFields |-> k[x]] /\ k.type = m.type /\ k.id = m.id /\ k.dest = m.dest
      /\ k.responses = m.responses /\ k.path = m.path /\ k.found = m.found
  BY <1>p DEF Mail, MessageFields
<1>7. Mail(k) /\ IsMessage(k)
  BY <1>6 DEF Mail, IsMessage
<1>8. /\ PacketOK(k) /\ k.type \notin Says /\ Meets(k, Paid)
      /\ \A id \in Ids : Meets(k, Walks(id)) <=> id = m.id
      /\ \A q : q.types = {"ANSWER"} => ~Meets(k, q)
  BY <1>6, <1>7, MailIsOK
<1>9. /\ Same(v, t) /\ t.s = v.s
      /\ \A q : Gains(t.out, q) = Gains(v.out, q) + Counted(Meets(k, q))
      /\ \A c, f, D : Good(c, f, D, v) /\ Fine(c, f, D, v.n, to, k) => Good(c, f, D, t)
  BY <1>1, <1>5, <1>8, SentCounts
<1>10. Same(r, t)
  BY <1>2, <1>4, <1>9, SameIsTransitive
<1>11. /\ Gains(r.out, Paid) \in Nat /\ Tokens(r.s.neighbors) \in Nat /\ Tokens(u.s.neighbors) \in Nat
       /\ Unpaid(r.s) \in Nat /\ \A q : Gains(r.out, q) \in Nat /\ \A id : Waiting(r.s, id) \in Nat
  BY <1>3, BooksAreNumbers
<1>12. Credit(t) = Credit(r) + Counted(~fromApp)
  <2>1. Gains(t.out, Paid) = Gains(r.out, Paid) + Counted(~fromApp) + 1
    BY <1>2, <1>4, <1>8, <1>9 DEF Counted
  <2>2. Tokens(t.s.neighbors) + 1 = Tokens(r.s.neighbors) /\ Unpaid(t.s) = Unpaid(r.s)
    BY <1>2, <1>4, <1>9 DEF Unpaid
  <2>3. Counted(~fromApp) \in Nat /\ Tokens(t.s.neighbors) \in Nat
    BY <1>4, <1>9, <1>11 DEF Counted
  <2> QED BY <1>11, <2>1, <2>2, <2>3 DEF Credit
<1>13. ASSUME NEW id \in Ids
       PROVE  Walkers(t, id) + Counted(id = m.id /\ t.told # r.told) <= Walkers(r, id) + Counted(id = m.id)
  <2>1. "TOKEN" \notin Walks(id).types
    BY DEF Walks
  <2>2. Gains(t.out, Walks(id)) = Gains(r.out, Walks(id)) + Counted(id = m.id)
    BY <1>2, <1>4, <1>8, <1>9, <2>1 DEF Counted
  <2>3. Waiting(t.s, id) = Waiting(r.s, id) /\ t.told = r.told
    BY <1>2, <1>4, <1>9, <1>10 DEF Waiting, Same
  <2> QED BY <1>11, <2>2, <2>3 DEF Walkers, Counted
<1>14. ASSUME NEW q, q.types = {"ANSWER"}
       PROVE  Gains(t.out, q) = Gains(r.out, q)
  <2>1. "TOKEN" \notin q.types
    BY <1>14
  <2>2. Gains(t.out, q) = Gains(r.out, q) + 0
    BY <1>2, <1>4, <1>8, <1>9, <1>14, <2>1 DEF Counted
  <2> QED BY <1>11, <2>2
<1>15. ASSUME NEW c, NEW f, NEW D, Good(c, f, D, r), Carried(c, f, D, r.n, m)
       PROVE  Good(c, f, D, t)
  <2>1. Carried(c, f, D, r.n, k)
    BY <1>6, <1>7, <1>15 DEF Carried
  <2>2. Fine(c, f, D, v.n, to, k)
    BY <1>5, <1>7, <1>8, <2>1 DEF Fine, IsMessage
  <2> QED BY <1>2, <1>4, <1>9, <1>15, <2>2
<1> QED BY <1>10, <1>12, <1>13, <1>14, <1>15 DEF Passed, Same

\* One element more, or not.
LEMMA OneElement ==
    ASSUME NEW S, IsFiniteSet(S), NEW x, x \notin S, NEW b, NEW T, T = IF b THEN S \cup {x} ELSE S
    PROVE  Cardinality(T) = Cardinality(S) + Counted(b) /\ Cardinality(S) \in Nat /\ IsFiniteSet(T)
<1>1. Cardinality(S) \in Nat
  BY FS_CardinalityType
<1>2. CASE b
  <2>1. T = S \cup {x}
    BY <1>2
  <2>2. IsFiniteSet(S \cup {x}) /\ Cardinality(S \cup {x}) = Cardinality(S) + 1
    BY FS_AddElement
  <2>3. Counted(b) = 1
    BY <1>2 DEF Counted
  <2> QED BY <1>1, <2>1, <2>2, <2>3
<1>3. CASE ~b
  <2>1. T = S
    BY <1>3
  <2>2. Counted(b) = 0
    BY <1>3 DEF Counted
  <2> QED BY <1>1, <2>1, <2>2
<1> QED BY <1>2, <1>3

\* A message waits for a token.
LEMMA WaitsCounts ==
    ASSUME NEW r, Books(r), NEW m, Mail(m), Waiting(r.s, m.id) = 0, NEW fromApp, NEW t, t = Waits(r, m, fromApp)
    PROVE  Passed(r, t, m, fromApp) /\ t.told = r.told
<1>p. PICK w, s : w = [msg |-> m, fromApp |-> fromApp] /\ s = [r.s EXCEPT !.waiting = @ \cup {w}]
  OBVIOUS
<1>1. w.msg = m /\ (w.fromApp <=> fromApp) /\ t = [r EXCEPT !.s = s]
  BY <1>p DEF Waits
<1>2. /\ s = [x \in NodeFields |-> s[x]] /\ s.state = r.s.state /\ s.neighbors = r.s.neighbors
      /\ s.degree = r.s.degree /\ s.neighCand = r.s.neighCand /\ s.knownNodes = r.s.knownNodes
      /\ s.waiting = r.s.waiting \cup {w}
  BY <1>p DEF Books, WorkOK, StateOK, NodeFields
<1>3. IsFiniteSet(r.s.waiting) /\ \A v \in r.s.waiting : MessageOK(v.msg)
  BY DEF Books, WorkOK, StateOK
<1>4. IsFiniteSet(s.waiting) /\ \A v \in s.waiting : MessageOK(v.msg)
  <2>1. IsFiniteSet(r.s.waiting \cup {w})
    BY <1>3, FS_AddElement
  <2> QED BY <1>1, <1>2, <1>3, <2>1, MailIsOK
<1>5. Same(r, t) /\ t.s = s /\ t.out = r.out /\ Tokens(t.s.neighbors) = Tokens(r.s.neighbors)
  BY <1>1, <1>2, <1>4, StateCounts
<1>6. w \notin r.s.waiting
  <2>1. {v \in r.s.waiting : v.msg.id = m.id} \subseteq r.s.waiting
    OBVIOUS
  <2>2. {v \in r.s.waiting : v.msg.id = m.id} = {}
    BY <1>3, <2>1, FS_Subset, FS_EmptySet DEF Waiting
  <2> QED BY <1>1, <2>2
<1>7. Unpaid(t.s) = Unpaid(r.s) + Counted(~fromApp) /\ Unpaid(r.s) \in Nat
  <2>p. PICK A, B : A = {v \in r.s.waiting : ~v.fromApp} /\ B = {v \in s.waiting : ~v.fromApp}
    OBVIOUS
  <2>1. w \notin A /\ B = IF ~fromApp THEN A \cup {w} ELSE A
    BY <1>1, <1>2, <1>6, <2>p
  <2>2. IsFiniteSet(A)
    BY <1>3, <2>p, FS_Subset
  <2>3. Cardinality(B) = Cardinality(A) + Counted(~fromApp) /\ Cardinality(A) \in Nat
    BY <2>1, <2>2, OneElement
  <2> QED BY <1>5, <2>3, <2>p DEF Unpaid
<1>8. ASSUME NEW id \in Ids
      PROVE  Waiting(t.s, id) = Waiting(r.s, id) + Counted(id = m.id) /\ Waiting(r.s, id) \in Nat
  <2>p. PICK A, B : A = {v \in r.s.waiting : v.msg.id = id} /\ B = {v \in s.waiting : v.msg.id = id}
    OBVIOUS
  <2>1. w \notin A /\ B = IF id = m.id THEN A \cup {w} ELSE A
    BY <1>1, <1>2, <1>6, <2>p
  <2>2. IsFiniteSet(A)
    BY <1>3, <2>p, FS_Subset
  <2>3. Cardinality(B) = Cardinality(A) + Counted(id = m.id) /\ Cardinality(A) \in Nat
    <3>b. PICK b : b = (id = m.id)
      OBVIOUS
    <3>1. B = IF b THEN A \cup {w} ELSE A
      BY <2>1, <3>b
    <3>2. Cardinality(B) = Cardinality(A) + Counted(b) /\ Cardinality(A) \in Nat
      BY <2>1, <2>2, <3>1, OneElement
    <3> QED BY <3>2, <3>b
  <2> QED BY <1>5, <2>3, <2>p DEF Waiting
<1>9. Credit(t) = Credit(r) + Counted(~fromApp)
  <2>1. Tokens(r.s.neighbors) \in Nat /\ Gains(r.out, Paid) \in Nat /\ Counted(~fromApp) \in Nat
    BY BooksAreNumbers DEF Counted
  <2>2. Gains(t.out, Paid) = Gains(r.out, Paid)
    BY <1>5
  <2> QED BY <1>5, <1>7, <2>1, <2>2 DEF Credit
<1>10. ASSUME NEW id \in Ids
       PROVE  Walkers(t, id) + Counted(id = m.id /\ t.told # r.told) <= Walkers(r, id) + Counted(id = m.id)
  <2>1. Gains(t.out, Walks(id)) = Gains(r.out, Walks(id)) /\ Gains(r.out, Walks(id)) \in Nat
    BY <1>5, BooksAreNumbers
  <2>2. Counted(id = m.id /\ t.told # r.told) = 0 /\ Counted(id = m.id) \in Nat
    BY <1>5 DEF Counted, Same
  <2> QED BY <1>8, <2>1, <2>2 DEF Walkers
<1>11. ASSUME NEW c, NEW f, NEW D, Good(c, f, D, r), Carried(c, f, D, r.n, m)
       PROVE  Good(c, f, D, t)
  <2>1. t.n = r.n /\ t.s.neighbors = r.s.neighbors /\ t.s.waiting = r.s.waiting \cup {w}
    BY <1>2, <1>5 DEF Same, Calm
  <2> QED BY <1>1, <1>5, <1>11, <2>1 DEF Good
<1> QED BY <1>5, <1>9, <1>10, <1>11 DEF Passed, Same

\* A message with no token of its own ends: a neighbor is granted one for it, if it came from one.
LEMMA EndCounts ==
    ASSUME NEW r, Books(r), NEW m, Mail(m), NEW fromApp, ~fromApp => DOMAIN r.s.neighbors # {},
           NEW u, u = GrantTokenBack(r, fromApp), NEW t,
           t = u \/ (m.dest = r.n /\ t = Deliver(u, m.id, {r.n}))
    PROVE  Passed(r, t, m, fromApp)
<1>1. /\ Same(r, u) /\ u.s.waiting = r.s.waiting /\ Tokens(u.s.neighbors) = Tokens(r.s.neighbors)
      /\ Gains(u.out, Paid) = Gains(r.out, Paid) + Counted(~fromApp)
      /\ \A q : "TOKEN" \notin q.types => Gains(u.out, q) = Gains(r.out, q)
      /\ \A c, f, D : Good(c, f, D, r) => Good(c, f, D, u)
  BY GrantBackCounts
<1>2. /\ Calm(u, t) /\ t.s = u.s /\ t.out = u.out /\ t.found = u.found /\ t.minted = u.minted /\ t.n = u.n
      /\ t.told = u.told \/ (m.dest = r.n /\ t.told = u.told \cup {<<m.id, r.n>>})
  <2>0. WorkOK(u)
    BY <1>1 DEF Same, Books
  <2>1. CASE t = u
    BY <2>0, <2>1, CalmIsReflexive
  <2>2. CASE m.dest = r.n /\ t = Deliver(u, m.id, {r.n})
    <3>p. PICK x : x = u.told \cup {<<m.id, h>> : h \in {r.n}}
      OBVIOUS
    <3>1. t = [u EXCEPT !.told = x]
      BY <2>2, <3>p DEF Deliver
    <3>2. x = u.told \cup {<<m.id, r.n>>}
      BY <3>p
    <3>3. Calm(u, t)
      BY <2>0, <3>1, NotesChanged
    <3> QED BY <2>0, <2>2, <3>1, <3>2, <3>3 DEF WorkOK, WorkFields
  <2> QED BY <2>1, <2>2
<1>3. Calm(r, t) /\ Books(t)
  BY <1>1, <1>2, CalmIsTransitive DEF Same, Books, Calm
<1>4. \A id \in Ids : Walkers(t, id) + Counted(id = m.id /\ t.told # r.told) <= Walkers(r, id) + Counted(id = m.id)
  <2> SUFFICES ASSUME NEW id \in Ids
               PROVE  Walkers(t, id) + Counted(id = m.id /\ t.told # r.told) <= Walkers(r, id) + Counted(id = m.id)
    OBVIOUS
  <2>1. "TOKEN" \notin Walks(id).types
    BY DEF Walks
  <2>2. Gains(t.out, Walks(id)) = Gains(r.out, Walks(id)) /\ Waiting(t.s, id) = Waiting(r.s, id)
    BY <1>1, <1>2, <2>1 DEF Waiting
  <2>3. Gains(r.out, Walks(id)) \in Nat /\ Waiting(r.s, id) \in Nat
    BY BooksAreNumbers
  <2>4. Counted(id = m.id /\ t.told # r.told) <= Counted(id = m.id)
    BY DEF Counted
  <2>5. Counted(id = m.id /\ t.told # r.told) \in Nat /\ Counted(id = m.id) \in Nat
    BY DEF Counted
  <2> QED BY <2>2, <2>3, <2>4, <2>5 DEF Walkers
<1>5. Credit(t) = Credit(r) + Counted(~fromApp)
  <2>1. /\ Tokens(r.s.neighbors) \in Nat /\ Gains(r.out, Paid) \in Nat /\ Counted(~fromApp) \in Nat
        /\ Unpaid(r.s) \in Nat
    BY BooksAreNumbers DEF Counted
  <2>2. Gains(t.out, Paid) = Gains(r.out, Paid) + Counted(~fromApp) /\ Tokens(t.s.neighbors) = Tokens(r.s.neighbors)
    BY <1>1, <1>2
  <2>3. Unpaid(t.s) = Unpaid(r.s)
    BY <1>1, <1>2 DEF Unpaid
  <2> QED BY <2>1, <2>2, <2>3 DEF Credit
<1>6. \A q : q.types = {"ANSWER"} => Gains(t.out, q) = Gains(r.out, q)
  BY <1>1, <1>2
<1>7. \A c, f, D : Good(c, f, D, r) => Good(c, f, D, t)
  BY <1>1, <1>2, ZenonT(30) DEF Good
<1> QED BY <1>1, <1>2, <1>3, <1>4, <1>5, <1>6, <1>7 DEF Passed, Same

\* A message walks on to a neighbor that has granted a token, or waits for one.
LEMMA WalkOnCounts ==
    ASSUME NEW r, Books(r), NEW m, Mail(m), Waiting(r.s, m.id) = 0, NEW fromApp, NEW t, t = WalkOn(r, m, fromApp)
    PROVE  Passed(r, t, m, fromApp)
<1>p. PICK nodes, hop, u : nodes = Remaining(r, m) /\ hop = Max(WithToken(r, nodes)) /\ u = Remembers(r, m)
  OBVIOUS
<1>1. Keeps(r, u) /\ u.s.neighbors = r.s.neighbors /\ Books(u) /\ Waiting(u.s, m.id) = 0
  BY <1>p, RemembersCounts, ZenonT(30) DEF Keeps, Same, Waiting
<1>2. CASE WithToken(r, nodes) = {}
  <2>1. t = Waits(u, m, fromApp)
    BY <1>2, <1>p DEF WalkOn
  <2>2. Passed(u, t, m, fromApp)
    BY <1>1, <2>1, WaitsCounts
  <2> QED BY <1>1, <2>2, PassedAfter
<1>3. CASE WithToken(r, nodes) # {}
  <2>p. PICK ms, v : ms = [u.s.messages EXCEPT ![m.id] = nodes \ {hop}] /\ v = [u EXCEPT !.s.messages = ms]
    OBVIOUS
  <2>1. t = SendOn(v, m, hop, fromApp)
    BY <1>3, <1>p, <2>p DEF WalkOn
  <2>2. Keeps(u, v) /\ v.s.neighbors = u.s.neighbors /\ Books(v)
    <3>1. Keeps(u, [u EXCEPT !.s.messages = ms]) /\ [u EXCEPT !.s.messages = ms].s.neighbors = u.s.neighbors
      BY <1>1, RemembersCounts
    <3> QED BY <2>p, <3>1 DEF Keeps, Same
  <2>3. hop \in WithToken(r, nodes)
    <3>1. WithToken(r, nodes) \in SUBSET DOMAIN r.s.neighbors /\ DOMAIN r.s.neighbors \subseteq Node
      BY <1>p DEF Remaining, WithToken, Books, WorkOK, StateOK, NeighborsOK
    <3> QED BY <1>3, <1>p, <3>1, MaxIsOne
  <2>4. hop \in DOMAIN v.s.neighbors /\ v.s.neighbors[hop].received # 0
    <3>1. hop \in DOMAIN r.s.neighbors /\ r.s.neighbors[hop].received > 0
      BY <1>p, <2>3 DEF Remaining, WithToken
    <3>2. r.s.neighbors[hop].received # 0
      BY <3>1
    <3> QED BY <1>1, <2>2, <3>1, <3>2
  <2>5. Passed(v, t, m, fromApp)
    BY <2>1, <2>2, <2>4, SendOnCounts
  <2>6. Passed(u, t, m, fromApp)
    BY <1>1, <2>2, <2>5, PassedAfter
  <2> QED BY <1>1, <2>6, PassedAfter
<1> QED BY <1>2, <1>3

LEMMA ForwardCounts ==
    ASSUME NEW r, Books(r), NEW m, Mail(m), Waiting(r.s, m.id) = 0, NEW fromApp, ~fromApp => DOMAIN r.s.neighbors # {},
           NEW t, t = Forward(r, m, fromApp)
    PROVE  Passed(r, t, m, fromApp)
<1>p. PICK u : u = GrantTokenBack(r, fromApp)
  OBVIOUS
<1>1. CASE t = u \/ (m.dest = r.n /\ t = Deliver(u, m.id, {r.n}))
  BY <1>1, <1>p, EndCounts
<1>2. CASE m.dest \in DOMAIN r.s.neighbors /\ r.s.neighbors[m.dest].received # 0 /\ t = SendOn(r, m, m.dest, fromApp)
  BY <1>2, SendOnCounts
<1>3. CASE t = Waits(r, m, fromApp)
  BY <1>3, WaitsCounts
<1>4. CASE t = WalkOn(r, m, fromApp)
  BY <1>4, WalkOnCounts
<1> QED BY <1>1, <1>2, <1>3, <1>4, <1>p DEF Forward

(***************************************************************************)
(* The order in which a search finds nodes                                 *)
(***************************************************************************)

LEMMA RanksOf ==
    ASSUME NEW S, IsFiniteSet(S), NEW K, \A x \in S : K[x] \in Nat, \A x, y \in S : K[x] = K[y] => x = y
    PROVE  /\ Cardinality(S) \in Nat
           /\ \A x \in S : Cardinality(Lower(K, S, x)) \in 0 .. Cardinality(S) - 1
           /\ \A x, y \in S : Cardinality(Lower(K, S, x)) = Cardinality(Lower(K, S, y)) => x = y
           /\ \A j \in 0 .. Cardinality(S) - 1 : \E x \in S : Cardinality(Lower(K, S, x)) = j
<1>1. Cardinality(S) \in Nat
  BY FS_CardinalityType
<1>2. ASSUME NEW x \in S
      PROVE  IsFiniteSet(Lower(K, S, x)) /\ Cardinality(Lower(K, S, x)) \in 0 .. Cardinality(S) - 1
  <2>p. PICK L : L = Lower(K, S, x)
    OBVIOUS
  <2>1. L \in SUBSET S /\ x \notin L
    BY <2>p DEF Lower
  <2>2. L # S
    BY <2>1
  <2>3. IsFiniteSet(L) /\ Cardinality(L) <= Cardinality(S) /\ Cardinality(L) # Cardinality(S)
    BY <2>1, <2>2, FS_Subset
  <2>4. Cardinality(L) \in Nat
    BY <2>3, FS_CardinalityType
  <2> QED BY <1>1, <2>3, <2>4, <2>p
<1>3. ASSUME NEW x \in S, NEW y \in S, K[x] < K[y]
      PROVE  Cardinality(Lower(K, S, x)) # Cardinality(Lower(K, S, y))
  <2>p. PICK L, M : L = Lower(K, S, x) /\ M = Lower(K, S, y)
    OBVIOUS
  <2>1. L \in SUBSET M /\ x \notin L /\ x \in M
    <3>1. \A z \in S : K[z] < K[x] => K[z] < K[y]
      BY <1>3
    <3> QED BY <1>3, <2>p, <3>1 DEF Lower
  <2>2. L # M
    BY <2>1
  <2> QED BY <1>2, <2>1, <2>2, <2>p, FS_Subset
<1>4. \A x, y \in S : Cardinality(Lower(K, S, x)) = Cardinality(Lower(K, S, y)) => x = y
  <2> SUFFICES ASSUME NEW x \in S, NEW y \in S, x # y
               PROVE  Cardinality(Lower(K, S, x)) # Cardinality(Lower(K, S, y))
    OBVIOUS
  <2>1. K[x] < K[y] \/ K[y] < K[x]
    <3>1. K[x] # K[y] /\ K[x] \in Nat /\ K[y] \in Nat
      OBVIOUS
    <3> QED BY <3>1
  <2> QED BY <1>3, <2>1
<1>5. \A j \in 0 .. Cardinality(S) - 1 : \E x \in S : Cardinality(Lower(K, S, x)) = j
  <2>p. PICK f, T : f = [x \in S |-> Cardinality(Lower(K, S, x))] /\ T = 0 .. Cardinality(S) - 1
    OBVIOUS
  <2>1. f \in Injection(S, T)
    <3>1. f \in [S -> T]
      BY <1>2, <2>p
    <3>2. \A x, y \in S : f[x] = f[y] => x = y
      BY <1>4, <2>p
    <3> QED BY <3>1, <3>2 DEF Injection, IsInjective
  <2>2. IsFiniteSet(T) /\ Cardinality(T) = Cardinality(S)
    BY <1>1, <2>p, FS_Interval
  <2>3. f \in Surjection(S, T)
    BY <2>1, <2>2, FS_Injection
  <2> QED BY <2>3, <2>p DEF Surjection
<1> QED BY <1>1, <1>2, <1>4, <1>5

LEMMA FoundInOrder ==
    ASSUME NEW r, r.n \in Node, NEW S \in SUBSET Node
    PROVE  /\ IsFiniteSet(S) /\ \A h \in S : Key(r.n)[h] \in Nat
           /\ \A h, k \in S : Key(r.n)[h] = Key(r.n)[k] => h = k
           /\ \A h \in S : FoundBefore(r, h, S) = Cardinality(Lower(Key(r.n), S, h))
<1>1. Node \subseteq Nat /\ \A h \in Node : h # 0
  BY Constants DEF None
<1>2. IsFiniteSet(S)
  BY Constants, FS_Subset
<1>3. \A h \in S : Key(r.n)[h] \in Nat /\ Key(r.n)[h] = IF h = r.n THEN 0 ELSE h
  BY <1>1 DEF Key
<1>4. \A h, k \in S : Key(r.n)[h] = Key(r.n)[k] => h = k
  BY <1>1, <1>3
<1>5. ASSUME NEW m \in S
      PROVE  FoundBefore(r, m, S) = Cardinality(Lower(Key(r.n), S, m))
  <2>1. ASSUME NEW h \in S
        PROVE  (h # m /\ (h = r.n \/ (m # r.n /\ h < m))) <=> Key(r.n)[h] < Key(r.n)[m]
    <3>1. h \in Nat /\ m \in Nat /\ h # 0 /\ m # 0
      BY <1>1
    <3>2. CASE h = r.n
      BY <1>3, <3>1, <3>2
    <3>3. CASE h # r.n
      BY <1>3, <3>1, <3>3
    <3> QED BY <3>2, <3>3
  <2>2. {h \in S \ {m} : h = r.n \/ (m # r.n /\ h < m)} = Lower(Key(r.n), S, m)
    BY <2>1 DEF Lower
  <2> QED BY <2>2 DEF FoundBefore
<1> QED BY <1>2, <1>3, <1>4, <1>5

LEMMA RanksFound ==
    ASSUME NEW r, r.n \in Node, NEW S \in SUBSET Node
    PROVE  /\ IsFiniteSet(S) /\ Cardinality(S) \in Nat
           /\ \A h \in S : FoundBefore(r, h, S) \in 0 .. Cardinality(S) - 1
           /\ \A h, g \in S : FoundBefore(r, h, S) = FoundBefore(r, g, S) => h = g
           /\ \A j \in 0 .. Cardinality(S) - 1 : \E h \in S : FoundBefore(r, h, S) = j
<1>p. PICK K : K = Key(r.n)
  OBVIOUS
<1>1. /\ IsFiniteSet(S) /\ \A h \in S : K[h] \in Nat
      /\ \A h, k \in S : K[h] = K[k] => h = k
      /\ \A h \in S : FoundBefore(r, h, S) = Cardinality(Lower(K, S, h))
  BY <1>p, FoundInOrder
<1>2. /\ Cardinality(S) \in Nat
      /\ \A x \in S : Cardinality(Lower(K, S, x)) \in 0 .. Cardinality(S) - 1
      /\ \A x, y \in S : Cardinality(Lower(K, S, x)) = Cardinality(Lower(K, S, y)) => x = y
      /\ \A j \in 0 .. Cardinality(S) - 1 : \E x \in S : Cardinality(Lower(K, S, x)) = j
  BY <1>1, RanksOf
<1>3. \A j \in 0 .. Cardinality(S) - 1 : \E h \in S : FoundBefore(r, h, S) = j
  BY <1>1, <1>2
<1>4. \A h, g \in S : FoundBefore(r, h, S) = FoundBefore(r, g, S) => h = g
  BY <1>1, <1>2
<1>5. \A h \in S : FoundBefore(r, h, S) \in 0 .. Cardinality(S) - 1
  BY <1>1, <1>2
<1> QED BY <1>1, <1>2, <1>3, <1>4, <1>5

\* The first k of some nodes; and each of them is at one place in the order.
LEMMA FirstOnes ==
    ASSUME NEW r, r.n \in Node, NEW S \in SUBSET Node, NEW k \in Nat,
           NEW T, T = {h \in S : FoundBefore(r, h, S) < k}
    PROVE  IsFiniteSet(T) /\ Cardinality(T) \in Nat /\ Cardinality(T) <= k
<1>p. PICK f, I : f = [h \in T |-> FoundBefore(r, h, S)] /\ I = 0 .. k - 1
  OBVIOUS
<1>1. /\ IsFiniteSet(S) /\ Cardinality(S) \in Nat
      /\ \A h \in S : FoundBefore(r, h, S) \in 0 .. Cardinality(S) - 1
      /\ \A h, g \in S : FoundBefore(r, h, S) = FoundBefore(r, g, S) => h = g
  BY RanksFound
<1>2. f \in Injection(T, I)
  <2>1. \A h \in T : FoundBefore(r, h, S) \in I
    BY <1>1, <1>p
  <2>2. f \in [T -> I]
    BY <1>p, <2>1
  <2>3. \A h, g \in T : f[h] = f[g] => h = g
    BY <1>1, <1>p
  <2> QED BY <2>2, <2>3 DEF Injection, IsInjective
<1>3. IsFiniteSet(I) /\ Cardinality(I) = k
  BY <1>p, FS_Interval
<1>4. IsFiniteSet(T) /\ Cardinality(T) <= k
  BY <1>2, <1>3, FS_Injection
<1> QED BY <1>4, FS_CardinalityType

LEMMA EachOnce ==
    ASSUME NEW r, r.n \in Node, NEW T \in SUBSET Node, NEW s, s = InOrder(r, T)
    PROVE  /\ s \in Seq(T) /\ IsSeq(s) /\ Len(s) = Cardinality(T) /\ Cardinality(T) \in Nat
           /\ \A h \in T : \E i \in 1 .. Len(s) : s[i] = h /\ \A j \in 1 .. Len(s) : s[j] = h => j = i
<1>1. /\ IsFiniteSet(T) /\ Cardinality(T) \in Nat
      /\ \A h \in T : FoundBefore(r, h, T) \in 0 .. Cardinality(T) - 1
      /\ \A h, g \in T : FoundBefore(r, h, T) = FoundBefore(r, g, T) => h = g
      /\ \A j \in 0 .. Cardinality(T) - 1 : \E h \in T : FoundBefore(r, h, T) = j
  BY RanksFound
<1>p. PICK l, f : l = Cardinality(T) /\ f = [h \in T |-> FoundBefore(r, h, T)]
  OBVIOUS
<1>2. s = [i \in 1 .. l |-> CHOOSE h \in T : FoundBefore(r, h, T) = i - 1]
  BY <1>p DEF InOrder
<1>3. ASSUME NEW i \in 1 .. l
      PROVE  s[i] \in T /\ FoundBefore(r, s[i], T) = i - 1
  <2>1. i - 1 \in 0 .. Cardinality(T) - 1
    BY <1>1, <1>p
  <2>2. \E h \in T : FoundBefore(r, h, T) = i - 1
    BY <1>1, <2>1
  <2>3. s[i] = CHOOSE h \in T : FoundBefore(r, h, T) = i - 1
    BY <1>2
  <2> QED BY <2>2, <2>3
<1>4. s \in Seq(T) /\ Len(s) = l
  <2>1. s = [i \in 1 .. l |-> s[i]] /\ l \in Nat
    BY <1>1, <1>2, <1>p
  <2>2. s \in Seq(T)
    BY <1>3, <2>1, IsASeq
  <2> QED BY <2>1, <2>2, LenProperties
<1>5. ASSUME NEW h \in T
      PROVE  \E i \in 1 .. l : s[i] = h /\ \A j \in 1 .. l : s[j] = h => j = i
  <2>1. PICK i : i = FoundBefore(r, h, T) + 1
    OBVIOUS
  <2>2. i \in 1 .. l /\ FoundBefore(r, h, T) = i - 1 /\ l \in Nat
    BY <1>1, <1>p, <2>1
  <2>3. s[i] = h
    BY <1>1, <1>3, <2>2
  <2>4. ASSUME NEW j \in 1 .. l, s[j] = h
        PROVE  j = i
    <3>1. FoundBefore(r, h, T) = j - 1
      BY <1>3, <2>4
    <3> QED BY <1>1, <1>p, <2>2, <3>1
  <2> QED BY <2>2, <2>3, <2>4
<1> QED BY <1>1, <1>4, <1>5, <1>p DEF IsSeq

(***************************************************************************)
(* Answers                                                                 *)
(***************************************************************************)

LEMMA ListsOfOne ==
    ASSUME NEW x
    PROVE  Lists(<<x>>, {x})
<1>1. <<x>> \in Seq({x}) /\ Len(<<x>>) = 1 /\ <<x>>[1] = x
  OBVIOUS
<1>2. 1 \in 1 .. 1 /\ \A j \in 1 .. 1 : j = 1
  OBVIOUS
<1> QED BY <1>1, <1>2 DEF Lists, IsSeq

LEMMA ListedAre ==
    ASSUME NEW s, NEW T, Lists(s, T)
    PROVE  (\A i \in 1 .. Len(s) : s[i] \in T) /\ Range(s) = T
<1>1. /\ \A i \in 1 .. Len(s) : s[i] \in T
      /\ DOMAIN s = 1 .. Len(s)
  BY ElementOfSeq, LenProperties DEF Lists
<1>2. T \subseteq {s[i] : i \in DOMAIN s}
  BY <1>1 DEF Lists
<1> QED BY <1>1, <1>2 DEF Range

LEMMA CountListed ==
    ASSUME NEW s, NEW T, Lists(s, T), NEW id, NEW o, Replies(o, s, id), NEW j \in Ids, NEW h \in Node
    PROVE  Count(o, Answers(j, h)) = Counted(j = id /\ h \in T)
<1>0. j # None /\ h # None
  BY Constants DEF Ids, None
<1>1. Places(o, Answers(j, h)) = {i \in 1 .. Len(s) : j = id /\ s[i] = h}
  BY <1>0 DEF Places, Meets, Answers, Replies
<1>2. CASE j = id /\ h \in T
  <2>1. PICK i \in 1 .. Len(s) : s[i] = h /\ \A k \in 1 .. Len(s) : s[k] = h => k = i
    BY <1>2 DEF Lists
  <2>2. Places(o, Answers(j, h)) = {i}
    BY <1>1, <1>2, <2>1
  <2>3. Cardinality({i}) = 1
    BY FS_Singleton
  <2> QED BY <1>2, <2>2, <2>3 DEF Count, Counted
<1>3. CASE ~(j = id /\ h \in T)
  <2>1. \A i \in 1 .. Len(s) : s[i] \in T
    BY ListedAre
  <2>2. Places(o, Answers(j, h)) = {}
    BY <1>1, <1>3, <2>1
  <2> QED BY <1>3, <2>2, FS_EmptySet DEF Count, Counted
<1> QED BY <1>2, <1>3

LEMMA CountNoneOf ==
    ASSUME NEW o, IsSeq(o), NEW q, \A i \in 1 .. Len(o) : o[i].type \notin q.types
    PROVE  Count(o, q) = 0
<1>1. Places(o, q) = {}
  BY DEF Places, Meets
<1> QED BY <1>1, CountIsNat

\* The first part of a path.
LEMMA WayOfFirst ==
    ASSUME NEW path \in Seq(Node), NEW D, Way(D, path), NEW l \in Nat, l < Len(path), NEW g, g = SubSeq(path, 1, l)
    PROVE  /\ g \in Seq(Node) /\ Len(g) = l /\ Way(D, g)
           /\ g # << >> => g[Len(g)] \in D[path[l + 1]]
<1>1. Len(path) \in Nat /\ \A i \in 1 .. Len(path) : path[i] \in Node
  BY LenProperties, ElementOfSeq
<1>2. g \in Seq(Node) /\ Len(g) = l /\ \A i \in 1 .. l : g[i] = path[i]
  <2>1. g = [i \in 1 .. l |-> path[i]]
    <3>1. SubSeq(path, 1, l) = [i \in 1 .. (1 + l - 1) |-> path[1 + i - 1]]
      BY <1>1, SubSeqProperties
    <3> QED BY <1>1, <3>1
  <2>2. \A i \in 1 .. l : i \in 1 .. Len(path)
    BY <1>1
  <2>3. g \in Seq(Node)
    BY <1>1, <2>1, <2>2, IsASeq
  <2> QED BY <2>1, <2>3, LenProperties
<1>3. Way(D, g)
  BY <1>1, <1>2 DEF Way
<1>4. g # << >> => g[Len(g)] \in D[path[l + 1]]
  <2>1. g # << >> => l # 0
    BY <1>2, EmptySeq
  <2>2. l # 0 => path[l] \in D[path[l + 1]]
    BY <1>1 DEF Way
  <2> QED BY <1>2, <2>1, <2>2
<1> QED BY <1>2, <1>3, <1>4

\* The path without its last node.
LEMMA WayBack ==
    ASSUME NEW path \in Seq(Node), path # << >>, NEW D, Way(D, path)
    PROVE  /\ Len(path) \in Nat \ {0} /\ Last(path) = path[Len(path)] /\ Last(path) \in Node
           /\ Front(path) \in Seq(Node) /\ Way(D, Front(path))
           /\ Front(path) # << >> => Front(path)[Len(Front(path))] \in D[Last(path)]
<1>1. Len(path) \in Nat /\ Len(path) # 0 /\ \A i \in 1 .. Len(path) : path[i] \in Node
  BY EmptySeq, LenProperties, ElementOfSeq
<1>p. PICK l, g : l = Len(path) - 1 /\ g = Front(path)
  OBVIOUS
<1>2. l \in Nat /\ g = SubSeq(path, 1, l) /\ l < Len(path) /\ l + 1 = Len(path)
  BY <1>1, <1>p DEF Front
<1>3. g \in Seq(Node) /\ Way(D, g) /\ (g # << >> => g[Len(g)] \in D[path[l + 1]])
  BY <1>2, WayOfFirst
<1>4. Last(path) = path[Len(path)]
  BY DEF Last
<1>5. path[Len(path)] \in Node /\ path[l + 1] = path[Len(path)]
  BY <1>1, <1>2
<1>6. Front(path) # << >> => Front(path)[Len(Front(path))] \in D[Last(path)]
  BY <1>3, <1>4, <1>5, <1>p
<1> QED BY <1>1, <1>3, <1>4, <1>5, <1>6, <1>p

\* A path that leads to a node is one node longer there.
LEMMA ReversedLeads ==
    ASSUME NEW n \in Node, NEW path \in Seq(Node), NEW D, Way(D, path), path # << >> => path[Len(path)] \in D[n],
           NEW p, p = Reversed(n, path)
    PROVE  p \in Seq(Node) /\ p # << >> /\ Way(D, p) /\ p[Len(p)] = n
<1>1. ASSUME NEW s \in Seq(Node), Way(D, s), s # << >> => s[Len(s)] \in D[n], p = Append(s, n)
      PROVE  p \in Seq(Node) /\ p # << >> /\ Way(D, p) /\ p[Len(p)] = n
  <2>1. /\ Len(s) \in Nat /\ p \in Seq(Node) /\ Len(p) = Len(s) + 1 /\ p[Len(s) + 1] = n
        /\ \A i \in 1 .. Len(s) : p[i] = s[i]
    BY <1>1, AppendProperties, LenProperties
  <2>2. p # << >>
    BY <2>1, EmptySeq
  <2>3. ASSUME NEW i \in 1 .. Len(p) - 1
        PROVE  p[i] \in D[p[i + 1]]
    <3>1. CASE i < Len(s)
      <4>1. i \in 1 .. Len(s) - 1 /\ i \in 1 .. Len(s) /\ i + 1 \in 1 .. Len(s)
        BY <2>1, <3>1
      <4> QED BY <1>1, <2>1, <4>1 DEF Way
    <3>2. CASE ~(i < Len(s))
      <4>1. i = Len(s) /\ i \in 1 .. Len(s) /\ Len(s) # 0
        BY <2>1, <3>2
      <4>2. s # << >>
        BY <4>1, EmptySeq
      <4> QED BY <1>1, <2>1, <4>1, <4>2
    <3> QED BY <3>1, <3>2
  <2> QED BY <2>1, <2>2, <2>3 DEF Way
<1>2. CASE config.cut /\ Before(n, path) # {}
  <2>p. PICK k : k = Min(Before(n, path))
    OBVIOUS
  <2>1. Len(path) \in Nat /\ DOMAIN path = 1 .. Len(path)
    BY LenProperties
  <2>2. Before(n, path) \in SUBSET Nat
    BY <2>1 DEF Before
  <2>3. k \in Before(n, path)
    <3>1. PICK B : B = Before(n, path)
      OBVIOUS
    <3>2. \E x \in B : \A y \in B : x <= y
      BY <1>2, <2>2, <3>1, Least
    <3> QED BY <2>p, <3>1, <3>2 DEF Min
  <2>4. k \in 1 .. Len(path) /\ path[k] = n
    BY <2>1, <2>3 DEF Before
  <2>q. PICK l, s : l = k - 1 /\ s = SubSeq(path, 1, l)
    OBVIOUS
  <2>5. l \in Nat /\ l < Len(path) /\ k = l + 1
    BY <2>1, <2>4, <2>q
  <2>6. s \in Seq(Node) /\ Way(D, s) /\ (s # << >> => s[Len(s)] \in D[n])
    BY <2>4, <2>5, <2>q, WayOfFirst
  <2>7. p = Append(s, n)
    BY <1>2, <2>p, <2>q DEF Reversed
  <2> QED BY <1>1, <2>6, <2>7
<1>3. CASE ~(config.cut /\ Before(n, path) # {})
  <2>1. p = Append(path, n)
    BY <1>3 DEF Reversed
  <2> QED BY <1>1, <2>1
<1> QED BY <1>2, <1>3

LEMMA PairsAre ==
    ASSUME NEW id, NEW T, NEW j, NEW h
    PROVE  <<j, h>> \in Pairs(id, T) <=> j = id /\ h \in T
BY DEF Pairs

LEMMA AnswerIs ==
    ASSUME NEW id, NEW h, NEW path, NEW a, a = Answer(id, h, path)
    PROVE  a.type = "ANSWER" /\ a.id = id /\ a.found = h /\ a.path = Front(path)
BY DEF Answer

LEMMA AnswersCounts ==
    ASSUME NEW r, Books(r), r.told = {}, NEW id \in Ids, NEW T \in SUBSET Node, NEW found, Lists(found, T),
           NEW path \in Seq(Node), path # << >> => path[Len(path)] \in DOMAIN r.s.neighbors,
           NEW t, t = ForwardAnswers(r, id, found, path)
    PROVE  /\ Forwarded(r, t, id, T)
           /\ \A c, f, D : Good(c, f, D, r) /\ c[id].dest = None /\ Way(D, path) => Good(c, f, D, t)
<1>1. WorkOK(r) /\ Parcels(r.out) /\ \A q : Gains(r.out, q) \in Nat
  BY BooksAreNumbers DEF Books
<1>2. CASE path = << >>
  <2>p. PICK x : x = Pairs(id, Range(found))
    OBVIOUS
  <2>1. t = [r EXCEPT !.told = x] /\ x = Pairs(id, T)
    BY <1>2, <2>p, ListedAre DEF ForwardAnswers, Deliver, Pairs
  <2>2. Calm(r, t)
    <3>1. Calm(r, [r EXCEPT !.told = x])
      BY <1>1, NotesChanged
    <3> QED BY <2>1, <3>1
  <2>3. /\ t.s = r.s /\ t.found = r.found /\ t.minted = r.minted /\ t.told = Pairs(id, T)
        /\ t.out = r.out /\ t.n = r.n
    BY <1>1, <2>1 DEF WorkOK, WorkFields
  <2>4. ASSUME NEW j \in Ids, NEW h \in Node
        PROVE  Gains(t.out, Answers(j, h)) + Counted(<<j, h>> \in t.told)
                   = Gains(r.out, Answers(j, h)) + Counted(j = id /\ h \in T)
    <3>1. <<j, h>> \in t.told <=> j = id /\ h \in T
      BY <2>3, PairsAre
    <3> QED BY <2>3, <3>1 DEF Counted
  <2>5. Books(t)
    BY <2>2, <2>3 DEF Books, Calm
  <2>6. \A c, f, D : Good(c, f, D, r) => Good(c, f, D, t)
    BY <2>3 DEF Good
  <2>7. Forwarded(r, t, id, T)
    BY <2>2, <2>3, <2>4, <2>5 DEF Forwarded
  <2> QED BY <2>6, <2>7
<1>3. CASE path # << >>
  <2>0. Last(path) = path[Len(path)]
    BY DEF Last
  <2>p. PICK to, o : to = Last(path) /\ o = [i \in 1 .. Len(found) |-> Answer(id, found[i], path)]
    OBVIOUS
  <2>1. to \in DOMAIN r.s.neighbors /\ to \in Node
    BY <1>1, <1>3, <2>0, <2>p DEF WorkOK, StateOK, NeighborsOK
  <2>2. IsSeq(o) /\ Len(o) = Len(found) /\ \A i \in 1 .. Len(found) : o[i] = Answer(id, found[i], path)
    <3>1. Len(found) \in Nat
      BY DEF Lists
    <3>2. PICK A : A = {Answer(id, found[i], path) : i \in 1 .. Len(found)}
      OBVIOUS
    <3>3. o \in Seq(A)
      BY <2>p, <3>1, <3>2, IsASeq
    <3> QED BY <2>p, <3>1, <3>3, LenProperties DEF IsSeq
  <2>3. t = [r EXCEPT !.out = [r.out EXCEPT ![to] = r.out[to] \o o]]
    BY <1>3, <2>1, <2>p DEF ForwardAnswers
  <2>4. /\ t.s = r.s /\ t.found = r.found /\ t.minted = r.minted /\ t.told = {} /\ t.n = r.n
        /\ t.out[to] = r.out[to] \o o /\ \A k \in Node \ {to} : t.out[k] = r.out[k]
    BY <1>1, <2>1, <2>3, ZenonT(30) DEF WorkOK, WorkFields
  <2>5. Calm(r, t) /\ Books(t)
    <3>1. Calm(r, t)
      BY <1>1, ForwardAnswersIsCalm DEF Lists
    <3> QED BY <2>4, <3>1 DEF Books, Calm
  <2>6. \A q : Gains(t.out, q) = Gains(r.out, q) + Count(o, q)
    <3>p. PICK after, out : after = t.out /\ out = r.out
      OBVIOUS
    <3>1. /\ Parcels(out) /\ IsSeq(o) /\ after[to] = out[to] \o o
          /\ \A k \in Node \ {to} : after[k] = out[k]
      BY <1>1, <2>2, <2>4, <3>p
    <3>2. ASSUME NEW q
          PROVE  Gains(after, q) = Gains(out, q) + Count(o, q)
      BY <2>1, <3>1, GainsMore
    <3> QED BY <3>2, <3>p
  <2>a. \A i \in 1 .. Len(found) : o[i].type = "ANSWER" /\ o[i].id = id /\ o[i].found = found[i]
    <3> SUFFICES ASSUME NEW i \in 1 .. Len(found)
                 PROVE  o[i].type = "ANSWER" /\ o[i].id = id /\ o[i].found = found[i]
      OBVIOUS
    <3>1. PICK h, a : h = found[i] /\ a = o[i]
      OBVIOUS
    <3>2. a = Answer(id, h, path)
      BY <2>2, <3>1
    <3> QED BY <3>1, <3>2, AnswerIs
  <2>7. ASSUME NEW q, "ANSWER" \notin q.types
        PROVE  Gains(t.out, q) = Gains(r.out, q)
    <3>1. \A i \in 1 .. Len(o) : o[i].type \notin q.types
      BY <2>2, <2>7, <2>a
    <3>2. Count(o, q) = 0
      BY <2>2, <3>1, CountNoneOf
    <3> QED BY <1>1, <2>6, <3>2
  <2>8. ASSUME NEW j \in Ids, NEW h \in Node
        PROVE  Gains(t.out, Answers(j, h)) + Counted(<<j, h>> \in t.told)
                   = Gains(r.out, Answers(j, h)) + Counted(j = id /\ h \in T)
    <3>2. Count(o, Answers(j, h)) = Counted(j = id /\ h \in T)
      <4>1. Lists(found, T) /\ Replies(o, found, id)
        BY <2>2, <2>a DEF Replies
      <4> QED BY <4>1, CountListed
    <3>3. Counted(<<j, h>> \in t.told) = 0
      BY <2>4 DEF Counted
    <3>4. Gains(t.out, Answers(j, h)) = Gains(r.out, Answers(j, h)) + Counted(j = id /\ h \in T)
      BY <2>6, <3>2
    <3>5. Gains(r.out, Answers(j, h)) \in Nat /\ Counted(j = id /\ h \in T) \in Nat
      BY <1>1 DEF Counted
    <3> QED BY <3>3, <3>4, <3>5
  <2>9. Forwarded(r, t, id, T)
    BY <2>4, <2>5, <2>7, <2>8 DEF Forwarded
  <2>10. ASSUME NEW c, NEW f, NEW D, Good(c, f, D, r), c[id].dest = None, Way(D, path)
         PROVE  Good(c, f, D, t)
    <3>1. ASSUME NEW k \in Node, NEW i \in 1 .. Len(t.out[k])
          PROVE  k \in DOMAIN t.s.neighbors /\ Fine(c, f, D, t.n, k, t.out[k][i])
      <4>1. CASE k # to
        <5>1. t.out[k] = r.out[k] /\ i \in 1 .. Len(r.out[k])
          BY <2>4, <3>1, <4>1
        <5> QED BY <2>4, <2>10, <5>1 DEF Good
      <4>2. CASE k = to
        <5>1. IsSeq(r.out[to])
          BY <1>1, <2>1 DEF Parcels
        <5>2. /\ Len(r.out[to]) \in Nat /\ Len(t.out[to]) = Len(r.out[to]) + Len(o) /\ Len(o) \in Nat
              /\ \A j \in 1 .. Len(r.out[to]) : t.out[to][j] = r.out[to][j]
              /\ \A j \in 1 .. Len(o) : t.out[to][Len(r.out[to]) + j] = o[j]
          <6>1. PICK s, u : s = r.out[to] /\ u = s \o o
            OBVIOUS
          <6>2. IsSeq(s) /\ IsSeq(o) /\ t.out[to] = u
            BY <2>2, <2>4, <5>1, <6>1
          <6>3. /\ Len(s) \in Nat /\ Len(u) = Len(s) + Len(o) /\ Len(o) \in Nat
                /\ \A j \in 1 .. Len(s) : u[j] = s[j]
                /\ \A j \in 1 .. Len(o) : u[Len(s) + j] = o[j]
            BY <6>1, <6>2, Sequences
          <6> QED BY <6>1, <6>2, <6>3
        <5>3. CASE i \in 1 .. Len(r.out[to])
          BY <2>1, <2>4, <2>10, <4>2, <5>2, <5>3 DEF Good
        <5>4. CASE i \notin 1 .. Len(r.out[to])
          <6>1. PICK j : j = i - Len(r.out[to])
            OBVIOUS
          <6>2. j \in 1 .. Len(o) /\ i = Len(r.out[to]) + j
            BY <4>2, <5>2, <5>4, <6>1
          <6>3. t.out[k][i] = Answer(id, found[j], path) /\ j \in 1 .. Len(found)
            BY <2>2, <4>2, <5>2, <6>2
          <6>4. found[j] \in Node
            BY <6>3, ListedAre
          <6>5. /\ Front(path) \in Seq(Node) /\ Way(D, Front(path))
                /\ Front(path) # << >> => Front(path)[Len(Front(path))] \in D[to]
            BY <1>3, <2>10, <2>p, WayBack
          <6>6. Fine(c, f, D, t.n, k, Answer(id, found[j], path))
            <7>p. PICK a : a = Answer(id, found[j], path)
              OBVIOUS
            <7>1. a.type = "ANSWER" /\ a.id = id /\ a.found = found[j] /\ a.path = Front(path)
              BY <7>p DEF Answer
            <7> QED BY <2>10, <4>2, <6>4, <6>5, <7>1, <7>p DEF Fine, IsMessage, Says
          <6> QED BY <2>1, <2>4, <4>2, <6>3, <6>6
        <5> QED BY <5>3, <5>4
      <4> QED BY <4>1, <4>2
    <3>2. \A w \in t.s.waiting : Carried(c, f, D, t.n, w.msg)
      BY <2>4, <2>10 DEF Good
    <3> QED BY <3>1, <3>2 DEF Good
  <2> QED BY <2>9, <2>10
<1> QED BY <1>2, <1>3

(***************************************************************************)
(* Searches                                                                *)
(***************************************************************************)

LEMMA DisjointSizes ==
    ASSUME NEW A, NEW B, IsFiniteSet(A), IsFiniteSet(B), A \cap B = {}
    PROVE  /\ IsFiniteSet(A \cup B) /\ Cardinality(A) \in Nat /\ Cardinality(B) \in Nat
           /\ Cardinality(A \cup B) = Cardinality(A) + Cardinality(B)
<1>1. Cardinality(A) \in Nat /\ Cardinality(B) \in Nat
  BY FS_CardinalityType
<1>2. /\ IsFiniteSet(A \cup B)
      /\ Cardinality(A \cup B) = Cardinality(A) + Cardinality(B) - Cardinality(A \cap B)
  BY FS_Union
<1>3. Cardinality(A \cap B) = 0
  BY FS_EmptySet
<1> QED BY <1>1, <1>2, <1>3

LEMMA AnsweredCounts ==
    ASSUME NEW r, Books(r), r.n \in Node, r.told = {}, r.found = {}, NEW c, NEW f, NEW D, NEW m,
           Arrived(c, f, D, r.n, m), D[r.n] = DOMAIN r.s.neighbors, NEW t, t = Answered(r, m).r,
           NEW k, k = Answered(r, m).m
    PROVE  /\ Finds(c, f, r, m, t, k)
           /\ \A g : Good(c, g, D, r) => Good(c, g, D, t)
<1>p. PICK new, T : new = Holders(r) \ m.found /\ T = {h \in new : FoundBefore(r, h, new) < m.responses}
  OBVIOUS
<1>q. PICK s, u : s = InOrder(r, T) /\ u = ForwardAnswers(r, m.id, s, m.path)
  OBVIOUS
<1>1. /\ m.id \in Ids /\ m.responses \in Nat /\ m.found = FoundFor(f, m.id) /\ m.path \in Seq(Node) /\ Way(D, m.path)
      /\ m.path # << >> => m.path[Len(m.path)] \in DOMAIN r.s.neighbors
      /\ c[m.id].dest = None /\ m.responses + Cardinality(m.found) = c[m.id].responses
  BY DEF Arrived, Mail
<1>2. new \in SUBSET Node
  BY <1>p DEF Holders, Books, WorkOK, StateOK, NeighborsOK
<1>3. T \in SUBSET Node /\ T \subseteq new
  BY <1>2, <1>p
<1>4. IsFiniteSet(T) /\ Cardinality(T) \in Nat /\ Cardinality(T) <= m.responses
  <2>1. PICK l : l = m.responses
    OBVIOUS
  <2>2. l \in Nat /\ T = {h \in new : FoundBefore(r, h, new) < l}
    BY <1>1, <1>p, <2>1
  <2> HIDE <1>p
  <2> QED BY <1>2, <2>1, <2>2, FirstOnes
<1>5. Lists(s, T)
  BY <1>3, <1>q, EachOnce DEF Lists
<1>6. /\ Forwarded(r, u, m.id, T)
      /\ \A g : Good(c, g, D, r) => Good(c, g, D, u)
  <2>p. PICK id, path : id = m.id /\ path = m.path
    OBVIOUS
  <2>1. /\ id \in Ids /\ path \in Seq(Node) /\ (path # << >> => path[Len(path)] \in DOMAIN r.s.neighbors)
        /\ u = ForwardAnswers(r, id, s, path)
    BY <1>1, <1>q, <2>p
  <2>2. Forwarded(r, u, id, T)
    BY <1>3, <1>5, <2>1, AnswersCounts
  <2>3. \A g : Good(c, g, D, r) /\ c[id].dest = None /\ Way(D, path) => Good(c, g, D, u)
    BY <1>3, <1>5, <2>1, AnswersCounts
  <2> QED BY <1>1, <2>2, <2>3, <2>p
<1>7. /\ t = [u EXCEPT !.found = @ \cup Pairs(m.id, T)]
      /\ k = [m EXCEPT !.found = @ \cup T, !.responses = @ - Cardinality(T)]
  BY <1>p, <1>q DEF Answered, Pairs
<1>8. WorkOK(u) /\ u.found = {}
  BY <1>6 DEF Forwarded, Books
<1>9. /\ t.found = Pairs(m.id, T) /\ t.n = u.n /\ t.s = u.s /\ t.out = u.out /\ t.told = u.told /\ t.minted = u.minted
  BY <1>7, <1>8 DEF WorkOK, WorkFields
<1>10. Calm(u, t)
  <2>p. PICK x : x = u.found \cup Pairs(m.id, T)
    OBVIOUS
  <2>1. Calm(u, [u EXCEPT !.found = x])
    BY <1>8, NotesChanged
  <2>2. t = [u EXCEPT !.found = x]
    BY <1>7, <2>p
  <2> QED BY <2>1, <2>2
<1>11. Calm(r, t) /\ Books(t) /\ t.s = r.s /\ t.minted = r.minted
  BY <1>6, <1>9, <1>10, CalmIsTransitive DEF Forwarded, Books, Calm
<1>12. /\ t.found \subseteq Pairs(m.id, Node) /\ t.found \cap f = {} /\ t.told \subseteq t.found
  <2>1. t.found \subseteq Pairs(m.id, Node) /\ t.told \subseteq t.found
    BY <1>3, <1>6, <1>9 DEF Forwarded, Pairs
  <2>2. \A h \in T : <<m.id, h>> \notin f
    BY <1>1, <1>3, <1>p DEF FoundFor
  <2>3. t.found \cap f = {}
    BY <1>9, <2>2 DEF Pairs
  <2> QED BY <2>1, <2>3
<1>13. \A q : "ANSWER" \notin q.types => Gains(t.out, q) = Gains(r.out, q)
  BY <1>6, <1>9 DEF Forwarded
<1>14. ASSUME NEW j \in Ids, NEW h \in Node
       PROVE  Gains(t.out, Answers(j, h)) + Counted(<<j, h>> \in t.told)
                  = Gains(r.out, Answers(j, h)) + Counted(<<j, h>> \in t.found)
  <2>1. <<j, h>> \in t.found <=> j = m.id /\ h \in T
    BY <1>9, PairsAre
  <2>2. Counted(<<j, h>> \in t.found) = Counted(j = m.id /\ h \in T)
    BY <2>1 DEF Counted
  <2>3. Gains(u.out, Answers(j, h)) + Counted(<<j, h>> \in u.told)
            = Gains(r.out, Answers(j, h)) + Counted(j = m.id /\ h \in T)
    BY <1>6 DEF Forwarded
  <2> QED BY <1>9, <2>2, <2>3
<1>15. /\ Mail(k) /\ k.id = m.id /\ k.type = m.type /\ k.dest = m.dest /\ k.path = m.path
       /\ k.found = m.found \cup T /\ k.responses = m.responses - Cardinality(T)
  <2>1. m = [x \in MessageFields |-> m[x]] /\ IsMessage(m) /\ m.id \in Ids
    BY DEF Arrived, Mail
  <2>2. /\ k = [x \in MessageFields |-> k[x]] /\ k.id = m.id /\ k.type = m.type /\ k.dest = m.dest /\ k.path = m.path
        /\ k.found = m.found \cup T /\ k.responses = m.responses - Cardinality(T)
    BY <1>7, <2>1 DEF MessageFields
  <2> QED BY <2>1, <2>2 DEF Mail, IsMessage
<1>16. k.found = FoundFor(f \cup t.found, m.id)
  <2>1. \A h \in Node : <<m.id, h>> \in f \cup t.found <=> <<m.id, h>> \in f \/ h \in T
    BY <1>9, PairsAre
  <2>2. FoundFor(f \cup t.found, m.id) = FoundFor(f, m.id) \cup T
    BY <1>3, <2>1 DEF FoundFor
  <2> QED BY <1>1, <1>15, <2>2
<1>17. k.responses \in Nat /\ Cardinality(k.found) \in Nat /\ k.responses + Cardinality(k.found) = c[m.id].responses
  <2>1. IsFiniteSet(m.found)
    BY <1>1, Constants, FS_Subset DEF FoundFor
  <2>2. m.found \cap T = {}
    BY <1>3, <1>p
  <2>3. Cardinality(k.found) = Cardinality(m.found) + Cardinality(T) /\ Cardinality(m.found) \in Nat
    BY <1>4, <1>15, <2>1, <2>2, DisjointSizes
  <2> QED BY <1>1, <1>4, <1>15, <2>3
<1>18. \A g : Good(c, g, D, r) => Good(c, g, D, t)
  BY <1>6, <1>9 DEF Good
<1> QED BY <1>11, <1>12, <1>13, <1>14, <1>15, <1>16, <1>17, <1>18 DEF Finds

LEMMA OneAtMost ==
    ASSUME NEW k \in Nat
    PROVE  Min({1, k}) = Counted(k # 0)
<1>1. \E x \in {1, k} : \A y \in {1, k} : x <= y
  <2>1. CASE k = 0
    BY <2>1
  <2>2. CASE k # 0
    BY <2>2
  <2> QED BY <2>1, <2>2
<1>p. PICK x : x = Min({1, k})
  OBVIOUS
<1>2. x \in {1, k} /\ \A y \in {1, k} : x <= y
  BY <1>1, <1>p DEF Min
<1> QED BY <1>2, <1>p DEF Counted

LEMMA NumbersOf ==
    ASSUME NEW r, Books(r)
    PROVE  Credit(r) \in Nat /\ \A id : Walkers(r, id) \in Nat
<1>1. Credit(r) \in Nat
  <2>1. Tokens(r.s.neighbors) \in Nat /\ Gains(r.out, Paid) \in Nat /\ Unpaid(r.s) \in Nat
    BY BooksAreNumbers
  <2> QED BY <2>1 DEF Credit
<1>2. ASSUME NEW id PROVE Walkers(r, id) \in Nat
  <2>1. Gains(r.out, Walks(id)) \in Nat /\ Waiting(r.s, id) \in Nat
    BY BooksAreNumbers
  <2> QED BY <2>1 DEF Walkers
<1> QED BY <1>1, <1>2

\* A search goes on.
LEMMA SearchGoesOn ==
    ASSUME NEW r, NEW c, NEW f, NEW D, NEW m, NEW fromApp, Searching(c, f, D, r, m, fromApp),
           NEW u, NEW a, Finds(c, f, r, m, u, a), a.responses > 0, \A g : Good(c, g, D, r) => Good(c, g, D, u),
           NEW k, k = [a EXCEPT !.path = Reversed(r.n, @)], NEW t, t = Forward(u, k, fromApp)
    PROVE  /\ Processed(c, f, r, t, m, fromApp)
           /\ StaysGood(c, f, D, r, t)
<1>h. /\ Books(r) /\ r.n \in Node /\ r.told = {} /\ r.found = {} /\ r.minted = 0
      /\ Arrived(c, f, D, r.n, m) /\ D[r.n] = DOMAIN r.s.neighbors /\ Waiting(r.s, m.id) = 0
      /\ ~fromApp => DOMAIN r.s.neighbors # {}
  BY DEF Searching
<1>1. /\ Books(u) /\ u.s = r.s /\ u.minted = 0 /\ Calm(r, u) /\ u.n = r.n
      /\ \A q : "ANSWER" \notin q.types => Gains(u.out, q) = Gains(r.out, q)
      /\ Mail(a) /\ a.id = m.id /\ a.type = m.type /\ a.dest = m.dest /\ a.path = m.path
  BY <1>h DEF Finds, Calm
<1>2. /\ k = [x \in MessageFields |-> k[x]] /\ k.id = m.id /\ k.type = "SEARCH" /\ k.dest = None
      /\ k.path = Reversed(r.n, m.path) /\ k.found = a.found /\ k.responses = a.responses
  BY <1>h, <1>1 DEF Mail, MessageFields, Arrived
<1>3. Mail(k) /\ IsMessage(k)
  BY <1>1, <1>2 DEF Mail, IsMessage
<1>4. Waiting(u.s, k.id) = 0
  BY <1>h, <1>1, <1>2
<1>5. Passed(u, t, k, fromApp)
  BY <1>h, <1>1, <1>3, <1>4, ForwardCounts
<1>6. t.told = u.told /\ t.found = u.found /\ t.minted = 0 /\ Calm(u, t) /\ Books(t) /\ t.s.state = r.s.state
  BY <1>h, <1>1, <1>2, <1>5, Constants DEF Passed
<1>7. Calm(r, t)
  BY <1>1, <1>6, CalmIsTransitive
<1>8. Credit(t) = Credit(r) + Counted(~fromApp) + t.minted
  <2>1. Gains(u.out, Paid) = Gains(r.out, Paid)
    BY <1>1 DEF Paid
  <2>2. Credit(u) = Credit(r)
    BY <1>1, <2>1 DEF Credit
  <2>3. Credit(t) = Credit(r) + Counted(~fromApp)
    BY <1>5, <2>2 DEF Passed
  <2>4. Credit(r) + Counted(~fromApp) \in Nat
    BY <1>h, NumbersOf DEF Counted
  <2> QED BY <1>6, <2>3, <2>4
<1>9. ASSUME NEW j \in Ids
      PROVE  Walkers(t, j) <= Walkers(r, j) + Counted(j = m.id)
  <2>1. Gains(u.out, Walks(j)) = Gains(r.out, Walks(j))
    BY <1>1 DEF Walks
  <2>2. Walkers(u, j) = Walkers(r, j)
    BY <1>1, <2>1 DEF Walkers
  <2>p. PICK x, y : x = Counted(j = k.id /\ t.told # u.told) /\ y = Counted(j = m.id)
    OBVIOUS
  <2>3. Walkers(t, j) + x <= Walkers(u, j) + y
    BY <1>2, <1>5, <2>p DEF Passed
  <2>4. x = 0
    BY <1>6, <2>p DEF Counted
  <2>5. Walkers(t, j) \in Nat
    BY <1>6, NumbersOf
  <2> QED BY <2>2, <2>3, <2>4, <2>5, <2>p
<1>10. ASSUME NEW j \in Ids, NEW h \in Node
       PROVE  Gains(t.out, Answers(j, h)) + Counted(<<j, h>> \in t.told)
                  = Gains(r.out, Answers(j, h)) + Counted(<<j, h>> \in t.found)
  <2>1. Gains(t.out, Answers(j, h)) = Gains(u.out, Answers(j, h))
    BY <1>5 DEF Passed, Answers
  <2> QED BY <1>6, <2>1 DEF Finds
<1>11. Cardinality(FoundFor(f \cup t.found, m.id)) <= c[m.id].responses
  <2>1. /\ a.responses \in Nat /\ a.found = FoundFor(f \cup t.found, m.id)
        /\ Cardinality(a.found) \in Nat /\ a.responses + Cardinality(a.found) = c[m.id].responses
    BY <1>6 DEF Finds
  <2> QED BY <2>1
<1>12. Processed(c, f, r, t, m, fromApp)
  <2>1. t.found \subseteq Pairs(m.id, Node) /\ t.found \cap f = {} /\ t.told \subseteq t.found
    BY <1>6 DEF Finds
  <2>2. t.minted = 0
    BY <1>6
  <2> QED BY <1>6, <1>7, <1>8, <1>9, <1>10, <1>11, <2>1, <2>2 DEF Processed
<1>13. ASSUME Good(c, f \cup t.found, D, r)
       PROVE  Good(c, f \cup t.found, D, t)
  <2>1. Good(c, f \cup t.found, D, u)
    BY <1>13
  <2>2. k.path \in Seq(Node) /\ k.path # << >> /\ Way(D, k.path) /\ k.path[Len(k.path)] = r.n
    BY <1>h, <1>2, ReversedLeads DEF Arrived
  <2>3. /\ k.responses \in Nat \ {0} /\ k.found = FoundFor(f \cup t.found, k.id)
        /\ k.responses + Cardinality(k.found) = c[k.id].responses
    <3>1. /\ a.responses \in Nat /\ a.found = FoundFor(f \cup t.found, m.id)
          /\ a.responses + Cardinality(a.found) = c[m.id].responses
      BY <1>6 DEF Finds
    <3>2. a.responses # 0
      BY <3>1
    <3> QED BY <1>2, <3>1, <3>2
  <2>4. k.id \in Ids /\ c[k.id].dest = None /\ c[k.id].origin = None
    BY <1>h, <1>2, <1>3 DEF Arrived, Mail
  <2>5. Carried(c, f \cup t.found, D, r.n, k)
    BY <1>2, <1>3, <2>2, <2>3, <2>4 DEF Carried
  <2> QED BY <1>1, <1>5, <2>1, <2>5 DEF Passed
<1> QED BY <1>12, <1>13 DEF StaysGood

\* A search ends: one token is granted for it.
LEMMA SearchEnds ==
    ASSUME NEW r, NEW c, NEW f, NEW D, NEW m, NEW fromApp, Searching(c, f, D, r, m, fromApp),
           NEW u, NEW a, Finds(c, f, r, m, u, a), \A g : Good(c, g, D, r) => Good(c, g, D, u),
           NEW x, x = IF fromApp THEN Min({1, Size(r.s)}) ELSE 0, NEW v, v = GrantToken(u),
           NEW t, t = [v EXCEPT !.minted = x]
    PROVE  /\ Processed(c, f, r, t, m, fromApp)
           /\ StaysGood(c, f, D, r, t)
<1>h. /\ Books(r) /\ r.n \in Node /\ r.told = {} /\ r.found = {} /\ r.minted = 0
      /\ Arrived(c, f, D, r.n, m) /\ D[r.n] = DOMAIN r.s.neighbors /\ Waiting(r.s, m.id) = 0
      /\ ~fromApp => DOMAIN r.s.neighbors # {}
  BY DEF Searching
<1>1. /\ Books(u) /\ u.s = r.s /\ u.minted = 0 /\ Calm(r, u) /\ u.n = r.n
      /\ \A q : "ANSWER" \notin q.types => Gains(u.out, q) = Gains(r.out, q)
  BY <1>h DEF Finds, Calm
<1>2. /\ Same(u, v) /\ v.s.waiting = r.s.waiting
      /\ Tokens(v.s.neighbors) = Tokens(r.s.neighbors)
      /\ DOMAIN r.s.neighbors # {} => Gains(v.out, Paid) = Gains(u.out, Paid) + 1
      /\ DOMAIN r.s.neighbors = {} => v = u
      /\ \A q : "TOKEN" \notin q.types => Gains(v.out, q) = Gains(u.out, q)
      /\ \A g : Good(c, g, D, u) => Good(c, g, D, v)
  <2>1. /\ Same(u, v) /\ v.s.waiting = u.s.waiting
        /\ Tokens(v.s.neighbors) = Tokens(u.s.neighbors)
        /\ DOMAIN u.s.neighbors # {} => Gains(v.out, Paid) = Gains(u.out, Paid) + 1
        /\ DOMAIN u.s.neighbors = {} => v = u
        /\ \A q : "TOKEN" \notin q.types => Gains(v.out, q) = Gains(u.out, q)
    BY <1>1, GrantCounts
  <2>2. \A g : Good(c, g, D, u) => Good(c, g, D, v)
    BY <1>1, GrantCounts
  <2> QED BY <1>1, <2>1, <2>2
<1>3. WorkOK(v) /\ t = [v EXCEPT !.minted = x]
  BY <1>2 DEF Same, Books
<1>4. /\ t.n = v.n /\ t.s = v.s /\ t.out = v.out /\ t.found = v.found /\ t.told = v.told /\ t.minted = x
  BY <1>3 DEF WorkOK, WorkFields
<1>5. Calm(v, t)
  <2>1. Calm(v, [v EXCEPT !.minted = x])
    BY <1>3, NotesChanged
  <2> QED BY <1>3, <2>1
<1>6. Calm(r, t) /\ Books(t)
  BY <1>1, <1>2, <1>4, <1>5, CalmIsTransitive DEF Same, Books, Calm
<1>7. t.found = u.found /\ t.told = u.told /\ t.s.state = r.s.state
  BY <1>1, <1>2, <1>4 DEF Same
<1>8. x = Counted(fromApp /\ DOMAIN r.s.neighbors # {})
  <2>1. Size(r.s) \in Nat /\ (Size(r.s) = 0 <=> DOMAIN r.s.neighbors = {})
    BY <1>h, SizeIsZero DEF Books, WorkOK
  <2>2. Min({1, Size(r.s)}) = Counted(Size(r.s) # 0)
    BY <2>1, OneAtMost
  <2> QED BY <2>1, <2>2 DEF Counted
<1>9. Credit(t) = Credit(r) + Counted(~fromApp) + t.minted /\ t.minted \in Nat
  <2>1. Gains(u.out, Paid) = Gains(r.out, Paid)
    BY <1>1 DEF Paid
  <2>2. /\ Gains(r.out, Paid) \in Nat /\ Tokens(r.s.neighbors) \in Nat /\ Unpaid(r.s) \in Nat
    BY <1>h, BooksAreNumbers
  <2>3. Gains(t.out, Paid) = Gains(r.out, Paid) + Counted(DOMAIN r.s.neighbors # {})
    <3>1. CASE DOMAIN r.s.neighbors # {}
      BY <1>2, <1>4, <2>1, <3>1 DEF Counted
    <3>2. CASE DOMAIN r.s.neighbors = {}
      BY <1>2, <1>4, <2>1, <2>2, <3>2 DEF Counted
    <3> QED BY <3>1, <3>2
  <2>4. Counted(DOMAIN r.s.neighbors # {}) = Counted(~fromApp) + t.minted
    BY <1>h, <1>4, <1>8 DEF Counted
  <2>5. Counted(~fromApp) \in Nat /\ t.minted \in Nat
    BY <1>4, <1>8 DEF Counted
  <2>6. Tokens(t.s.neighbors) = Tokens(r.s.neighbors) /\ Unpaid(t.s) = Unpaid(r.s)
    BY <1>2, <1>4 DEF Unpaid
  <2> QED BY <2>2, <2>3, <2>4, <2>5, <2>6 DEF Credit
<1>10. ASSUME NEW j \in Ids
       PROVE  Walkers(t, j) <= Walkers(r, j) + Counted(j = m.id)
  <2>1. Gains(u.out, Walks(j)) = Gains(r.out, Walks(j)) /\ Gains(t.out, Walks(j)) = Gains(u.out, Walks(j))
    BY <1>1, <1>2, <1>4 DEF Walks
  <2>2. Walkers(t, j) = Walkers(r, j)
    BY <1>2, <1>4, <2>1 DEF Walkers, Waiting
  <2>3. Walkers(r, j) \in Nat /\ Counted(j = m.id) \in Nat
    BY <1>h, NumbersOf DEF Counted
  <2> QED BY <2>2, <2>3
<1>11. ASSUME NEW j \in Ids, NEW h \in Node
       PROVE  Gains(t.out, Answers(j, h)) + Counted(<<j, h>> \in t.told)
                  = Gains(r.out, Answers(j, h)) + Counted(<<j, h>> \in t.found)
  <2>1. Gains(t.out, Answers(j, h)) = Gains(u.out, Answers(j, h))
    BY <1>2, <1>4 DEF Answers
  <2> QED BY <1>7, <2>1 DEF Finds
<1>12. Cardinality(FoundFor(f \cup t.found, m.id)) <= c[m.id].responses
  <2>1. /\ a.responses \in Nat /\ a.found = FoundFor(f \cup t.found, m.id)
        /\ Cardinality(a.found) \in Nat /\ a.responses + Cardinality(a.found) = c[m.id].responses
    BY <1>7 DEF Finds
  <2> QED BY <2>1
<1>13. Processed(c, f, r, t, m, fromApp)
  <2>1. t.found \subseteq Pairs(m.id, Node) /\ t.found \cap f = {} /\ t.told \subseteq t.found
    BY <1>7 DEF Finds
  <2>2. DOMAIN r.s.neighbors = {} => t.minted = 0
    BY <1>4, <1>8 DEF Counted
  <2> QED BY <1>6, <1>7, <1>9, <1>10, <1>11, <1>12, <2>1, <2>2 DEF Processed
<1>14. ASSUME Good(c, f \cup t.found, D, r)
       PROVE  Good(c, f \cup t.found, D, t)
  <2>1. Good(c, f \cup t.found, D, v)
    BY <1>2, <1>14
  <2> QED BY <1>4, <2>1 DEF Good
<1> QED BY <1>13, <1>14 DEF StaysGood

LEMMA SearchCounts ==
    ASSUME NEW r, NEW c, NEW f, NEW D, NEW m, NEW fromApp, Searching(c, f, D, r, m, fromApp),
           NEW t, t = ProcessSearch(r, m, fromApp)
    PROVE  /\ Processed(c, f, r, t, m, fromApp)
           /\ StaysGood(c, f, D, r, t)
<1>p. PICK u, a : u = Answered(r, m).r /\ a = Answered(r, m).m
  OBVIOUS
<1>1. Finds(c, f, r, m, u, a) /\ \A g : Good(c, g, D, r) => Good(c, g, D, u)
  <2>1. /\ Books(r) /\ r.n \in Node /\ r.told = {} /\ r.found = {}
        /\ Arrived(c, f, D, r.n, m) /\ D[r.n] = DOMAIN r.s.neighbors
    BY DEF Searching
  <2>2. Finds(c, f, r, m, u, a)
    BY <1>p, <2>1, AnsweredCounts
  <2>3. \A g : Good(c, g, D, r) => Good(c, g, D, u)
    BY <1>p, <2>1, AnsweredCounts, SMTT(30)
  <2> QED BY <2>2, <2>3
<1>2. CASE a.responses > 0
  <2>p. PICK k : k = [a EXCEPT !.path = Reversed(r.n, @)]
    OBVIOUS
  <2>1. t = Forward(u, k, fromApp)
    BY <1>2, <1>p, <2>p DEF ProcessSearch
  <2>2. Processed(c, f, r, t, m, fromApp)
    BY <1>1, <1>2, <2>1, <2>p, SearchGoesOn
  <2>3. StaysGood(c, f, D, r, t)
    BY <1>1, <1>2, <2>1, <2>p, SearchGoesOn
  <2> QED BY <2>2, <2>3
<1>3. CASE ~(a.responses > 0)
  <2>p. PICK x, v : x = (IF fromApp THEN Min({1, Size(r.s)}) ELSE 0) /\ v = GrantToken(u)
    OBVIOUS
  <2>1. t = [v EXCEPT !.minted = x]
    BY <1>3, <1>p, <2>p DEF ProcessSearch
  <2>2. Processed(c, f, r, t, m, fromApp)
    BY <1>1, <2>1, <2>p, SearchEnds
  <2>3. StaysGood(c, f, D, r, t)
    BY <1>1, <2>1, <2>p, SearchEnds
  <2> QED BY <2>2, <2>3
<1> QED BY <1>2, <1>3

(***************************************************************************)
(* As long as links stay                                                   *)
(***************************************************************************)

LEMMA StateNumbers ==
    ASSUME NEW n \in Node, NEW s, StateOK(n, s), IsFiniteSet(s.waiting)
    PROVE  /\ Tokens(s.neighbors) \in Nat /\ Unpaid(s) \in Nat /\ Size(s) \in Nat /\ Worth(s) \in Nat
           /\ \A id : Waiting(s, id) \in Nat
<1>1. DOMAIN s.neighbors \subseteq Node /\ \A m \in DOMAIN s.neighbors : s.neighbors[m].received \in Nat
  BY DEF StateOK, NeighborsOK, IsInfo
<1>2. IsFiniteSet(DOMAIN s.neighbors) /\ Size(s) \in Nat
  BY <1>1, Constants, FS_Subset, FS_CardinalityType DEF Size
<1>3. Addable([m \in DOMAIN s.neighbors |-> s.neighbors[m].received])
  BY <1>1, <1>2 DEF Addable
<1>4. Tokens(s.neighbors) \in Nat
  BY <1>3, TotalIsNat DEF Tokens
<1>5. Unpaid(s) \in Nat
  <2>1. {w \in s.waiting : ~w.fromApp} \subseteq s.waiting
    OBVIOUS
  <2> QED BY <2>1, FS_Subset, FS_CardinalityType DEF Unpaid
<1>6. ASSUME NEW id PROVE Waiting(s, id) \in Nat
  <2>1. {w \in s.waiting : w.msg.id = id} \subseteq s.waiting
    OBVIOUS
  <2> QED BY <2>1, FS_Subset, FS_CardinalityType DEF Waiting
<1> QED BY <1>2, <1>4, <1>5, <1>6 DEF Worth

LEMMA SumsAfter ==
    ASSUME NEW nd, NEW ch, NodesFine(nd), NEW rest, Pairwise(rest), NEW r, NEW t, NEW nd2, NEW ch2,
           Becomes(nd, rest, r, t, nd2, ch2)
    PROVE  /\ NodesFine(nd2) /\ DomainsOf(nd2) = DomainsOf(nd) /\ Pairwise(ch2)
           /\ \A n \in Node : DOMAIN nd2[n].neighbors = DOMAIN nd[n].neighbors
           /\ \A q : UnderWay(ch2, q) = UnderWay(rest, q) + Gains(t.out, q)
<1>1. t.n = r.n /\ DOMAIN t.s.neighbors = DOMAIN r.s.neighbors /\ StateOK(r.n, t.s) /\ IsFiniteSet(t.s.waiting)
  BY DEF Becomes, Calm, Alike, Books, WorkOK
<1>2. NodesFine(nd2)
  BY <1>1 DEF NodesFine, Becomes
<1>3. \A n \in Node : DOMAIN nd2[n].neighbors = DOMAIN nd[n].neighbors
  BY <1>1 DEF Becomes
<1>4. DomainsOf(nd2) = DomainsOf(nd)
  BY <1>3 DEF DomainsOf
<1>5. Parcels(t.out)
  BY BooksAreNumbers DEF Becomes
<1>6. ASSUME NEW q
      PROVE  Pairwise(ch2) /\ UnderWay(ch2, q) = UnderWay(rest, q) + Gains(t.out, q)
  <2>p. PICK n, out : n = r.n /\ out = t.out
    OBVIOUS
  <2>1. n \in Node /\ Parcels(out)
    BY <1>5, <2>p DEF Becomes
  <2>2. Adds(rest, n, out, ch2)
    BY <2>p DEF Becomes
  <2>3. Pairwise(ch2) /\ UnderWay(ch2, q) = UnderWay(rest, q) + Gains(out, q)
    BY <2>1, <2>2, UnderWayMore
  <2> QED BY <2>3, <2>p
<1> QED BY <1>2, <1>3, <1>4, <1>6

LEMMA BalanceAdds ==
    ASSUME NEW u \in Nat, NEW v \in Nat, NEW g \in Nat, NEW a \in Nat, NEW b \in Nat, NEW x \in Nat, NEW y \in Nat,
           NEW m \in Nat, NEW k \in Nat, NEW i \in Nat,
           a + u = i + m, b + x = a + y, v + (y + g) = u + x + k
    PROVE  b + (v + g) = i + (m + k)
OBVIOUS

LEMMA BalanceStays ==
    ASSUME NEW nd, NEW ch, NodesFine(nd), Pairwise(ch), NEW rest, Pairwise(rest), NEW r, Books(r), NEW t, NEW nd2, NEW ch2,
           Becomes(nd, rest, r, t, nd2, ch2), NEW minted \in Nat, t.minted \in Nat, Balance(nd, ch, minted),
           UnderWay(rest, Paid) + Credit(t) = UnderWay(ch, Paid) + Credit(r) + t.minted
    PROVE  Balance(nd2, ch2, minted + t.minted)
<1>p. PICK n, F, G, Z, k : /\ n = r.n /\ F = [m \in Node |-> Worth(nd[m])] /\ G = [m \in Node |-> Worth(nd2[m])]
                        /\ Z = [m \in Node |-> Size(nd[m])] /\ k = t.minted
  OBVIOUS
<1>1. /\ NodesFine(nd2) /\ UnderWay(ch2, Paid) = UnderWay(rest, Paid) + Gains(t.out, Paid)
      /\ \A m \in Node : DOMAIN nd2[m].neighbors = DOMAIN nd[m].neighbors
  BY SumsAfter
<1>2. Z = [m \in Node |-> Size(nd2[m])]
  BY <1>1, <1>p DEF Size
<1>3. \A m \in Node : Worth(nd[m]) \in Nat /\ Size(nd[m]) \in Nat /\ Worth(nd2[m]) \in Nat
  BY <1>1, StateNumbers DEF NodesFine
<1>4. Addable(F) /\ Addable(G) /\ Addable(Z) /\ DOMAIN F = Node /\ DOMAIN G = Node
  BY <1>3, <1>p, Constants DEF Addable
<1>5. n \in DOMAIN F /\ \A m \in DOMAIN F \ {n} : G[m] = F[m]
  BY <1>4, <1>p DEF Becomes
<1>6. Total(F) \in Nat /\ Total(G) \in Nat /\ F[n] \in Nat /\ G[n] \in Nat /\ Total(G) + F[n] = Total(F) + G[n]
  BY <1>4, <1>5, TotalChanges
<1>7. Total(Z) \in Nat /\ InitialTokens * Total(Z) \in Nat
  BY <1>4, TotalIsNat, Constants
<1>8. UnderWay(rest, Paid) \in Nat /\ UnderWay(ch, Paid) \in Nat /\ Gains(t.out, Paid) \in Nat
  BY Counting, BooksAreNumbers DEF Becomes
<1>9. Credit(r) = F[n]
  <2>1. Gains(r.out, Paid) = 0 /\ r.s = nd[n] /\ n \in Node
    BY <1>p DEF Becomes
  <2>2. F[n] = Tokens(r.s.neighbors) + Unpaid(r.s)
    BY <1>p, <2>1 DEF Worth
  <2>3. Tokens(r.s.neighbors) \in Nat /\ Unpaid(r.s) \in Nat
    BY BooksAreNumbers
  <2> HIDE DEF Tokens, Unpaid, Gains
  <2> QED BY <2>1, <2>2, <2>3 DEF Credit
<1>10. Credit(t) = G[n] + Gains(t.out, Paid)
  <2>1. nd2[n] = t.s /\ n \in Node /\ Books(t)
    BY <1>p DEF Becomes
  <2>2. G[n] = Tokens(t.s.neighbors) + Unpaid(t.s)
    BY <1>p, <2>1 DEF Worth
  <2>3. Tokens(t.s.neighbors) \in Nat /\ Unpaid(t.s) \in Nat
    BY <2>1, BooksAreNumbers
  <2> QED BY <1>8, <2>2, <2>3 DEF Credit
<1>11. Total(F) + UnderWay(ch, Paid) = InitialTokens * Total(Z) + minted
  BY <1>p DEF Balance
<1>12. Total(G) + (UnderWay(rest, Paid) + Gains(t.out, Paid)) = InitialTokens * Total(Z) + (minted + k)
  <2>p. PICK u, v, g, i : /\ u = UnderWay(ch, Paid) /\ v = UnderWay(rest, Paid)
                          /\ g = Gains(t.out, Paid) /\ i = InitialTokens * Total(Z)
    OBVIOUS
  <2>1. v + (G[n] + g) = u + F[n] + k /\ k \in Nat
    BY <1>9, <1>10, <1>p, <2>p
  <2>2. Total(F) + u = i + minted
    BY <1>11, <2>p
  <2>3. Total(G) + (v + g) = i + (minted + k)
    BY <1>6, <1>7, <1>8, <2>1, <2>2, <2>p, BalanceAdds
  <2> QED BY <2>3, <2>p
<1> QED BY <1>1, <1>2, <1>12, <1>p DEF Balance

LEMMA BesideIsNat ==
    ASSUME NEW c, NEW told, NEW id
    PROVE  Beside(c, told, id) \in Nat
<1>1. Counted(c[id].origin # None) \in Nat
  BY DEF Counted
<1>2. Counted(Reached(c, told, id)) \in Nat
  BY DEF Counted
<1> QED BY <1>1, <1>2 DEF Beside

LEMMA LivesAdd ==
    ASSUME NEW u \in Nat, NEW v \in Nat, NEW g \in Nat, NEW a \in Nat, NEW b \in Nat, NEW x \in Nat, NEW y \in Nat,
           NEW d \in Nat, NEW e \in Nat,
           u + a + d <= 1, b + x = a + y, v + (g + y) + e <= u + x + d
    PROVE  (v + g) + b + e <= 1
OBVIOUS

LEMMA LivesStays ==
    ASSUME NEW nd, NEW ch, NodesFine(nd), Pairwise(ch), NEW rest, Pairwise(rest), NEW r, Books(r), NEW t, NEW nd2, NEW ch2,
           Becomes(nd, rest, r, t, nd2, ch2), NEW id, NEW c, NEW told, NEW c2, NEW told2,
           Lives(c, told, nd, ch, id) <= 1,
           UnderWay(rest, Walks(id)) + Walkers(t, id) + Beside(c2, told2, id)
              <= UnderWay(ch, Walks(id)) + Walkers(r, id) + Beside(c, told, id)
    PROVE  Lives(c2, told2, nd2, ch2, id) <= 1
<1>p. PICK n, F, G, q : /\ n = r.n /\ F = [m \in Node |-> Waiting(nd[m], id)] /\ G = [m \in Node |-> Waiting(nd2[m], id)]
                        /\ q = Walks(id)
  OBVIOUS
<1>1. NodesFine(nd2) /\ UnderWay(ch2, q) = UnderWay(rest, q) + Gains(t.out, q)
  BY SumsAfter
<1>2. \A m \in Node : Waiting(nd[m], id) \in Nat /\ Waiting(nd2[m], id) \in Nat
  BY <1>1, StateNumbers DEF NodesFine
<1>3. Addable(F) /\ Addable(G) /\ DOMAIN F = Node /\ DOMAIN G = Node
  BY <1>2, <1>p, Constants DEF Addable
<1>4. n \in DOMAIN F /\ \A m \in DOMAIN F \ {n} : G[m] = F[m]
  BY <1>3, <1>p DEF Becomes
<1>5. Total(F) \in Nat /\ Total(G) \in Nat /\ F[n] \in Nat /\ G[n] \in Nat /\ Total(G) + F[n] = Total(F) + G[n]
  BY <1>3, <1>4, TotalChanges
<1>6. UnderWay(rest, q) \in Nat /\ UnderWay(ch, q) \in Nat /\ Gains(t.out, q) \in Nat
  BY Counting, BooksAreNumbers DEF Becomes
<1>7. Walkers(r, id) = F[n] /\ Walkers(t, id) = Gains(t.out, q) + G[n]
  <2>1. Gains(r.out, q) = 0 /\ r.s = nd[n] /\ n \in Node /\ nd2[n] = t.s
    BY <1>p DEF Becomes
  <2>2. F[n] = Waiting(r.s, id) /\ G[n] = Waiting(t.s, id)
    BY <1>p, <2>1
  <2> QED BY <1>5, <1>p, <2>1, <2>2 DEF Walkers
<1>8. Beside(c, told, id) \in Nat /\ Beside(c2, told2, id) \in Nat
  BY BesideIsNat
<1>9. (UnderWay(rest, q) + Gains(t.out, q)) + Total(G) + Beside(c2, told2, id) <= 1
  <2>p. PICK u, v, g, d, e : /\ u = UnderWay(ch, q) /\ v = UnderWay(rest, q) /\ g = Gains(t.out, q)
                             /\ d = Beside(c, told, id) /\ e = Beside(c2, told2, id)
    OBVIOUS
  <2>1. v + (g + G[n]) + e <= u + F[n] + d
    BY <1>7, <1>p, <2>p
  <2>2. u + Total(F) + d <= 1
    BY <1>p, <2>p DEF Lives
  <2>3. (v + g) + Total(G) + e <= 1
    BY <1>5, <1>6, <1>8, <2>1, <2>2, <2>p, LivesAdd
  <2> QED BY <2>3, <2>p
<1> QED BY <1>1, <1>9, <1>p DEF Lives

LEMMA LinkingStays ==
    ASSUME NEW nd, NEW ch, Linking(nd, ch), NEW rest, Pairwise(rest), NEW r, NEW t, NEW nd2, NEW ch2,
           Becomes(nd, rest, r, t, nd2, ch2), NEW c, NEW f, NEW told, NEW D, NEW c2,
           Turn(c, f, told, nd, ch, rest, D, r, c2, t)
    PROVE  Linking(nd2, ch2)
<1>p. PICK n : n = r.n
  OBVIOUS
<1>1. /\ NodesFine(nd2) /\ Pairwise(ch2)
      /\ \A m \in Node : DOMAIN nd2[m].neighbors = DOMAIN nd[m].neighbors
  BY SumsAfter DEF Linking
<1>2. /\ n \in Node /\ r.s = nd[n] /\ nd2[n] = t.s /\ \A m \in Node \ {n} : nd2[m] = nd[m]
      /\ DOMAIN t.s.neighbors = DOMAIN r.s.neighbors /\ Books(t)
  BY <1>p DEF Becomes, Calm, Alike
<1>3. \A m \in Node : \A k \in DOMAIN nd2[m].neighbors : m \in DOMAIN nd2[k].neighbors
  <2>1. \A m \in Node : DOMAIN nd[m].neighbors \subseteq Node
    BY DEF Linking, NodesFine, StateOK, NeighborsOK
  <2> QED BY <1>1, <2>1 DEF Linking
<1>4. \A m \in Node : /\ DOMAIN nd2[m].neighbors # {} => nd2[m].state \in {"READY", "CRASH"}
                      /\ DOMAIN nd2[m].neighbors = {} => Unpaid(nd2[m]) = 0
  <2>1. /\ DOMAIN nd2[n].neighbors # {} => nd2[n].state \in {"READY", "CRASH"}
        /\ DOMAIN nd2[n].neighbors = {} => Unpaid(nd2[n]) = 0
    BY <1>2 DEF Turn
  <2>2. ASSUME NEW m \in Node \ {n}
        PROVE  /\ DOMAIN nd2[m].neighbors # {} => nd2[m].state \in {"READY", "CRASH"}
               /\ DOMAIN nd2[m].neighbors = {} => Unpaid(nd2[m]) = 0
    BY <1>2 DEF Linking
  <2> QED BY <2>1, <2>2
<1>5. ASSUME NEW m \in Node, NEW k \in Node, ch2[<<m, k>>] # << >>
      PROVE  k \in DOMAIN nd2[m].neighbors
  <2>1. rest[<<m, k>>] # << >> => k \in DOMAIN nd[m].neighbors
    BY DEF Linking, Turn
  <2>2. CASE m # n
    <3>1. ch2[<<m, k>>] = rest[<<m, k>>]
      BY <1>p, <2>2 DEF Becomes, Adds
    <3> QED BY <1>1, <1>5, <2>1, <3>1
  <2>3. CASE m = n
    <3>p. PICK a, o : a = rest[<<n, k>>] /\ o = t.out[k]
      OBVIOUS
    <3>1. ch2[<<m, k>>] = a \o o
      BY <1>p, <2>3, <3>p DEF Becomes, Adds
    <3>2. IsSeq(a) /\ IsSeq(o)
      BY <1>2, <3>p DEF Pairwise, Books, WorkOK, Packets
    <3>3. a # << >> \/ o # << >>
      <4> SUFFICES ASSUME a = << >>, o = << >> PROVE FALSE
        OBVIOUS
      <4>1. a \o o = << >>
        BY <3>2, Sequences
      <4> QED BY <1>5, <3>1, <4>1
    <3>4. ASSUME o # << >> PROVE k \in DOMAIN nd[n].neighbors
      <4>1. Len(o) \in Nat /\ Len(o) # 0
        BY <3>2, <3>4, Sequences
      <4>2. 1 \in 1 .. Len(o)
        BY <4>1
      <4>3. Good(c2, f \cup t.found, D, t)
        BY DEF Turn
      <4>4. k \in DOMAIN t.s.neighbors
        BY <3>p, <4>2, <4>3 DEF Good
      <4> QED BY <1>2, <4>4
    <3> QED BY <1>1, <1>2, <2>1, <2>3, <3>3, <3>4, <3>p
  <2> QED BY <2>2, <2>3
<1> QED BY <1>1, <1>3, <1>4, <1>5 DEF Linking

LEMMA SoundStays ==
    ASSUME NEW nd, NEW ch, NEW rest, Pairwise(rest), NEW r, NEW t, NEW nd2, NEW ch2,
           Becomes(nd, rest, r, t, nd2, ch2), NEW c, NEW f, NEW told, NEW D, NEW c2,
           Turn(c, f, told, nd, ch, rest, D, r, c2, t), NEW g, g = f \cup t.found
    PROVE  Underway(c2, g, D, ch2) /\ \A m \in Node : WaitsAt(c2, g, D, m, nd2[m])
<1>p. PICK n : n = r.n
  OBVIOUS
<1>1. /\ n \in Node /\ r.s = nd[n] /\ nd2[n] = t.s /\ \A m \in Node \ {n} : nd2[m] = nd[m]
      /\ t.n = n /\ Books(t)
  BY <1>p DEF Becomes, Calm
<1>2. /\ Good(c2, g, D, t) /\ Underway(c2, g, D, rest)
      /\ \A m \in Node \ {n} : WaitsAt(c2, g, D, m, nd[m])
  BY <1>p DEF Turn
<1>3. ASSUME NEW m \in Node, NEW k \in Node, NEW i \in 1 .. Len(ch2[<<m, k>>])
      PROVE  Fine(c2, g, D, m, k, ch2[<<m, k>>][i])
  <2>2. CASE m # n
    <3>1. ch2[<<m, k>>] = rest[<<m, k>>]
      BY <1>p, <2>2 DEF Becomes, Adds
    <3> QED BY <1>2, <1>3, <3>1 DEF Underway
  <2>3. CASE m = n
    <3>p. PICK a, o, b : a = rest[<<n, k>>] /\ o = t.out[k] /\ b = a \o o
      OBVIOUS
    <3>1. ch2[<<m, k>>] = b
      BY <1>p, <2>3, <3>p DEF Becomes, Adds
    <3>2. IsSeq(a) /\ IsSeq(o)
      BY <1>1, <3>p DEF Pairwise, Books, WorkOK, Packets
    <3>3. /\ Len(a) \in Nat /\ Len(o) \in Nat /\ Len(b) = Len(a) + Len(o) /\ \A j \in 1 .. Len(a) : b[j] = a[j]
          /\ \A j \in 1 .. Len(o) : b[Len(a) + j] = o[j]
      <4>1. /\ Len(a) \in Nat /\ Len(o) \in Nat /\ Len(a \o o) = Len(a) + Len(o)
            /\ \A j \in 1 .. Len(a) : (a \o o)[j] = a[j]
            /\ \A j \in 1 .. Len(o) : (a \o o)[Len(a) + j] = o[j]
        BY <3>2, Sequences
      <4> QED BY <3>p, <4>1
    <3>4. CASE i \in 1 .. Len(a)
      <4>1. b[i] = a[i]
        BY <3>3, <3>4
      <4>2. Fine(c2, g, D, n, k, a[i])
        BY <1>1, <1>2, <3>4, <3>p DEF Underway
      <4> QED BY <2>3, <3>1, <4>1, <4>2
    <3>5. CASE i \notin 1 .. Len(a)
      <4>p. PICK j : j = i - Len(a)
        OBVIOUS
      <4>1. j \in 1 .. Len(o) /\ i = Len(a) + j
        BY <1>3, <3>1, <3>3, <3>5, <4>p
      <4>2. b[i] = o[j]
        BY <3>3, <4>1
      <4>3. Fine(c2, g, D, n, k, o[j])
        BY <1>1, <1>2, <3>p, <4>1 DEF Good
      <4> QED BY <2>3, <3>1, <4>2, <4>3
    <3> QED BY <3>4, <3>5
  <2> QED BY <2>2, <2>3
<1>4. ASSUME NEW m \in Node PROVE WaitsAt(c2, g, D, m, nd2[m])
  <2>1. CASE m # n
    BY <1>1, <1>2, <2>1
  <2>2. CASE m = n
    BY <1>1, <1>2, <2>2 DEF Good, WaitsAt
  <2> QED BY <2>1, <2>2
<1> QED BY <1>3, <1>4 DEF Underway

LEMMA SettledStays ==
    ASSUME NEW nd, NEW ch, NodesFine(nd), NEW rest, Pairwise(rest), NEW r, NEW t, NEW nd2, NEW ch2,
           Becomes(nd, rest, r, t, nd2, ch2), NEW c, NEW f, NEW told, NEW D, NEW c2,
           Settled(c, f, told, ch), Turn(c, f, told, nd, ch, rest, D, r, c2, t)
    PROVE  Settled(c2, f \cup t.found, told \cup t.told, ch2)
<1>p. PICK g, u : g = f \cup t.found /\ u = told \cup t.told
  OBVIOUS
<1>1. g \subseteq Ids \X Node /\ u \subseteq Ids \X Node
  BY <1>p DEF Settled, Turn
<1>2. \A id \in Ids : c2[id].origin # None => FoundFor(g, id) = {}
  BY <1>p DEF Turn
<1>3. ASSUME NEW id \in Ids, c2[id].dest = None
      PROVE  /\ Cardinality(FoundFor(g, id)) <= c2[id].responses
             /\ \A h \in Node : UnderWay(ch2, Answers(id, h)) + Counted(<<id, h>> \in u) = Counted(<<id, h>> \in g)
  <2>1. /\ Cardinality(FoundFor(g, id)) <= c2[id].responses
        /\ \A h \in Node : UnderWay(rest, Answers(id, h)) + Gains(t.out, Answers(id, h)) + Counted(<<id, h>> \in u)
                               = Counted(<<id, h>> \in g)
    BY <1>3, <1>p DEF Turn
  <2>2. ASSUME NEW h \in Node
        PROVE  UnderWay(ch2, Answers(id, h)) = UnderWay(rest, Answers(id, h)) + Gains(t.out, Answers(id, h))
    BY SumsAfter
  <2> QED BY <2>1, <2>2
<1> QED BY <1>1, <1>2, <1>3, <1>p DEF Settled

LEMMA SteadyAfter ==
    ASSUME NEW c, NEW nd, NEW ch, NEW f, NEW told, NEW minted, SteadyAt(c, nd, ch, f, told, minted), Pairwise(ch),
           NEW rest, Pairwise(rest), NEW r, Books(r), NEW t, NEW nd2, NEW ch2, Becomes(nd, rest, r, t, nd2, ch2),
           NEW c2, Turn(c, f, told, nd, ch, rest, DomainsOf(nd), r, c2, t)
    PROVE  SteadyAt(c2, nd2, ch2, f \cup t.found, told \cup t.told, minted + t.minted)
<1>p. PICK g, u, D : g = f \cup t.found /\ u = told \cup t.told /\ D = DomainsOf(nd)
  OBVIOUS
<1>1. /\ Linking(nd, ch) /\ NodesFine(nd) /\ minted \in Nat /\ Balance(nd, ch, minted) /\ Settled(c, f, told, ch)
      /\ \A id \in Ids : Lives(c, told, nd, ch, id) <= 1
  BY DEF SteadyAt, Linking
<1>t. Turn(c, f, told, nd, ch, rest, D, r, c2, t)
  BY <1>p
<1>2. /\ t.minted \in Nat /\ UnderWay(rest, Paid) + Credit(t) = UnderWay(ch, Paid) + Credit(r) + t.minted
      /\ \A id \in Ids :
          UnderWay(rest, Walks(id)) + Walkers(t, id) + Beside(c2, u, id)
              <= UnderWay(ch, Walks(id)) + Walkers(r, id) + Beside(c, told, id)
  BY <1>p, <1>t DEF Turn
<1>3. Linking(nd2, ch2)
  BY <1>1, <1>t, LinkingStays
<1>4. DomainsOf(nd2) = D
  BY <1>1, <1>p, SumsAfter
<1>5. Underway(c2, g, D, ch2) /\ \A m \in Node : WaitsAt(c2, g, D, m, nd2[m])
  BY <1>p, <1>t, SoundStays
<1>6. ASSUME NEW id \in Ids PROVE Lives(c2, u, nd2, ch2, id) <= 1
  BY <1>1, <1>2, LivesStays
<1>7. Balance(nd2, ch2, minted + t.minted) /\ minted + t.minted \in Nat
  BY <1>1, <1>2, BalanceStays
<1>8. Settled(c2, g, u, ch2)
  BY <1>1, <1>p, <1>t, SettledStays
<1> QED BY <1>3, <1>4, <1>5, <1>6, <1>7, <1>8, <1>p DEF SteadyAt

LEMMA FinishedHistory ==
    ASSUME NEW t, NEW rest, NEW past, Unaffected(past), Finish(t, rest, past)
    PROVE  /\ history'.found = history.found \cup t.found /\ history'.told = history.told \cup t.told
           /\ history'.twice = (history.twice \/ t.told \cap history.told # {})
           /\ history'.minted = history.minted + t.minted /\ history'.steady = history.steady
<1>1. history' = [past EXCEPT !.found = past.found \cup t.found, !.told = past.told \cup t.told,
                              !.twice = past.twice \/ t.told \cap past.told # {}, !.minted = past.minted + t.minted]
  BY DEF Finish
<1>p. PICK a, b, e, m : /\ a = past.found \cup t.found /\ b = past.told \cup t.told
                        /\ e = (past.twice \/ t.told \cap past.told # {}) /\ m = past.minted + t.minted
  OBVIOUS
<1>2. history' = [past EXCEPT !.found = a, !.told = b, !.twice = e, !.minted = m]
  BY <1>1, <1>p
<1>3. /\ history'.found = a /\ history'.told = b /\ history'.twice = e /\ history'.minted = m
      /\ history'.steady = past.steady
  BY <1>2 DEF Unaffected, HistoryFields
<1> QED BY <1>3, <1>p DEF Unaffected

LEMMA WorkIsEmpty ==
    ASSUME IInv, NEW n \in Node, NEW r, r = Work(n)
    PROVE  /\ WorkOK(r) /\ r.n = n /\ r.s = node[n] /\ r.found = {} /\ r.told = {} /\ r.minted = 0
           /\ \A k \in Node : r.out[k] = << >>
           /\ \A q : Gains(r.out, q) = 0
<1>1. WorkOK(r) /\ r.n = n /\ r.s = node[n] /\ r.found = {} /\ r.told = {} /\ r.minted = 0
  BY Working DEF Work
<1>2. r.out = [to \in Node |-> << >>]
  BY DEF Work
<1>3. ASSUME NEW q PROVE Gains(r.out, q) = 0
  <2>1. IsSeq(<< >>) /\ Count(<< >>, q) = 0
    BY NothingIsSaid, CountIsNat
  <2>2. [k \in Node |-> Count(r.out[k], q)] = [k \in Node |-> 0]
    BY <1>2, <2>1
  <2>3. Total([k \in Node |-> 0]) = 0 * Cardinality(Node) /\ Cardinality(Node) \in Nat
    BY Constants, TotalOfConstants
  <2> QED BY <2>2, <2>3 DEF Gains
<1> QED BY <1>1, <1>2, <1>3

LEMMA SteadyStep ==
    ASSUME IInv, Steady, NEW n \in Node, NEW r, r = Work(n), NEW t, NEW rest, NEW past,
           Unaffected(past), Finish(t, rest, past),
           history.steady =>
              /\ Pairwise(rest) /\ Calm(r, t) /\ Books(t)
              /\ t.told \cap history.told = {}
              /\ config'.requests = config.requests /\ config'.timeouts = config.timeouts
              /\ Turn(config.searches, history.found, history.told, node, channel, rest, DomainsOf(node), r,
                      config'.searches, t)
    PROVE  Steady'
<1>1. /\ history'.found = history.found \cup t.found /\ history'.told = history.told \cup t.told
      /\ history'.twice = (history.twice \/ t.told \cap history.told # {})
      /\ history'.minted = history.minted + t.minted /\ history'.steady = history.steady
  BY FinishedHistory
<1> SUFFICES ASSUME history.steady PROVE Steady'
  BY <1>1 DEF Steady
<1>2. /\ Pairwise(rest) /\ Calm(r, t) /\ Books(t) /\ t.told \cap history.told = {}
      /\ config'.requests = config.requests /\ config'.timeouts = config.timeouts
  OBVIOUS
<1>c. PICK c, nd, ch, f, told, minted, c2, nd2, ch2 :
        /\ c = config.searches /\ nd = node /\ ch = channel /\ f = history.found /\ told = history.told
        /\ minted = history.minted /\ c2 = config'.searches /\ nd2 = node' /\ ch2 = channel'
  OBVIOUS
<1>3. SteadyAt(c, nd, ch, f, told, minted) /\ ~history.twice /\ config.requests = 0 /\ config.timeouts = 0
  BY <1>c DEF Steady
<1>4. Turn(c, f, told, nd, ch, rest, DomainsOf(nd), r, c2, t)
  BY <1>c
<1>5. /\ WorkOK(r) /\ r.n = n /\ r.s = node[n] /\ \A q : Gains(r.out, q) = 0
  BY WorkIsEmpty
<1>6. Books(r) /\ Pairwise(ch)
  BY <1>3, <1>5, <1>c DEF Books, SteadyAt, Linking, NodesFine, IInv, ChannelsOK, Packets, Pairwise
<1>7. Becomes(nd, rest, r, t, nd2, ch2)
  <2>1. t.n = n
    BY <1>2, <1>5 DEF Calm
  <2>2. node' = [node EXCEPT ![n] = t.s]
    BY <2>1 DEF Finish
  <2>3. node'[n] = t.s /\ \A m \in Node \ {n} : node'[m] = node[m]
    BY <2>2 DEF IInv, NodesOK
  <2>4. channel' = [p \in Node \X Node |-> IF p[1] = n THEN rest[p] \o t.out[p[2]] ELSE rest[p]]
    BY <2>1 DEF Finish
  <2>5. Adds(rest, n, t.out, channel')
    BY <2>4 DEF Adds
  <2> QED BY <1>2, <1>5, <1>c, <2>3, <2>5 DEF Becomes
<1>8. SteadyAt(c2, nd2, ch2, f \cup t.found, told \cup t.told, minted + t.minted)
  BY <1>2, <1>3, <1>4, <1>6, <1>7, SteadyAfter
<1>9. SteadyAt(config'.searches, node', channel', history'.found, history'.told, history'.minted)
  BY <1>1, <1>8, <1>c
<1> QED BY <1>1, <1>2, <1>3, <1>9 DEF Steady

\* What is true of a node n at which something happens.
LEMMA Locally ==
    ASSUME IInv, Steady, history.steady, NEW n \in Node, NEW r, r = Work(n)
    PROVE  /\ Books(r) /\ r.n = n /\ r.s = node[n] /\ Pairwise(channel) /\ Linking(node, channel)
           /\ Good(config.searches, history.found, DomainsOf(node), r)
           /\ DomainsOf(node)[n] = DOMAIN r.s.neighbors
           /\ \A id \in Ids : UnderWay(channel, Walks(id)) \in Nat /\ Waiting(r.s, id) \in Nat
                              /\ UnderWay(channel, Walks(id)) + Waiting(r.s, id)
                                 + Beside(config.searches, history.told, id) <= 1
           /\ \A id \in Ids, m \in Node : Waiting(node[m], id) \in Nat
                              /\ UnderWay(channel, Walks(id)) + Waiting(node[m], id)
                                 + Beside(config.searches, history.told, id) <= 1
<1>1. /\ WorkOK(r) /\ r.n = n /\ r.s = node[n] /\ \A k \in Node : r.out[k] = << >>
  BY WorkIsEmpty
<1>2. SteadyAt(config.searches, node, channel, history.found, history.told, history.minted)
  BY DEF Steady
<1>3. Linking(node, channel) /\ NodesFine(node)
  BY <1>2 DEF SteadyAt, Linking
<1>4. Books(r)
  BY <1>1, <1>3 DEF Books, NodesFine
<1>5. Pairwise(channel)
  BY DEF IInv, ChannelsOK, Packets, Pairwise
<1>6. Good(config.searches, history.found, DomainsOf(node), r)
  <2>1. Len(<< >>) = 0 /\ 1 .. 0 = {}
    BY EmptySeq
  <2>2. \A k \in Node : 1 .. Len(r.out[k]) = {}
    BY <1>1, <2>1
  <2>3. WaitsAt(config.searches, history.found, DomainsOf(node), n, node[n])
    BY <1>2 DEF SteadyAt
  <2> QED BY <1>1, <2>2, <2>3 DEF Good, WaitsAt
<1>7. ASSUME NEW id \in Ids, NEW m \in Node
      PROVE  /\ Waiting(node[m], id) \in Nat /\ UnderWay(channel, Walks(id)) \in Nat
             /\ UnderWay(channel, Walks(id)) + Waiting(node[m], id)
                + Beside(config.searches, history.told, id) <= 1
  <2>p. PICK F, q : F = [k \in Node |-> Waiting(node[k], id)] /\ q = Walks(id)
    OBVIOUS
  <2>1. \A k \in Node : Waiting(node[k], id) \in Nat
    BY <1>3, StateNumbers DEF NodesFine
  <2>2. Addable(F) /\ m \in DOMAIN F
    BY <2>1, <2>p, Constants DEF Addable
  <2>3. Total(F) \in Nat /\ F[m] \in Nat /\ F[m] <= Total(F) /\ F[m] = Waiting(node[m], id)
    BY <2>2, <2>p, TotalIsMore
  <2>4. UnderWay(channel, q) \in Nat
    BY <1>5, Counting
  <2>5. UnderWay(channel, q) + Total(F) + Beside(config.searches, history.told, id) <= 1
    BY <1>2, <2>p DEF SteadyAt, Lives
  <2>b. Beside(config.searches, history.told, id) \in Nat
    BY BesideIsNat
  <2> HIDE DEF Beside
  <2>6. UnderWay(channel, q) + F[m] + Beside(config.searches, history.told, id) <= 1
    BY <2>3, <2>4, <2>5, <2>b
  <2> QED BY <2>3, <2>4, <2>6, <2>p
<1>8. DomainsOf(node)[n] = DOMAIN r.s.neighbors
  BY <1>1 DEF DomainsOf
<1> QED BY <1>1, <1>3, <1>4, <1>5, <1>6, <1>7, <1>8

LEMMA RemainsSound ==
    ASSUME NEW ch, NEW rest, Remains(ch, rest)
    PROVE  /\ Pairwise(rest) /\ \A n, k \in Node : rest[<<n, k>>] # << >> => ch[<<n, k>>] # << >>
           /\ \A c, f, D : Underway(c, f, D, ch) => Underway(c, f, D, rest)
<1>1. ASSUME NEW n \in Node, NEW k \in Node
      PROVE  /\ IsSeq(rest[<<n, k>>]) /\ (rest[<<n, k>>] # << >> => ch[<<n, k>>] # << >>)
             /\ \A i \in 1 .. Len(rest[<<n, k>>]) : \E j \in 1 .. Len(ch[<<n, k>>]) : rest[<<n, k>>][i] = ch[<<n, k>>][j]
  <2>p. PICK s, t : s = ch[<<n, k>>] /\ t = rest[<<n, k>>]
    OBVIOUS
  <2>1. IsSeq(s) /\ (t = s \/ (s # << >> /\ t = Tail(s)))
    BY <2>p DEF Remains, Pairwise
  <2>2. CASE t = s
    BY <2>1, <2>2, <2>p
  <2>3. CASE s # << >> /\ t = Tail(s)
    <3>1. /\ Len(s) \in Nat /\ IsSeq(t) /\ Len(t) = Len(s) - 1
          /\ \A i \in 1 .. Len(s) - 1 : t[i] = s[i + 1]
      BY <2>1, <2>3, Sequences
    <3>2. \A i \in 1 .. Len(t) : i + 1 \in 1 .. Len(s) /\ t[i] = s[i + 1]
      BY <3>1
    <3>3. \A i \in 1 .. Len(t) : \E j \in 1 .. Len(s) : t[i] = s[j]
      BY <3>2
    <3> QED BY <2>3, <2>p, <3>1, <3>3
  <2> QED BY <2>1, <2>2, <2>3
<1>2. Pairwise(rest)
  BY <1>1 DEF Pairwise
<1>3. ASSUME NEW c, NEW f, NEW D, Underway(c, f, D, ch)
      PROVE  Underway(c, f, D, rest)
  <2> SUFFICES ASSUME NEW n \in Node, NEW k \in Node, NEW i \in 1 .. Len(rest[<<n, k>>])
               PROVE  Fine(c, f, D, n, k, rest[<<n, k>>][i])
    BY DEF Underway
  <2>1. PICK j \in 1 .. Len(ch[<<n, k>>]) : rest[<<n, k>>][i] = ch[<<n, k>>][j]
    BY <1>1
  <2> QED BY <1>3, <2>1 DEF Underway
<1> QED BY <1>1, <1>2, <1>3

LEMMA QuietTurn ==
    ASSUME NEW c, NEW nd, NEW ch, NEW f, NEW told, NEW minted, SteadyAt(c, nd, ch, f, told, minted),
           NEW rest, Remains(ch, rest), NEW r, Books(r), r.n \in Node, r.s = nd[r.n], \A q : Gains(r.out, q) = 0,
           NEW t, Quiet(c, f, DomainsOf(nd), ch, rest, r, t)
    PROVE  Turn(c, f, told, nd, ch, rest, DomainsOf(nd), r, c, t)
<1>p. PICK D : D = DomainsOf(nd)
  OBVIOUS
<1>1. /\ Linking(nd, ch) /\ Underway(c, f, D, ch) /\ Settled(c, f, told, ch)
      /\ \A n \in Node : WaitsAt(c, f, D, n, nd[n])
  BY <1>p DEF SteadyAt
<1>2. t.found = {} /\ t.told = {} /\ f \cup t.found = f /\ told \cup t.told = told
  BY DEF Quiet
<1>3. /\ DOMAIN r.s.neighbors # {} => t.s.state \in {"READY", "CRASH"}
      /\ t.minted \in Nat /\ t.found \subseteq Ids \X Node /\ t.told \subseteq Ids \X Node
      /\ UnderWay(rest, Paid) + Credit(t) = UnderWay(ch, Paid) + Credit(r) + t.minted
  BY <1>2 DEF Quiet
<1>4. DOMAIN r.s.neighbors = {} => Unpaid(t.s) = 0
  BY <1>1 DEF Quiet, Unpaid, Linking
<1>5. \A n, k \in Node : rest[<<n, k>>] # << >> => ch[<<n, k>>] # << >>
  BY RemainsSound
<1>6. ASSUME NEW id \in Ids
      PROVE  UnderWay(rest, Walks(id)) + Walkers(t, id) + Beside(c, told \cup t.told, id)
              <= UnderWay(ch, Walks(id)) + Walkers(r, id) + Beside(c, told, id)
  <2>1. UnderWay(rest, Walks(id)) = UnderWay(ch, Walks(id)) /\ Gains(t.out, Walks(id)) = 0 /\ Gains(r.out, Walks(id)) = 0
    BY DEF Quiet
  <2>2. Waiting(t.s, id) = Waiting(r.s, id)
    BY DEF Quiet, Waiting
  <2>3. Walkers(t, id) = Walkers(r, id)
    BY <2>1, <2>2 DEF Walkers
  <2>4. UnderWay(ch, Walks(id)) \in Nat /\ Walkers(r, id) \in Nat /\ Beside(c, told, id) \in Nat
    BY Counting, NumbersOf, BesideIsNat DEF Remains
  <2> QED BY <1>2, <2>1, <2>3, <2>4
<1>7. /\ \A id \in Ids : c[id].origin # None => FoundFor(f \cup t.found, id) = {}
      /\ \A id \in Ids : c[id].dest = None => Cardinality(FoundFor(f \cup t.found, id)) <= c[id].responses
  BY <1>1, <1>2 DEF Settled
<1>8. ASSUME NEW id \in Ids, c[id].dest = None, NEW h \in Node
      PROVE  UnderWay(rest, Answers(id, h)) + Gains(t.out, Answers(id, h)) + Counted(<<id, h>> \in told \cup t.told)
                 = Counted(<<id, h>> \in f \cup t.found)
  <2>1. UnderWay(rest, Answers(id, h)) = UnderWay(ch, Answers(id, h)) /\ Gains(t.out, Answers(id, h)) = 0
    BY DEF Quiet
  <2>2. UnderWay(ch, Answers(id, h)) + Counted(<<id, h>> \in told) = Counted(<<id, h>> \in f)
    BY <1>1, <1>8 DEF Settled
  <2>3. UnderWay(ch, Answers(id, h)) \in Nat
    BY Counting DEF Remains
  <2> QED BY <1>2, <2>1, <2>2, <2>3
<1>9. Good(c, f \cup t.found, D, t)
  BY <1>2, <1>p DEF Quiet
<1>10. Underway(c, f \cup t.found, D, rest)
  BY <1>1, <1>2, RemainsSound
<1>11. \A m \in Node \ {r.n} : WaitsAt(c, f \cup t.found, D, m, nd[m])
  BY <1>1, <1>2
<1> QED BY <1>3, <1>4, <1>5, <1>6, <1>7, <1>8, <1>9, <1>10, <1>11, <1>p DEF Turn

LEMMA CarriedApart ==
    ASSUME NEW c, NEW f, NEW c2, NEW g, NEW id, Apart(c, f, c2, g, id), NEW D, NEW n, NEW m,
           Carried(c, f, D, n, m), m.id # id
    PROVE  Carried(c2, g, D, n, m)
BY DEF Carried, Apart

LEMMA OthersSound ==
    ASSUME NEW c, NEW f, NEW c2, NEW g, NEW id \in Ids, Apart(c, f, c2, g, id), NEW D
    PROVE  /\ \A ch : Pairwise(ch) /\ UnderWay(ch, Walks(id)) = 0 /\ Underway(c, f, D, ch) => Underway(c2, g, D, ch)
           /\ \A n, s : IsFiniteSet(s.waiting) /\ Waiting(s, id) = 0 /\ WaitsAt(c, f, D, n, s) => WaitsAt(c2, g, D, n, s)
<1>1. ASSUME NEW ch, Pairwise(ch), UnderWay(ch, Walks(id)) = 0, Underway(c, f, D, ch)
      PROVE  Underway(c2, g, D, ch)
  <2> SUFFICES ASSUME NEW n \in Node, NEW k \in Node, NEW i \in 1 .. Len(ch[<<n, k>>])
               PROVE  Fine(c2, g, D, n, k, ch[<<n, k>>][i])
    BY DEF Underway
  <2>p. PICK m : m = ch[<<n, k>>][i]
    OBVIOUS
  <2>1. ~Meets(m, Walks(id))
    BY <1>1, <2>p, NoneUnderWay
  <2>2. IsMessage(m) => m.id # id
    BY <2>1, Constants DEF Meets, Walks, IsMessage, Ids, None
  <2>3. Fine(c, f, D, n, k, m)
    BY <1>1, <2>p DEF Underway
  <2>4. IsMessage(m) => Carried(c2, g, D, n, m)
    BY <2>2, <2>3, CarriedApart DEF Fine
  <2>5. m.type = "ANSWER" => c2[m.id].dest = c[m.id].dest
    BY <2>3 DEF Fine, Apart
  <2> QED BY <2>3, <2>4, <2>5, <2>p DEF Fine
<1>2. ASSUME NEW n, NEW s, IsFiniteSet(s.waiting), Waiting(s, id) = 0, WaitsAt(c, f, D, n, s)
      PROVE  WaitsAt(c2, g, D, n, s)
  <2>1. IsFiniteSet({w \in s.waiting : w.msg.id = id})
    <3>1. {w \in s.waiting : w.msg.id = id} \subseteq s.waiting
      OBVIOUS
    <3> QED BY <1>2, <3>1, FS_Subset
  <2>2. {w \in s.waiting : w.msg.id = id} = {}
    BY <1>2, <2>1, FS_EmptySet DEF Waiting
  <2>3. \A w \in s.waiting : w.msg.id # id /\ Carried(c, f, D, n, w.msg)
    BY <1>2, <2>2 DEF WaitsAt
  <2> QED BY <2>3, CarriedApart DEF WaitsAt
<1> QED BY <1>1, <1>2

LEMMA TakenIsAlone ==
    ASSUME NEW c, NEW told, NEW ch, NEW rest, Remains(ch, rest), NEW o, NEW r, NEW c2, NEW m, NEW fromApp,
           Taken(c, told, ch, rest, o, r, c2, m, fromApp),
           UnderWay(ch, Walks(m.id)) + Walkers(o, m.id) + Beside(c, told, m.id) <= 1
    PROVE  /\ UnderWay(rest, Walks(m.id)) = 0 /\ Waiting(r.s, m.id) = 0 /\ Beside(c2, told, m.id) = 0
           /\ ~Reached(c2, told, m.id)
<1>p. PICK id : id = m.id
  OBVIOUS
<1>1. UnderWay(rest, Walks(id)) \in Nat /\ Beside(c2, told, id) \in Nat
  BY RemainsSound, Counting, BesideIsNat
<1>2. Books(r) /\ Gains(r.out, Walks(id)) = 0 /\ id \in Ids
  BY <1>p DEF Taken
<1>3. Waiting(r.s, id) \in Nat /\ Walkers(r, id) = Waiting(r.s, id)
  <2>1. Waiting(r.s, id) \in Nat
    BY <1>2, BooksAreNumbers
  <2> QED BY <1>2, <2>1 DEF Walkers
<1>4. UnderWay(rest, Walks(id)) + Walkers(r, id) + Beside(c2, told, id) + 1 <= 1
  <2>1. Counted(id = m.id) = 1
    BY <1>p DEF Counted
  <2>2. UnderWay(rest, Walks(id)) + Walkers(r, id) + Beside(c2, told, id) + 1
             <= UnderWay(ch, Walks(id)) + Walkers(o, id) + Beside(c, told, id)
    BY <1>2, <2>1 DEF Taken
  <2>3. UnderWay(ch, Walks(id)) + Walkers(o, id) + Beside(c, told, id) <= 1
    BY <1>p
  <2>4. UnderWay(ch, Walks(id)) \in Nat /\ Beside(c, told, id) \in Nat
    BY Counting, BesideIsNat DEF Remains
  <2>5. PICK a, b : a = UnderWay(rest, Walks(id)) + Walkers(r, id) + Beside(c2, told, id) + 1
                    /\ b = UnderWay(ch, Walks(id)) + Walkers(o, id) + Beside(c, told, id)
    OBVIOUS
  <2>6. a \in Nat /\ a <= b /\ b <= 1
    BY <1>1, <1>3, <2>2, <2>3, <2>5
  <2> QED BY <1>1, <1>3, <2>2, <2>3, <2>4, <2>5, <2>6
<1>5. UnderWay(rest, Walks(id)) = 0 /\ Waiting(r.s, id) = 0 /\ Beside(c2, told, id) = 0
  BY <1>1, <1>3, <1>4
<1>6. ~Reached(c2, told, id)
  <2>1. Counted(c2[id].origin # None) \in Nat /\ Counted(Reached(c2, told, id)) \in Nat
    BY DEF Counted
  <2>2. Counted(Reached(c2, told, id)) = 0
    BY <1>5, <2>1 DEF Beside
  <2> QED BY <2>2 DEF Counted
<1> QED BY <1>5, <1>6, <1>p

LEMMA OneOrNone ==
    ASSUME NEW b
    PROVE  Counted(b) \in {0, 1}
BY DEF Counted

LEMMA UnionCounts ==
    ASSUME NEW A, NEW B, A \cap B = {}, NEW x
    PROVE  Counted(x \in A \cup B) = Counted(x \in A) + Counted(x \in B)
BY DEF Counted

\* What is told for one id matters to that one only, and not at all if it is a search.
LEMMA ToldBeside ==
    ASSUME NEW c, NEW told, NEW j \in Ids, NEW p, p \subseteq Pairs(j, Node), NEW id \in Ids
    PROVE  /\ id # j => Beside(c, told \cup p, id) = Beside(c, told, id)
           /\ c[j].dest = None => Beside(c, told \cup p, id) = Beside(c, told, id)
           /\ p = {} => Beside(c, told \cup p, id) = Beside(c, told, id)
           /\ Beside(c, told \cup p, id) <= Beside(c, told, id) + 1
<1>1. id # j \/ c[j].dest = None \/ p = {} => (Reached(c, told \cup p, id) <=> Reached(c, told, id))
  <2>1. \A h \in Node : <<id, h>> \in p => id = j
    BY PairsAre
  <2> QED BY <2>1 DEF Reached
<1>2. id # j \/ c[j].dest = None \/ p = {} => Counted(Reached(c, told \cup p, id)) = Counted(Reached(c, told, id))
  BY <1>1 DEF Counted
<1>3. /\ Counted(Reached(c, told \cup p, id)) \in {0, 1} /\ Counted(Reached(c, told, id)) \in {0, 1}
      /\ Counted(c[id].origin # None) \in {0, 1}
  BY OneOrNone
<1> QED BY <1>2, <1>3 DEF Beside

LEMMA SearchBeside ==
    ASSUME NEW c, NEW told, NEW j \in Ids, NEW p, p \subseteq Pairs(j, Node), NEW id \in Ids, c[j].dest = None
    PROVE  Beside(c, told \cup p, id) = Beside(c, told, id)
BY ToldBeside

\* A message that has been taken is forwarded.
LEMMA ForwardTurn ==
    ASSUME NEW c, NEW nd, NEW ch, NEW f, NEW told, NEW minted, SteadyAt(c, nd, ch, f, told, minted),
           NEW rest, Remains(ch, rest), NEW o, Books(o), o.n \in Node, o.s = nd[o.n],
           NEW c2, NEW m, Apart(c, f, c2, f, m.id), NEW r, NEW fromApp, Taken(c, told, ch, rest, o, r, c2, m, fromApp),
           UnderWay(ch, Walks(m.id)) + Walkers(o, m.id) + Beside(c, told, m.id) <= 1,
           NEW D, Underway(c2, f, D, rest), \A k \in Node \ {o.n} : WaitsAt(c2, f, D, k, nd[k]),
           Good(c2, f, D, r), Carried(c2, f, D, r.n, m), NEW t, Passed(r, t, m, fromApp)
    PROVE  Turn(c, f, told, nd, ch, rest, D, o, c2, t) /\ t.told \cap told = {}
<1>p. PICK id : id = m.id
  OBVIOUS
<1>1. /\ Calm(o, r) /\ Books(r) /\ r.s.state = o.s.state /\ r.n = o.n /\ DOMAIN r.s.neighbors = DOMAIN o.s.neighbors
      /\ r.found = {} /\ r.told = {} /\ r.minted = 0 /\ \A q : Gains(r.out, q) = 0
      /\ id \in Ids /\ c2[id].origin = None /\ (DOMAIN r.s.neighbors = {} => fromApp /\ Credit(r) = 0)
  BY <1>p DEF Taken, Calm, Alike
<1>2. /\ Books(t) /\ t.s.state = r.s.state /\ t.found = {} /\ t.minted = 0
      /\ Credit(t) = Credit(r) + Counted(~fromApp)
      /\ \A q : q.types = {"ANSWER"} => Gains(t.out, q) = 0
      /\ t.told = {} \/ (m.dest = r.n /\ t.told = {<<id, r.n>>})
      /\ Good(c2, f, D, t)
  BY <1>1, <1>p DEF Passed
<1>3. Linking(nd, ch) /\ Settled(c, f, told, ch)
  BY DEF SteadyAt
<1>4. f \cup t.found = f /\ t.told \subseteq Pairs(id, Node) /\ t.told \subseteq Ids \X Node
  <2>1. r.n \in Node
    BY <1>1
  <2> QED BY <1>1, <1>2, <2>1 DEF Pairs
<1>5. ~Reached(c2, told, id) /\ Beside(c2, told, id) = 0
  BY <1>p, TakenIsAlone
<1>6. c2[id].dest = None => t.told = {}
  <2>1. m.dest = c2[id].dest
    BY <1>p DEF Carried
  <2> QED BY <1>1, <1>2, <2>1, Constants
<1>7. t.told \cap told = {}
  <2>1. c2[id].dest # None => \A h \in Node : <<id, h>> \notin told
    BY <1>5 DEF Reached
  <2> QED BY <1>1, <1>2, <1>6, <2>1
<1>8. DOMAIN o.s.neighbors # {} => t.s.state \in {"READY", "CRASH"}
  BY <1>1, <1>2, <1>3 DEF Linking
<1>9. DOMAIN o.s.neighbors = {} => Unpaid(t.s) = 0
  <2> SUFFICES ASSUME DOMAIN o.s.neighbors = {} PROVE Unpaid(t.s) = 0
    OBVIOUS
  <2>1. Credit(t) = 0
    <3>1. fromApp /\ Credit(r) = 0
      BY <1>1
    <3> QED BY <1>2, <3>1 DEF Counted
  <2>2. Tokens(t.s.neighbors) \in Nat /\ Gains(t.out, Paid) \in Nat /\ Unpaid(t.s) \in Nat
    BY <1>2, BooksAreNumbers
  <2> QED BY <2>1, <2>2 DEF Credit
<1>10. UnderWay(rest, Paid) + Credit(t) = UnderWay(ch, Paid) + Credit(o) + t.minted
  <2>1. UnderWay(rest, Paid) + Credit(r) + Counted(~fromApp) = UnderWay(ch, Paid) + Credit(o)
    BY DEF Taken
  <2>2. UnderWay(rest, Paid) \in Nat /\ UnderWay(ch, Paid) \in Nat /\ Credit(r) \in Nat /\ Credit(o) \in Nat
    BY <1>1, RemainsSound, Counting, NumbersOf DEF Remains
  <2>3. Counted(~fromApp) \in {0, 1}
    BY OneOrNone
  <2> QED BY <1>2, <2>1, <2>2, <2>3
<1>11. ASSUME NEW j \in Ids
       PROVE  UnderWay(rest, Walks(j)) + Walkers(t, j) + Beside(c2, told \cup t.told, j)
                  <= UnderWay(ch, Walks(j)) + Walkers(o, j) + Beside(c, told, j)
  <2>p. PICK x, y : x = Counted(j = m.id /\ t.told # r.told) /\ y = Counted(j = m.id)
    OBVIOUS
  <2>1. Walkers(t, j) + x <= Walkers(r, j) + y
    BY <2>p DEF Passed
  <2>2. UnderWay(rest, Walks(j)) + Walkers(r, j) + Beside(c2, told, j) + y
             <= UnderWay(ch, Walks(j)) + Walkers(o, j) + Beside(c, told, j)
    BY <2>p DEF Taken
  <2>3. x \in {0, 1} /\ y \in {0, 1} /\ (j = id /\ t.told # {} => x = 1)
    BY <1>1, <1>p, <2>p DEF Counted
  <2>4. Beside(c2, told \cup t.told, j) <= Beside(c2, told, j) + x
    <3>1. CASE j = id /\ t.told # {}
      <4>1. Beside(c2, told \cup t.told, j) <= Beside(c2, told, j) + 1
        BY <1>1, <1>4, ToldBeside
      <4> QED BY <2>3, <3>1, <4>1
    <3>2. CASE ~(j = id /\ t.told # {})
      <4>1. Beside(c2, told, j) \in Nat
        BY BesideIsNat
      <4>2. ASSUME j # id PROVE Beside(c2, told \cup t.told, j) = Beside(c2, told, j)
        <5>1. id \in Ids /\ t.told \subseteq Pairs(id, Node)
          BY <1>1, <1>4
        <5> QED BY <4>2, <5>1, ToldBeside, ZenonT(30)
      <4>3. t.told = {} => told \cup t.told = told
        OBVIOUS
      <4>4. Beside(c2, told \cup t.told, j) = Beside(c2, told, j)
        BY <3>2, <4>2, <4>3
      <4> QED BY <2>3, <4>1, <4>4
    <3> QED BY <3>1, <3>2
  <2>5. /\ UnderWay(rest, Walks(j)) \in Nat /\ UnderWay(ch, Walks(j)) \in Nat
        /\ Walkers(t, j) \in Nat /\ Walkers(r, j) \in Nat /\ Walkers(o, j) \in Nat
        /\ Beside(c2, told \cup t.told, j) \in Nat /\ Beside(c2, told, j) \in Nat /\ Beside(c, told, j) \in Nat
    BY <1>1, <1>2, RemainsSound, Counting, NumbersOf, BesideIsNat DEF Remains
  <2>q. PICK u, a, b, d, e, g : /\ u = UnderWay(rest, Walks(j)) /\ a = Walkers(t, j) /\ b = Walkers(r, j)
                                /\ d = Beside(c2, told \cup t.told, j) /\ e = Beside(c2, told, j)
                                /\ g = UnderWay(ch, Walks(j)) + Walkers(o, j) + Beside(c, told, j)
    OBVIOUS
  <2>6. u \in Nat /\ a \in Nat /\ b \in Nat /\ d \in Nat /\ e \in Nat /\ g \in Nat
    BY <2>5, <2>q
  <2>7. a + x <= b + y /\ u + b + e + y <= g /\ d <= e + x
    BY <2>1, <2>2, <2>4, <2>q
  <2>8. u + a + d <= g
    BY <2>3, <2>6, <2>7
  <2> QED BY <2>8, <2>q
<1>12. /\ \A j \in Ids : c2[j].origin # None => FoundFor(f, j) = {}
       /\ \A j \in Ids : c2[j].dest = None => Cardinality(FoundFor(f, j)) <= c2[j].responses
  <2>1. \A j \in Ids : c2[j].origin # None => j # id /\ c2[j] = c[j]
    BY <1>1, <1>p DEF Apart
  <2> QED BY <1>3, <2>1 DEF Settled, Apart
<1>13. ASSUME NEW j \in Ids, c2[j].dest = None, NEW h \in Node
       PROVE  UnderWay(rest, Answers(j, h)) + Gains(t.out, Answers(j, h)) + Counted(<<j, h>> \in told \cup t.told)
                  = Counted(<<j, h>> \in f)
  <2>1. UnderWay(rest, Answers(j, h)) = UnderWay(ch, Answers(j, h)) /\ Gains(t.out, Answers(j, h)) = 0
    BY <1>2 DEF Taken, Answers
  <2>2. UnderWay(ch, Answers(j, h)) + Counted(<<j, h>> \in told) = Counted(<<j, h>> \in f)
    BY <1>3, <1>13 DEF Settled, Apart
  <2>3. Counted(<<j, h>> \in told \cup t.told) = Counted(<<j, h>> \in told)
    <3>1. <<j, h>> \notin t.told
      BY <1>4, <1>6, <1>13, PairsAre
    <3> QED BY <3>1 DEF Counted
  <2>4. UnderWay(ch, Answers(j, h)) \in Nat /\ Counted(<<j, h>> \in told) \in {0, 1}
    BY Counting, OneOrNone DEF Remains
  <2> QED BY <2>1, <2>2, <2>3, <2>4
<1>14. \A n, k \in Node : rest[<<n, k>>] # << >> => ch[<<n, k>>] # << >>
  BY RemainsSound
<1>15. Turn(c, f, told, nd, ch, rest, D, o, c2, t)
  <2>p. PICK g : g = f \cup t.found
    OBVIOUS
  <2>1. g = f
    BY <1>4, <2>p
  <2>2. /\ \A j \in Ids : c2[j].origin # None => FoundFor(g, j) = {}
        /\ \A j \in Ids : c2[j].dest = None =>
             /\ Cardinality(FoundFor(g, j)) <= c2[j].responses
             /\ \A h \in Node : UnderWay(rest, Answers(j, h)) + Gains(t.out, Answers(j, h))
                                + Counted(<<j, h>> \in told \cup t.told) = Counted(<<j, h>> \in g)
    BY <1>12, <1>13, <2>1
  <2>3. /\ Good(c2, g, D, t) /\ Underway(c2, g, D, rest)
        /\ \A k \in Node \ {o.n} : WaitsAt(c2, g, D, k, nd[k])
    BY <1>2, <2>1
  <2>4. t.minted \in Nat /\ t.found \subseteq Ids \X Node
    BY <1>2
  <2> HIDE DEF Beside
  <2> QED BY <1>4, <1>8, <1>9, <1>10, <1>11, <1>14, <2>2, <2>3, <2>4, <2>p DEF Turn
<1> QED BY <1>7, <1>15

\* A search that has been taken is processed.
LEMMA SearchTurn ==
    ASSUME NEW c, NEW nd, NEW ch, NEW f, NEW told, NEW minted, SteadyAt(c, nd, ch, f, told, minted),
           NEW rest, Remains(ch, rest), NEW o, Books(o), o.n \in Node, o.s = nd[o.n],
           NEW c2, NEW m, NEW r, NEW fromApp, Taken(c, told, ch, rest, o, r, c2, m, fromApp), c2[m.id].dest = None,
           NEW D, NEW t, Processed(c2, f, r, t, m, fromApp), NEW g, g = f \cup t.found, Apart(c, f, c2, g, m.id),
           Underway(c2, g, D, rest), \A k \in Node \ {o.n} : WaitsAt(c2, g, D, k, nd[k]), Good(c2, g, D, t)
    PROVE  Turn(c, f, told, nd, ch, rest, D, o, c2, t) /\ t.told \cap told = {}
<1>p. PICK id : id = m.id
  OBVIOUS
<1>1. /\ Calm(o, r) /\ Books(r) /\ r.s.state = o.s.state /\ r.n = o.n /\ DOMAIN r.s.neighbors = DOMAIN o.s.neighbors
      /\ r.found = {} /\ r.told = {} /\ r.minted = 0 /\ \A q : Gains(r.out, q) = 0
      /\ id \in Ids /\ c2[id].origin = None /\ (DOMAIN r.s.neighbors = {} => fromApp /\ Credit(r) = 0)
  BY <1>p DEF Taken, Calm, Alike
<1>2. /\ Books(t) /\ t.s.state = r.s.state /\ t.minted \in Nat
      /\ Credit(t) = Credit(r) + Counted(~fromApp) + t.minted /\ (DOMAIN r.s.neighbors = {} => t.minted = 0)
      /\ t.found \subseteq Pairs(id, Node) /\ t.found \cap f = {} /\ t.told \subseteq t.found
      /\ Cardinality(FoundFor(g, id)) <= c2[id].responses
  BY <1>p DEF Processed
<1>3. Linking(nd, ch) /\ Settled(c, f, told, ch) /\ c[id].dest = None
  BY <1>1, <1>p DEF SteadyAt, Apart
<1>4. t.told \subseteq Pairs(id, Node) /\ t.found \subseteq Ids \X Node /\ t.told \subseteq Ids \X Node
  BY <1>1, <1>2 DEF Pairs
<1>5. t.told \cap told = {}
  <2> SUFFICES ASSUME NEW x \in t.told, x \in told PROVE FALSE
    OBVIOUS
  <2>1. PICK h \in Node : x = <<id, h>>
    BY <1>4 DEF Pairs
  <2>2. Counted(<<id, h>> \in told) = 1 /\ Counted(<<id, h>> \in f) = 0
    BY <1>2, <2>1 DEF Counted
  <2>3. UnderWay(ch, Answers(id, h)) + Counted(<<id, h>> \in told) = Counted(<<id, h>> \in f)
    BY <1>1, <1>3 DEF Settled
  <2>4. UnderWay(ch, Answers(id, h)) \in Nat
    BY Counting DEF Remains
  <2> QED BY <2>2, <2>3, <2>4
<1>6. DOMAIN o.s.neighbors # {} => t.s.state \in {"READY", "CRASH"}
  BY <1>1, <1>2, <1>3 DEF Linking
<1>7. DOMAIN o.s.neighbors = {} => Unpaid(t.s) = 0
  <2> SUFFICES ASSUME DOMAIN o.s.neighbors = {} PROVE Unpaid(t.s) = 0
    OBVIOUS
  <2>1. Credit(t) = 0
    <3>1. fromApp /\ Credit(r) = 0 /\ t.minted = 0
      BY <1>1, <1>2
    <3> QED BY <1>2, <3>1 DEF Counted
  <2>2. Tokens(t.s.neighbors) \in Nat /\ Gains(t.out, Paid) \in Nat /\ Unpaid(t.s) \in Nat
    BY <1>2, BooksAreNumbers
  <2> QED BY <2>1, <2>2 DEF Credit
<1>8. UnderWay(rest, Paid) + Credit(t) = UnderWay(ch, Paid) + Credit(o) + t.minted
  <2>1. UnderWay(rest, Paid) + Credit(r) + Counted(~fromApp) = UnderWay(ch, Paid) + Credit(o)
    BY DEF Taken
  <2>2. UnderWay(rest, Paid) \in Nat /\ UnderWay(ch, Paid) \in Nat /\ Credit(r) \in Nat /\ Credit(o) \in Nat
    BY <1>1, RemainsSound, Counting, NumbersOf DEF Remains
  <2>3. Counted(~fromApp) \in {0, 1}
    BY OneOrNone
  <2> QED BY <1>2, <2>1, <2>2, <2>3
<1>9. ASSUME NEW j \in Ids
      PROVE  UnderWay(rest, Walks(j)) + Walkers(t, j) + Beside(c2, told \cup t.told, j)
                 <= UnderWay(ch, Walks(j)) + Walkers(o, j) + Beside(c, told, j)
  <2>p. PICK y : y = Counted(j = m.id)
    OBVIOUS
  <2>1. Walkers(t, j) <= Walkers(r, j) + y
    BY <2>p DEF Processed
  <2>2. UnderWay(rest, Walks(j)) + Walkers(r, j) + Beside(c2, told, j) + y
             <= UnderWay(ch, Walks(j)) + Walkers(o, j) + Beside(c, told, j)
    BY <2>p DEF Taken
  <2>3. y \in {0, 1}
    BY <2>p DEF Counted
  <2>4. Beside(c2, told \cup t.told, j) = Beside(c2, told, j)
    <3>1. id \in Ids /\ t.told \subseteq Pairs(id, Node) /\ c2[id].dest = None
      BY <1>1, <1>4, <1>p
    <3> QED BY <3>1, SearchBeside, ZenonT(30)
  <2>5. /\ UnderWay(rest, Walks(j)) \in Nat /\ UnderWay(ch, Walks(j)) \in Nat
        /\ Walkers(t, j) \in Nat /\ Walkers(r, j) \in Nat /\ Walkers(o, j) \in Nat
        /\ Beside(c2, told, j) \in Nat /\ Beside(c, told, j) \in Nat
    BY <1>1, <1>2, RemainsSound, Counting, NumbersOf, BesideIsNat DEF Remains
  <2>q. PICK u, a, b, e, k : /\ u = UnderWay(rest, Walks(j)) /\ a = Walkers(t, j) /\ b = Walkers(r, j)
                             /\ e = Beside(c2, told, j)
                             /\ k = UnderWay(ch, Walks(j)) + Walkers(o, j) + Beside(c, told, j)
    OBVIOUS
  <2>6. u \in Nat /\ a \in Nat /\ b \in Nat /\ e \in Nat /\ k \in Nat
    BY <2>5, <2>q
  <2>7. a <= b + y /\ u + b + e + y <= k
    BY <2>1, <2>2, <2>q
  <2>8. u + a + e <= k
    BY <2>3, <2>6, <2>7
  <2> QED BY <2>4, <2>8, <2>q
<1>10. /\ \A j \in Ids : c2[j].origin # None => FoundFor(g, j) = {}
       /\ \A j \in Ids : c2[j].dest = None => Cardinality(FoundFor(g, j)) <= c2[j].responses
  <2>1. \A j \in Ids \ {id} : c2[j] = c[j] /\ FoundFor(g, j) = FoundFor(f, j)
    BY <1>p DEF Apart
  <2>2. \A j \in Ids \ {id} : /\ c[j].origin # None => FoundFor(f, j) = {}
                              /\ c[j].dest = None => Cardinality(FoundFor(f, j)) <= c[j].responses
    BY <1>3 DEF Settled
  <2> QED BY <1>1, <1>2, <2>1, <2>2
<1>11. ASSUME NEW j \in Ids, c2[j].dest = None, NEW h \in Node
       PROVE  UnderWay(rest, Answers(j, h)) + Gains(t.out, Answers(j, h)) + Counted(<<j, h>> \in told \cup t.told)
                  = Counted(<<j, h>> \in g)
  <2>1. UnderWay(rest, Answers(j, h)) = UnderWay(ch, Answers(j, h))
    BY DEF Taken
  <2>2. UnderWay(ch, Answers(j, h)) + Counted(<<j, h>> \in told) = Counted(<<j, h>> \in f)
    BY <1>3, <1>11 DEF Settled, Apart
  <2>3. Gains(t.out, Answers(j, h)) + Counted(<<j, h>> \in t.told) = Counted(<<j, h>> \in t.found)
    <3>1. /\ Gains(t.out, Answers(j, h)) + Counted(<<j, h>> \in t.told)
               = Gains(r.out, Answers(j, h)) + Counted(<<j, h>> \in t.found)
          /\ Gains(r.out, Answers(j, h)) = 0
      BY <1>1 DEF Processed
    <3>2. Counted(<<j, h>> \in t.found) \in {0, 1}
      BY OneOrNone
    <3> QED BY <3>1, <3>2
  <2>4. /\ Counted(<<j, h>> \in told \cup t.told) = Counted(<<j, h>> \in told) + Counted(<<j, h>> \in t.told)
        /\ Counted(<<j, h>> \in g) = Counted(<<j, h>> \in f) + Counted(<<j, h>> \in t.found)
    <3>1. told \cap t.told = {} /\ f \cap t.found = {}
      BY <1>2, <1>5
    <3> QED BY <3>1, UnionCounts
  <2>5. /\ UnderWay(ch, Answers(j, h)) \in Nat /\ Counted(<<j, h>> \in told) \in {0, 1}
        /\ Counted(<<j, h>> \in f) \in {0, 1} /\ Gains(t.out, Answers(j, h)) \in Nat
        /\ Counted(<<j, h>> \in t.told) \in {0, 1} /\ Counted(<<j, h>> \in t.found) \in {0, 1}
    BY <1>2, Counting, OneOrNone, BooksAreNumbers DEF Remains
  <2>q. PICK a, b, d, e, x, y : /\ a = UnderWay(ch, Answers(j, h)) /\ b = Gains(t.out, Answers(j, h))
                                /\ d = Counted(<<j, h>> \in told) /\ e = Counted(<<j, h>> \in t.told)
                                /\ x = Counted(<<j, h>> \in f) /\ y = Counted(<<j, h>> \in t.found)
    OBVIOUS
  <2>6. a + b + (d + e) = x + y
    BY <2>2, <2>3, <2>5, <2>q
  <2> QED BY <2>1, <2>4, <2>6, <2>q
<1>12. \A n, k \in Node : rest[<<n, k>>] # << >> => ch[<<n, k>>] # << >>
  BY RemainsSound
<1>13. Turn(c, f, told, nd, ch, rest, D, o, c2, t)
  <2>1. \A j \in Ids : c2[j].dest = None =>
             /\ Cardinality(FoundFor(g, j)) <= c2[j].responses
             /\ \A h \in Node : UnderWay(rest, Answers(j, h)) + Gains(t.out, Answers(j, h))
                                + Counted(<<j, h>> \in told \cup t.told) = Counted(<<j, h>> \in g)
    BY <1>10, <1>11
  <2> HIDE DEF Beside
  <2> QED BY <1>2, <1>4, <1>6, <1>7, <1>8, <1>9, <1>10, <1>12, <2>1 DEF Turn
<1> QED BY <1>5, <1>13

\* Each answer is told, or goes on.
LEMMA ForwardedGains ==
    ASSUME NEW o, NEW t, NEW id, NEW T, Forwarded(o, t, id, T), \A q : Gains(o.out, q) = 0,
           NEW j \in Ids, NEW h \in Node, NEW y, y = Counted(j = id /\ h \in T)
    PROVE  Gains(t.out, Answers(j, h)) + Counted(<<j, h>> \in t.told) = y
<1>1. Gains(t.out, Answers(j, h)) + Counted(<<j, h>> \in t.told)
          = Gains(o.out, Answers(j, h)) + Counted(j = id /\ h \in T)
  BY Zenon DEF Forwarded
<1>2. Gains(o.out, Answers(j, h)) = 0
  OBVIOUS
<1>3. Gains(t.out, Answers(j, h)) + Counted(<<j, h>> \in t.told) = 0 + y
  BY <1>1, <1>2, Zenon
<1>4. y \in {0, 1}
  BY DEF Counted
<1> QED BY <1>3, <1>4

LEMMA TellsBeside ==
    ASSUME NEW c, NEW told, NEW id \in Ids, c[id].dest = None, NEW p, p \subseteq Pairs(id, Node)
    PROVE  \A j \in Ids : Beside(c, told \cup p, j) = Beside(c, told, j)
BY SearchBeside, ZenonT(30)

\* It is forwarded, or told.
LEMMA AnswerTurn ==
    ASSUME NEW c, NEW nd, NEW ch, NEW f, NEW told, NEW minted, SteadyAt(c, nd, ch, f, told, minted),
           NEW rest, Remains(ch, rest), NEW o, Books(o), o.n \in Node, o.s = nd[o.n], \A q : Gains(o.out, q) = 0,
           o.found = {}, o.told = {}, o.minted = 0, NEW m, AnswerTaken(c, ch, rest, DomainsOf(nd), o.n, m),
           NEW t, Forwarded(o, t, m.id, {m.found}), Good(c, f, DomainsOf(nd), t)
    PROVE  Turn(c, f, told, nd, ch, rest, DomainsOf(nd), o, c, t) /\ t.told \cap told = {}
<1>p. PICK id, a, T, D : id = m.id /\ a = m.found /\ T = {m.found} /\ D = DomainsOf(nd)
  OBVIOUS
<1>1. /\ UnderWay(rest, Paid) = UnderWay(ch, Paid)
      /\ \A j \in Ids : UnderWay(rest, Walks(j)) = UnderWay(ch, Walks(j))
      /\ \A j \in Ids, h \in Node :
             UnderWay(ch, Answers(j, h)) = UnderWay(rest, Answers(j, h)) + Counted(j = id /\ h \in T)
      /\ id \in Ids /\ a \in Node /\ c[id].dest = None /\ T = {a}
  BY <1>p DEF AnswerTaken
<1>2. /\ Calm(o, t) /\ Books(t) /\ t.s = o.s /\ t.found = {} /\ t.minted = 0
      /\ t.told \subseteq Pairs(id, T)
      /\ \A q : "ANSWER" \notin q.types => Gains(t.out, q) = 0
      /\ \A j \in Ids, h \in Node :
             Gains(t.out, Answers(j, h)) + Counted(<<j, h>> \in t.told) = Counted(j = id /\ h \in T)
  <2>0. Forwarded(o, t, id, T)
    BY <1>p
  <2>1. ASSUME NEW j \in Ids, NEW h \in Node
        PROVE  Gains(t.out, Answers(j, h)) + Counted(<<j, h>> \in t.told) = Counted(j = id /\ h \in T)
    BY <2>0, ForwardedGains
  <2> QED BY <2>0, <2>1 DEF Forwarded
<1>3. /\ Linking(nd, ch) /\ Settled(c, f, told, ch) /\ Underway(c, f, D, ch)
      /\ \A n \in Node : WaitsAt(c, f, D, n, nd[n])
  BY <1>p DEF SteadyAt
<1>4. t.told \subseteq Pairs(id, Node) /\ t.told \subseteq Ids \X Node /\ f \cup t.found = f
  BY <1>1, <1>2 DEF Pairs
<1>5. ASSUME NEW j \in Ids, c[j].dest = None, NEW h \in Node
      PROVE  /\ <<j, h>> \in told => <<j, h>> \notin t.told
             /\ UnderWay(rest, Answers(j, h)) + Gains(t.out, Answers(j, h)) + Counted(<<j, h>> \in told \cup t.told)
                  = Counted(<<j, h>> \in f)
  <2>q. PICK u, v, g, d, e, x, y : /\ u = UnderWay(ch, Answers(j, h)) /\ v = UnderWay(rest, Answers(j, h))
                                   /\ g = Gains(t.out, Answers(j, h))
                                   /\ d = Counted(<<j, h>> \in told) /\ e = Counted(<<j, h>> \in t.told)
                                   /\ x = Counted(<<j, h>> \in f) /\ y = Counted(j = id /\ h \in T)
    OBVIOUS
  <2>1. u = v + y /\ g + e = y
    BY <1>1, <1>2, <2>q
  <2>2. u + d = x
    BY <1>3, <1>5, <2>q DEF Settled
  <2>3. u \in Nat /\ v \in Nat /\ g \in Nat
    BY <1>2, <2>q, RemainsSound, Counting, BooksAreNumbers DEF Remains
  <2>4. d \in {0, 1} /\ e \in {0, 1} /\ x \in {0, 1} /\ y \in {0, 1}
    BY <2>q, OneOrNone
  <2>5. d = 1 => e = 0
    BY <2>1, <2>2, <2>3, <2>4
  <2>6. <<j, h>> \in told => <<j, h>> \notin t.told
    BY <2>5, <2>q DEF Counted
  <2>7. Counted(<<j, h>> \in told \cup t.told) = d + e
    BY <2>6, <2>q DEF Counted
  <2>8. v + g + (d + e) = x
    BY <2>1, <2>2, <2>3, <2>4
  <2> QED BY <2>6, <2>7, <2>8, <2>q
<1>6. t.told \cap told = {}
  <2> SUFFICES ASSUME NEW x \in t.told, x \in told PROVE FALSE
    OBVIOUS
  <2>1. PICK h \in Node : x = <<id, h>>
    BY <1>4 DEF Pairs
  <2> QED BY <1>1, <1>5, <2>1
<1>7. DOMAIN o.s.neighbors # {} => t.s.state \in {"READY", "CRASH"}
  BY <1>2, <1>3 DEF Linking
<1>8. DOMAIN o.s.neighbors = {} => Unpaid(t.s) = 0
  BY <1>2, <1>3 DEF Linking
<1>9. UnderWay(rest, Paid) + Credit(t) = UnderWay(ch, Paid) + Credit(o) + t.minted
  <2>1. Gains(t.out, Paid) = 0 /\ Gains(o.out, Paid) = 0
    BY <1>2 DEF Paid
  <2>2. Credit(t) = Credit(o)
    BY <1>2, <2>1 DEF Credit
  <2>3. UnderWay(ch, Paid) \in Nat /\ Credit(o) \in Nat
    BY Counting, NumbersOf DEF Remains
  <2> QED BY <1>1, <1>2, <2>2, <2>3
<1>t. \A j \in Ids : Beside(c, told \cup t.told, j) = Beside(c, told, j)
  <2>p. PICK p : p = t.told
    OBVIOUS
  <2>1. id \in Ids /\ c[id].dest = None /\ p \subseteq Pairs(id, Node)
    BY <1>1, <1>4, <2>p
  <2>2. \A j \in Ids : Beside(c, told \cup p, j) = Beside(c, told, j)
    BY ONLY <2>1, TellsBeside, ZenonT(30)
  <2> QED BY <2>2, <2>p
<1>10. ASSUME NEW j \in Ids
       PROVE  UnderWay(rest, Walks(j)) + Walkers(t, j) + Beside(c, told \cup t.told, j)
                  <= UnderWay(ch, Walks(j)) + Walkers(o, j) + Beside(c, told, j)
  <2>1. Gains(t.out, Walks(j)) = 0 /\ Gains(o.out, Walks(j)) = 0
    BY <1>2 DEF Walks
  <2>2. Walkers(t, j) = Walkers(o, j)
    BY <1>2, <2>1 DEF Walkers
  <2>3. Beside(c, told \cup t.told, j) = Beside(c, told, j)
    BY <1>t
  <2>4. UnderWay(ch, Walks(j)) \in Nat /\ Walkers(o, j) \in Nat /\ Beside(c, told, j) \in Nat
    BY Counting, NumbersOf, BesideIsNat DEF Remains
  <2>5. UnderWay(rest, Walks(j)) = UnderWay(ch, Walks(j))
    BY <1>1
  <2> QED BY <2>2, <2>3, <2>4, <2>5
<1>11. /\ \A j \in Ids : c[j].origin # None => FoundFor(f, j) = {}
       /\ \A j \in Ids : c[j].dest = None =>
            /\ Cardinality(FoundFor(f, j)) <= c[j].responses
            /\ \A h \in Node : UnderWay(rest, Answers(j, h)) + Gains(t.out, Answers(j, h))
                               + Counted(<<j, h>> \in told \cup t.told) = Counted(<<j, h>> \in f)
  BY <1>3, <1>5 DEF Settled
<1>12. /\ Underway(c, f, D, rest) /\ Good(c, f, D, t)
       /\ \A n, k \in Node : rest[<<n, k>>] # << >> => ch[<<n, k>>] # << >>
  BY <1>3, <1>p, RemainsSound
<1>13. Turn(c, f, told, nd, ch, rest, D, o, c, t)
  <2>p. PICK g : g = f \cup t.found
    OBVIOUS
  <2>1. g = f
    BY <1>4, <2>p
  <2>2. /\ \A j \in Ids : c[j].origin # None => FoundFor(g, j) = {}
        /\ \A j \in Ids : c[j].dest = None =>
             /\ Cardinality(FoundFor(g, j)) <= c[j].responses
             /\ \A h \in Node : UnderWay(rest, Answers(j, h)) + Gains(t.out, Answers(j, h))
                                + Counted(<<j, h>> \in told \cup t.told) = Counted(<<j, h>> \in g)
    BY <1>11, <2>1
  <2>3. /\ Good(c, g, D, t) /\ Underway(c, g, D, rest)
        /\ \A k \in Node \ {o.n} : WaitsAt(c, g, D, k, nd[k])
    BY <1>3, <1>12, <2>1
  <2>4. t.minted \in Nat /\ t.found \subseteq Ids \X Node
    BY <1>2
  <2> HIDE DEF Beside
  <2> QED BY <1>4, <1>7, <1>8, <1>9, <1>10, <1>12, <2>2, <2>3, <2>4, <2>p DEF Turn
<1> QED BY <1>6, <1>13, <1>p

(***************************************************************************)
(* The steps that take no message                                          *)
(***************************************************************************)

LEMMA IdlesCounts ==
    ASSUME NEW r, Books(r), NEW t, Idles(r, t)
    PROVE  /\ Books(t) /\ Calm(r, t) /\ t.n = r.n /\ t.s.waiting = r.s.waiting /\ t.s.neighbors = r.s.neighbors
           /\ Credit(t) = Credit(r) /\ \A q : Gains(t.out, q) = Gains(r.out, q)
           /\ t.found = r.found /\ t.told = r.told /\ t.minted = r.minted
           /\ \A c, f, D : Good(c, f, D, r) => Good(c, f, D, t)
<1>1. /\ Calm(r, t) /\ t.n = r.n /\ t.s.waiting = r.s.waiting /\ t.s.neighbors = r.s.neighbors /\ t.out = r.out
      /\ t.found = r.found /\ t.told = r.told /\ t.minted = r.minted
  BY DEF Idles, Calm
<1>2. Books(t)
  BY <1>1 DEF Books, Calm
<1>3. \A q : Gains(t.out, q) = Gains(r.out, q)
  BY <1>1
<1>4. Credit(t) = Credit(r)
  <2>1. Unpaid(t.s) = Unpaid(r.s)
    BY <1>1 DEF Unpaid
  <2> QED BY <1>1, <1>3, <2>1 DEF Credit
<1>5. \A c, f, D : Good(c, f, D, r) => Good(c, f, D, t)
  BY <1>1 DEF Good
<1> QED BY <1>1, <1>2, <1>3, <1>4, <1>5

LEMMA BeginsIdly ==
    ASSUME IInv, NEW n \in Node, NEW r, r = Work(n), NEW s, StateOK(n, s), Alike(node[n], s),
           s.waiting = node[n].waiting, s.neighbors = node[n].neighbors, NEW t, t = [r EXCEPT !.s = s]
    PROVE  Idles(r, t) /\ t.s = s /\ WorkOK(t)
<1>1. Calm(r, t) /\ t.s = s /\ WorkOK(t)
  BY Begins
<1>2. r.s = node[n] /\ WorkOK(r)
  BY Working
<1>3. t.out = r.out /\ t.found = r.found /\ t.told = r.told /\ t.minted = r.minted
  BY <1>2 DEF WorkOK, WorkFields
<1> QED BY <1>1, <1>2, <1>3 DEF Idles

LEMMA QuietStep ==
    ASSUME IInv, Steady, NEW n \in Node, NEW r, r = Work(n), NEW t, Leave(t),
           history.steady => /\ SameBounds
                             /\ Harmless(config.searches, history.found, DomainsOf(node), r, t)
    PROVE  Steady'
<1>1. Unaffected(history) /\ Finish(t, channel, history)
  BY DEF IInv, Unaffected, Leave
<1>2. ASSUME history.steady
      PROVE  /\ Pairwise(channel) /\ Calm(r, t) /\ Books(t) /\ t.told \cap history.told = {}
             /\ config'.requests = config.requests /\ config'.timeouts = config.timeouts
             /\ Turn(config.searches, history.found, history.told, node, channel, channel, DomainsOf(node), r,
                     config'.searches, t)
  <2>p. PICK c, nd, ch, f, told, minted : /\ c = config.searches /\ nd = node /\ ch = channel /\ f = history.found
                                          /\ told = history.told /\ minted = history.minted
    OBVIOUS
  <2>1. Books(r) /\ Pairwise(ch) /\ r.n \in Node /\ r.s = nd[r.n]
    BY <1>2, <2>p, Locally
  <2>2. Harmless(c, f, DomainsOf(nd), r, t) /\ SameBounds
    BY <1>2, <2>p
  <2>3. Remains(ch, ch)
    BY <2>1 DEF Remains
  <2>4. SteadyAt(c, nd, ch, f, told, minted)
    BY <1>2, <2>p DEF Steady
  <2>5. Quiet(c, f, DomainsOf(nd), ch, ch, r, t)
    <3>1. /\ Calm(r, t) /\ Books(t) /\ t.s.waiting = r.s.waiting
          /\ DOMAIN r.s.neighbors # {} => t.s.state \in {"READY", "CRASH"}
          /\ t.found = {} /\ t.told = {} /\ t.minted \in Nat
          /\ Credit(t) = Credit(r) + t.minted /\ Good(c, f, DomainsOf(nd), t)
      BY <2>2 DEF Harmless
    <3>2. UnderWay(ch, Paid) + Credit(t) = UnderWay(ch, Paid) + Credit(r) + t.minted
      <4>1. UnderWay(ch, Paid) \in Nat /\ Credit(r) \in Nat
        BY <2>1, Counting, NumbersOf
      <4> QED BY <3>1, <4>1
    <3>3. \A id \in Ids : Gains(t.out, Walks(id)) = 0 /\ \A h \in Node : Gains(t.out, Answers(id, h)) = 0
      BY <2>2 DEF Harmless, Walks, Answers
    <3> QED BY <3>1, <3>2, <3>3 DEF Quiet
  <2>6. \A q : Gains(r.out, q) = 0
    BY WorkIsEmpty
  <2>7. Turn(c, f, told, nd, ch, ch, DomainsOf(nd), r, c, t)
    BY <2>1, <2>3, <2>4, <2>5, <2>6, QuietTurn
  <2> QED BY <2>1, <2>2, <2>7, <2>p DEF Harmless, SameBounds
<1> QED BY <1>1, <1>2, SteadyStep

LEMMA IdlesIsHarmless ==
    ASSUME IInv, Steady, history.steady, NEW n \in Node, NEW r, r = Work(n), NEW t, Idles(r, t),
           DOMAIN r.s.neighbors # {} => t.s.state \in {"READY", "CRASH"}
    PROVE  Harmless(config.searches, history.found, DomainsOf(node), r, t)
<1>1. Books(r) /\ Good(config.searches, history.found, DomainsOf(node), r)
  BY Locally
<1>2. /\ r.found = {} /\ r.told = {} /\ r.minted = 0 /\ \A q : Gains(r.out, q) = 0
  BY WorkIsEmpty
<1>3. /\ Books(t) /\ Calm(r, t) /\ t.n = r.n /\ t.s.waiting = r.s.waiting
      /\ Credit(t) = Credit(r) /\ \A q : Gains(t.out, q) = Gains(r.out, q)
      /\ t.found = r.found /\ t.told = r.told /\ t.minted = r.minted
      /\ Good(config.searches, history.found, DomainsOf(node), t)
  BY <1>1, IdlesCounts
<1>4. Credit(r) \in Nat
  BY <1>1, NumbersOf
<1> QED BY <1>2, <1>3, <1>4 DEF Harmless

\* A node with neighbors is ready.
LEMMA LinkedIsReady ==
    ASSUME IInv, Steady, history.steady, Running, NEW n \in Node, DOMAIN node[n].neighbors # {}
    PROVE  node[n].state = "READY"
<1>1. Linking(node, channel)
  BY DEF Steady, SteadyAt
<1> QED BY <1>1 DEF Linking, Running

LEMMA UsesOther ==
    ASSUME IInv, NEW b \in {"updates", "forgets", "puts"}, Uses(b)
    PROVE  SameBounds
<1>1. config' = [config EXCEPT ![b] = config[b] - 1] /\ config \in Config
  BY DEF Uses, IInv
<1>2. CASE b = "updates"
  BY <1>1, <1>2 DEF Config, SameBounds
<1>3. CASE b = "forgets"
  BY <1>1, <1>3 DEF Config, SameBounds
<1>4. CASE b = "puts"
  BY <1>1, <1>4 DEF Config, SameBounds
<1> QED BY <1>2, <1>3, <1>4

LEMMA JoinOverlayIsSteady ==
    ASSUME IInv, Steady, NEW n \in Node, JoinOverlay(n)
    PROVE  Steady'
<1>1. PICK boot \in Boots(n) :
        LET s == ToInit(node[n], boot)
        IN  Finishes([Work(n) EXCEPT !.s = [s EXCEPT !.state = IF boot = None THEN "READY" ELSE "INIT"]])
  BY DEF JoinOverlay
<1>r. PICK r : r = Work(n)
  OBVIOUS
<1>s. PICK s, x : s = ToInit(node[n], boot) /\ x = IF boot = None THEN "READY" ELSE "INIT"
  OBVIOUS
<1>u. PICK u : u = [s EXCEPT !.state = x]
  OBVIOUS
<1>t. PICK t : t = [r EXCEPT !.s = u]
  OBVIOUS
<1>2. boot \in Node \cup {None} /\ StateOK(n, node[n])
  BY BootsAreNodes DEF IInv, NodesOK
<1>3. StateOK(n, s) /\ Alike(node[n], s) /\ s.neighbors = node[n].neighbors
  BY <1>2, <1>s, ToInitIsOK
<1>4. s.waiting = node[n].waiting
  BY <1>2, <1>s DEF ToInit, StateOK, NodeFields
<1>5. StateOK(n, u) /\ Alike(node[n], u) /\ u.waiting = node[n].waiting /\ u.neighbors = node[n].neighbors
  BY <1>3, <1>4, <1>s, <1>u DEF StateOK, NodeFields, Alike
<1>6. Idles(r, t) /\ t.s = u /\ r.s = node[n]
  <2>1. Idles(r, t) /\ t.s = u
    BY <1>5, <1>r, <1>t, BeginsIdly
  <2> QED BY <1>r, <2>1, Working
<1>7. Finishes(t) /\ node[n].state = "NONE"
  BY <1>1, <1>r, <1>s, <1>u, <1>t DEF JoinOverlay
<1>8. ASSUME history.steady
      PROVE  SameBounds /\ Harmless(config.searches, history.found, DomainsOf(node), r, t)
  <2>1. Running
    BY <1>7 DEF Finishes, Leave, Finish
  <2>2. DOMAIN r.s.neighbors = {}
    BY <1>6, <1>7, <1>8, <2>1, LinkedIsReady
  <2>3. Harmless(config.searches, history.found, DomainsOf(node), r, t)
    BY <1>6, <1>8, <1>r, <2>2, IdlesIsHarmless
  <2> QED BY <1>7, <2>3 DEF Finishes, SameBounds
<1> QED BY <1>7, <1>8, <1>r, QuietStep DEF Finishes

LEMMA SatisfactionTimerIsSteady ==
    ASSUME IInv, Steady, NEW n \in Node, SatisfactionTimer(n)
    PROVE  Steady'
<1>1. PICK boot \in IF ReadyNodes = {} THEN {None} ELSE ReadyNodes :
        LET known == Known(n, boot)
            t     == [Work(n) EXCEPT !.s.knownNodes = known, !.s.satisfactionTimer = FALSE]
        IN  \/ known = {None} /\ Finishes([t EXCEPT !.s.state = "CRASH"])
            \/ known # {None} /\ Finishes(t)
            \/ \E m \in known \ ({n, None} \cup DOMAIN node[n].neighbors \cup node[n].neighCand) :
                  /\ Uses("requests")
                  /\ Finish(Send(Candidate(t, m), m, Note(t, "REQ")), channel,
                            [history EXCEPT !.again = IF TooSoon(n, m) THEN @ \cup {{n, m}} ELSE @])
  BY DEF SatisfactionTimer
<1>a. PICK known : known = Known(n, boot)
  OBVIOUS
<1>r. PICK r : r = Work(n)
  OBVIOUS
<1>b. PICK t : t = [r EXCEPT !.s.knownNodes = known, !.s.satisfactionTimer = FALSE]
  OBVIOUS
<1>c. PICK s, x : /\ s = [node[n] EXCEPT !.knownNodes = known, !.satisfactionTimer = FALSE]
                  /\ x = [s EXCEPT !.state = "CRASH"]
  OBVIOUS
<1>2. StateOK(n, node[n])
  BY DEF IInv, NodesOK
<1>3. known \subseteq Node \cup {None}
  <2>1. boot \in Node \cup {None}
    BY BootsAreNodes
  <2> QED BY <1>2, <1>a, <2>1 DEF Known, StateOK
<1>4. /\ StateOK(n, s) /\ Alike(node[n], s) /\ s.waiting = node[n].waiting /\ s.neighbors = node[n].neighbors
      /\ s.state = node[n].state
  BY <1>2, <1>3, <1>c DEF StateOK, NodeFields, Alike
<1>5. /\ StateOK(n, x) /\ Alike(node[n], x) /\ x.waiting = node[n].waiting /\ x.neighbors = node[n].neighbors
      /\ x.state = "CRASH"
  BY <1>4, <1>c DEF StateOK, NodeFields, Alike
<1>6. r.s = node[n] /\ WorkOK(r) /\ t = [r EXCEPT !.s = s]
  <2>1. r.s = node[n] /\ WorkOK(r)
    BY <1>r, Working
  <2> QED BY <1>b, <1>c, <2>1
<1>7. Idles(r, t) /\ t.s = s
  BY <1>4, <1>6, <1>r, BeginsIdly
<1>8. \/ Finishes([t EXCEPT !.s.state = "CRASH"]) \/ Finishes(t)
      \/ \E m \in known \ ({n, None} \cup DOMAIN node[n].neighbors \cup node[n].neighCand) :
            /\ Uses("requests")
            /\ Finish(Send(Candidate(t, m), m, Note(t, "REQ")), channel,
                      [history EXCEPT !.again = IF TooSoon(n, m) THEN @ \cup {{n, m}} ELSE @])
  BY <1>1, <1>a, <1>b, <1>r
<1>9. CASE Finishes(t)
  <2>1. ASSUME history.steady
        PROVE  SameBounds /\ Harmless(config.searches, history.found, DomainsOf(node), r, t)
    <3>1. Running
      BY <1>9 DEF Finishes, Leave, Finish
    <3>2. DOMAIN r.s.neighbors # {} => t.s.state \in {"READY", "CRASH"}
      BY <1>4, <1>6, <1>7, <2>1, <3>1, LinkedIsReady
    <3>3. Harmless(config.searches, history.found, DomainsOf(node), r, t)
      BY <1>7, <1>r, <2>1, <3>2, IdlesIsHarmless
    <3> QED BY <1>9, <3>3 DEF Finishes, SameBounds
  <2> QED BY <1>9, <1>r, <2>1, QuietStep DEF Finishes
<1>10. CASE Finishes([t EXCEPT !.s.state = "CRASH"])
  <2>p. PICK u : u = [r EXCEPT !.s = x]
    OBVIOUS
  <2>1. [t EXCEPT !.s.state = "CRASH"] = u
    <3>1. r = [f \in WorkFields |-> r[f]]
      BY <1>6 DEF WorkOK
    <3> QED BY <1>6, <1>c, <2>p, <3>1 DEF WorkFields
  <2>2. Idles(r, u) /\ u.s = x
    BY <1>5, <1>r, <2>p, BeginsIdly
  <2>3. Finishes(u)
    BY <1>10, <2>1
  <2>4. ASSUME history.steady
        PROVE  SameBounds /\ Harmless(config.searches, history.found, DomainsOf(node), r, u)
    <3>1. u.s.state \in {"READY", "CRASH"}
      BY <1>5, <2>2
    <3>2. Harmless(config.searches, history.found, DomainsOf(node), r, u)
      BY <1>r, <2>2, <2>4, <3>1, IdlesIsHarmless
    <3> QED BY <2>3, <3>2 DEF Finishes, SameBounds
  <2> QED BY <1>r, <2>3, <2>4, QuietStep DEF Finishes
<1>11. ASSUME NEW m \in known \ ({n, None} \cup DOMAIN node[n].neighbors \cup node[n].neighCand), Uses("requests"),
              Finish(Send(Candidate(t, m), m, Note(t, "REQ")), channel,
                     [history EXCEPT !.again = IF TooSoon(n, m) THEN @ \cup {{n, m}} ELSE @])
       PROVE  Steady'
  <2>p. PICK u, again : u = Send(Candidate(t, m), m, Note(t, "REQ"))
                        /\ again = IF TooSoon(n, m) THEN history.again \cup {{n, m}} ELSE history.again
    OBVIOUS
  <2>q. PICK past : past = [history EXCEPT !.again = again]
    OBVIOUS
  <2>1. Finish(u, channel, past)
    BY <1>11, <2>p, <2>q
  <2>2. Unaffected(past)
    BY <2>q DEF Unaffected, IInv, HistoryFields
  <2>3. history'.steady = history.steady
    BY <2>1, <2>2, FinishedHistory
  <2>4. config.requests > 0
    BY <1>11 DEF Uses
  <2>5. ~history.steady
    BY <2>4 DEF Steady
  <2> QED BY <2>3, <2>5 DEF Steady
<1> QED BY <1>8, <1>9, <1>10, <1>11

LEMMA TimedoutNeighborsIsSteady ==
    ASSUME IInv, Steady, NEW n \in Node, TimedoutNeighbors(n)
    PROVE  Steady'
<1>1. PICK t, dropped : Finish(t, channel, [history EXCEPT !.dropped = dropped])
  BY DEF TimedoutNeighbors
<1>p. PICK past : past = [history EXCEPT !.dropped = dropped]
  OBVIOUS
<1>2. Unaffected(past)
  BY <1>p DEF Unaffected, IInv, HistoryFields
<1>3. history'.steady = history.steady
  BY <1>1, <1>2, <1>p, FinishedHistory
<1>4. config.timeouts > 0
  BY DEF TimedoutNeighbors, Uses
<1>5. ~history.steady
  BY <1>4 DEF Steady
<1> QED BY <1>3, <1>5 DEF Steady

LEMMA TimedoutMessagesIsSteady ==
    ASSUME IInv, Steady, NEW n \in Node, TimedoutMessages(n)
    PROVE  Steady'
<1>1. PICK id : Uses("forgets") /\ Leave([Work(n) EXCEPT !.s.messages = Erased(@, id)])
  BY DEF TimedoutMessages
<1>r. PICK r, s : r = Work(n) /\ s = [node[n] EXCEPT !.messages = Erased(node[n].messages, id)]
  OBVIOUS
<1>t. PICK t : t = [r EXCEPT !.s.messages = Erased(@, id)]
  OBVIOUS
<1>2. StateOK(n, node[n]) /\ r.s = node[n]
  BY <1>r, Working DEF IInv, NodesOK
<1>3. t = [r EXCEPT !.s = s]
  BY <1>2, <1>r, <1>t
<1>4. /\ StateOK(n, s) /\ Alike(node[n], s) /\ s.waiting = node[n].waiting /\ s.neighbors = node[n].neighbors
      /\ s.state = node[n].state
  BY <1>2, <1>r DEF StateOK, NodeFields, Alike
<1>w. r = Work(n)
  BY <1>r
<1>5. Idles(r, t) /\ t.s = s
  BY <1>3, <1>4, <1>w, BeginsIdly
<1>6. Leave(t) /\ SameBounds /\ Running
  BY <1>1, <1>r, <1>t, UsesOther DEF Leave, Finish
<1>7. ASSUME history.steady
      PROVE  Harmless(config.searches, history.found, DomainsOf(node), r, t)
  <2>1. DOMAIN r.s.neighbors # {} => t.s.state \in {"READY", "CRASH"}
    BY <1>2, <1>4, <1>5, <1>6, <1>7, LinkedIsReady
  <2> QED BY <1>5, <1>7, <1>r, <2>1, IdlesIsHarmless
<1> QED BY <1>6, <1>7, <1>r, QuietStep

LEMMA HandlePutIsSteady ==
    ASSUME IInv, Steady, NEW n \in Node, HandlePut(n)
    PROVE  Steady'
<1>r. PICK r, s : r = Work(n) /\ s = [node[n] EXCEPT !.keys = TRUE, !.keyListTimer = TRUE]
  OBVIOUS
<1>t. PICK t : t = [r EXCEPT !.s.keys = TRUE, !.s.keyListTimer = TRUE]
  OBVIOUS
<1>2. StateOK(n, node[n]) /\ r.s = node[n]
  BY <1>r, Working DEF IInv, NodesOK
<1>3. t = [r EXCEPT !.s = s]
  BY <1>2, <1>r, <1>t
<1>4. /\ StateOK(n, s) /\ Alike(node[n], s) /\ s.waiting = node[n].waiting /\ s.neighbors = node[n].neighbors
      /\ s.state = node[n].state
  BY <1>2, <1>r DEF StateOK, NodeFields, Alike
<1>w. r = Work(n)
  BY <1>r
<1>5. Idles(r, t) /\ t.s = s
  BY <1>3, <1>4, <1>w, BeginsIdly
<1>6. Leave(t) /\ SameBounds /\ Running
  BY <1>r, <1>t, UsesOther DEF HandlePut, Leave, Finish
<1>7. ASSUME history.steady
      PROVE  Harmless(config.searches, history.found, DomainsOf(node), r, t)
  <2>1. DOMAIN r.s.neighbors # {} => t.s.state \in {"READY", "CRASH"}
    BY <1>2, <1>4, <1>5, <1>6, <1>7, LinkedIsReady
  <2> QED BY <1>5, <1>7, <1>r, <2>1, IdlesIsHarmless
<1> QED BY <1>6, <1>7, <1>r, QuietStep

LEMMA AppendedOne ==
    ASSUME NEW s, IsSeq(s), NEW m, NEW i \in 1 .. Len(Append(s, m))
    PROVE  (i \in 1 .. Len(s) /\ Append(s, m)[i] = s[i]) \/ Append(s, m)[i] = m
<1>1. /\ Len(s) \in Nat /\ Len(Append(s, m)) = Len(s) + 1 /\ Append(s, m)[Len(s) + 1] = m
      /\ \A j \in 1 .. Len(s) : Append(s, m)[j] = s[j]
  BY Sequences
<1>2. i \in 1 .. Len(s) \/ i = Len(s) + 1
  BY <1>1
<1> QED BY <1>1, <1>2

\* What is sent to all neighbors is worth no token, and no message.
LEMMA AllSentCounts ==
    ASSUME NEW r, Books(r), NEW type \in {"UPDATE", "KEYLIST"}, NEW t, t = SendAll(r, type)
    PROVE  /\ Calm(r, t) /\ t.s = r.s /\ t.found = r.found /\ t.told = r.told /\ t.minted = r.minted
           /\ \A q : type \notin q.types => Gains(t.out, q) = Gains(r.out, q)
           /\ \A c, f, D : Good(c, f, D, r) => Good(c, f, D, t)
<1>p. PICK p : p = Note(r, type)
  OBVIOUS
<1>1. Calm(r, t) /\ WorkOK(r) /\ Parcels(r.out)
  BY SendAllIsCalm, BooksAreNumbers DEF Books
<1>2. /\ t.s = r.s /\ t.found = r.found /\ t.told = r.told /\ t.minted = r.minted /\ t.n = r.n
      /\ t.out = [k \in Node |-> IF k \in DOMAIN r.s.neighbors THEN Append(r.out[k], p) ELSE r.out[k]]
  BY <1>1, <1>p DEF WorkOK, WorkFields, SendAll
<1>3. p.type = type
  BY <1>p DEF Note
<1>o. PICK o : o = t.out
  OBVIOUS
<1>4. \A k \in Node : /\ k \in DOMAIN r.s.neighbors => o[k] = Append(r.out[k], p)
                      /\ k \notin DOMAIN r.s.neighbors => o[k] = r.out[k]
  BY <1>2, <1>o
<1>5. ASSUME NEW q, type \notin q.types
      PROVE  Gains(o, q) = Gains(r.out, q)
  <2>1. ASSUME NEW k \in Node PROVE Count(o[k], q) = Count(r.out[k], q)
    <3>1. CASE k \in DOMAIN r.s.neighbors
      <4>1. IsSeq(r.out[k])
        BY <1>1 DEF Parcels
      <4>2. Count(Append(r.out[k], p), q) = Count(r.out[k], q) + Counted(Meets(p, q)) /\ Count(r.out[k], q) \in Nat
        BY <4>1, CountMore, CountIsNat
      <4>3. Counted(Meets(p, q)) = 0
        BY <1>3, <1>5 DEF Meets, Counted
      <4>p. PICK x, y : x = Count(r.out[k], q) /\ y = Counted(Meets(p, q))
        OBVIOUS
      <4>4. x + y = x
        BY <4>2, <4>3, <4>p
      <4>5. o[k] = Append(r.out[k], p)
        BY <1>4, <3>1
      <4> QED BY <4>2, <4>4, <4>5, <4>p
    <3>2. CASE k \notin DOMAIN r.s.neighbors
      BY <1>4, <3>2
    <3> QED BY <3>1, <3>2
  <2>2. [k \in Node |-> Count(o[k], q)] = [k \in Node |-> Count(r.out[k], q)]
    BY <2>1
  <2> QED BY <2>2 DEF Gains
<1>6. ASSUME NEW c, NEW f, NEW D, Good(c, f, D, r)
      PROVE  Good(c, f, D, t)
  <2>1. \A k : Fine(c, f, D, r.n, k, p)
    BY <1>3 DEF Fine, Says, IsMessage
  <2>2. ASSUME NEW k \in Node, NEW i \in 1 .. Len(o[k])
        PROVE  k \in DOMAIN r.s.neighbors /\ Fine(c, f, D, r.n, k, o[k][i])
    <3>1. CASE k \in DOMAIN r.s.neighbors
      <4>1. IsSeq(r.out[k]) /\ i \in 1 .. Len(Append(r.out[k], p)) /\ o[k] = Append(r.out[k], p)
        BY <1>1, <1>4, <3>1 DEF Parcels
      <4>2. (i \in 1 .. Len(r.out[k]) /\ o[k][i] = r.out[k][i]) \/ o[k][i] = p
        BY <4>1, AppendedOne
      <4> QED BY <1>6, <2>1, <3>1, <4>2 DEF Good
    <3>2. CASE k \notin DOMAIN r.s.neighbors
      BY <1>4, <1>6, <3>2 DEF Good
    <3> QED BY <3>1, <3>2
  <2> QED BY <1>2, <1>6, <1>o, <2>2 DEF Good
<1> QED BY <1>1, <1>2, <1>5, <1>6, <1>o

LEMMA AllSentIsHarmless ==
    ASSUME NEW c, NEW f, NEW D, NEW r, NEW u, Harmless(c, f, D, r, u), NEW type \in {"UPDATE", "KEYLIST"},
           NEW t, t = SendAll(u, type)
    PROVE  Harmless(c, f, D, r, t)
<1>1. /\ Calm(r, u) /\ Books(u) /\ u.s.waiting = r.s.waiting
      /\ DOMAIN r.s.neighbors # {} => u.s.state \in {"READY", "CRASH"}
      /\ u.found = {} /\ u.told = {} /\ u.minted \in Nat /\ Credit(u) = Credit(r) + u.minted
      /\ \A q : q.types \cap {"TOKEN", "UPDATE", "KEYLIST"} = {} => Gains(u.out, q) = 0
      /\ Good(c, f, D, u)
  BY DEF Harmless
<1>2. /\ Calm(u, t) /\ t.s = u.s /\ t.found = u.found /\ t.told = u.told /\ t.minted = u.minted
      /\ \A q : type \notin q.types => Gains(t.out, q) = Gains(u.out, q)
      /\ Good(c, f, D, t)
  BY <1>1, AllSentCounts
<1>3. Calm(r, t) /\ Books(t)
  BY <1>1, <1>2, CalmIsTransitive DEF Books, Calm
<1>4. Credit(t) = Credit(u)
  <2>1. Gains(t.out, Paid) = Gains(u.out, Paid)
    BY <1>2 DEF Paid
  <2> QED BY <1>2, <2>1 DEF Credit
<1>5. \A q : q.types \cap {"TOKEN", "UPDATE", "KEYLIST"} = {} => Gains(t.out, q) = 0
  <2>1. \A q : q.types \cap {"TOKEN", "UPDATE", "KEYLIST"} = {} => type \notin q.types
    OBVIOUS
  <2> QED BY <1>1, <1>2, <2>1
<1> QED BY <1>1, <1>2, <1>3, <1>4, <1>5 DEF Harmless

LEMMA UpdateTimerIsSteady ==
    ASSUME IInv, Steady, NEW n \in Node, UpdateTimer(n)
    PROVE  Steady'
<1>r. PICK r, s : r = Work(n) /\ s = [node[n] EXCEPT !.updateTimer = FALSE]
  OBVIOUS
<1>u. PICK u : u = [r EXCEPT !.s.updateTimer = FALSE]
  OBVIOUS
<1>t. PICK t : t = SendAll(u, "UPDATE")
  OBVIOUS
<1>2. StateOK(n, node[n]) /\ r.s = node[n]
  BY <1>r, Working DEF IInv, NodesOK
<1>3. u = [r EXCEPT !.s = s]
  BY <1>2, <1>r, <1>u
<1>4. /\ StateOK(n, s) /\ Alike(node[n], s) /\ s.waiting = node[n].waiting /\ s.neighbors = node[n].neighbors
      /\ s.state = node[n].state
  BY <1>2, <1>r DEF StateOK, NodeFields, Alike
<1>w. r = Work(n)
  BY <1>r
<1>5. Idles(r, u) /\ u.s = s
  BY <1>3, <1>4, <1>w, BeginsIdly
<1>6. Leave(t) /\ SameBounds /\ Running
  BY <1>r, <1>u, <1>t, UsesOther DEF UpdateTimer, Leave, Finish
<1>7. ASSUME history.steady
      PROVE  Harmless(config.searches, history.found, DomainsOf(node), r, t)
  <2>1. DOMAIN r.s.neighbors # {} => u.s.state \in {"READY", "CRASH"}
    BY <1>2, <1>4, <1>5, <1>6, <1>7, LinkedIsReady
  <2>2. Harmless(config.searches, history.found, DomainsOf(node), r, u)
    BY <1>5, <1>7, <1>w, <2>1, IdlesIsHarmless
  <2> QED BY <1>t, <2>2, AllSentIsHarmless
<1> QED BY <1>6, <1>7, <1>w, QuietStep

LEMMA SendKeyListTimerIsSteady ==
    ASSUME IInv, Steady, NEW n \in Node, SendKeyListTimer(n)
    PROVE  Steady'
<1>r. PICK r, s : r = Work(n) /\ s = [node[n] EXCEPT !.keyListTimer = FALSE]
  OBVIOUS
<1>u. PICK u : u = [r EXCEPT !.s.keyListTimer = FALSE]
  OBVIOUS
<1>t. PICK t : t = SendAll(u, "KEYLIST")
  OBVIOUS
<1>2. StateOK(n, node[n]) /\ r.s = node[n]
  BY <1>r, Working DEF IInv, NodesOK
<1>3. u = [r EXCEPT !.s = s]
  BY <1>2, <1>r, <1>u
<1>4. /\ StateOK(n, s) /\ Alike(node[n], s) /\ s.waiting = node[n].waiting /\ s.neighbors = node[n].neighbors
      /\ s.state = node[n].state
  BY <1>2, <1>r DEF StateOK, NodeFields, Alike
<1>w. r = Work(n)
  BY <1>r
<1>5. Idles(r, u) /\ u.s = s
  BY <1>3, <1>4, <1>w, BeginsIdly
<1>6. Leave(t) /\ SameBounds /\ Running
  BY <1>r, <1>u, <1>t DEF SendKeyListTimer, Finishes, SameBounds, Leave, Finish
<1>7. ASSUME history.steady
      PROVE  Harmless(config.searches, history.found, DomainsOf(node), r, t)
  <2>1. DOMAIN r.s.neighbors # {} => u.s.state \in {"READY", "CRASH"}
    BY <1>2, <1>4, <1>5, <1>6, <1>7, LinkedIsReady
  <2>2. Harmless(config.searches, history.found, DomainsOf(node), r, u)
    BY <1>5, <1>7, <1>w, <2>1, IdlesIsHarmless
  <2> QED BY <1>t, <2>2, AllSentIsHarmless
<1> QED BY <1>6, <1>7, <1>w, QuietStep

\* A token that is granted by the timer is a new one.
LEMMA GrantIsHarmless ==
    ASSUME NEW c, NEW f, NEW D, NEW r, Books(r), NEW u, Books(u), Idles(r, u), r.found = {}, r.told = {},
           \A q : Gains(r.out, q) = 0, Good(c, f, D, r), DOMAIN r.s.neighbors # {} => u.s.state \in {"READY", "CRASH"},
           NEW v, v = GrantToken(u), NEW t, t = [v EXCEPT !.minted = Min({1, Size(u.s)})]
    PROVE  Harmless(c, f, D, r, t)
<1>1. /\ Calm(r, u) /\ u.n = r.n /\ u.s.waiting = r.s.waiting /\ u.s.neighbors = r.s.neighbors
      /\ Credit(u) = Credit(r) /\ \A q : Gains(u.out, q) = 0
      /\ u.found = {} /\ u.told = {} /\ Good(c, f, D, u)
  BY IdlesCounts
<1>2. /\ Same(u, v) /\ v.s.waiting = u.s.waiting /\ Tokens(v.s.neighbors) = Tokens(u.s.neighbors)
      /\ DOMAIN u.s.neighbors # {} => Gains(v.out, Paid) = Gains(u.out, Paid) + 1
      /\ DOMAIN u.s.neighbors = {} => v = u
      /\ \A q : "TOKEN" \notin q.types => Gains(v.out, q) = Gains(u.out, q)
      /\ Good(c, f, D, v)
  BY <1>1, GrantCounts
<1>3. Calm(u, v) /\ Books(v) /\ WorkOK(v) /\ v.s.state = u.s.state /\ v.found = {} /\ v.told = {}
  BY <1>1, <1>2 DEF Same, Books
<1>k. PICK k : k = Min({1, Size(u.s)})
  OBVIOUS
<1>4. k = Counted(DOMAIN u.s.neighbors # {}) /\ k \in {0, 1}
  <2>1. Size(u.s) \in Nat /\ (Size(u.s) = 0 <=> DOMAIN u.s.neighbors = {})
    <3>1. IsFiniteSet(DOMAIN u.s.neighbors)
      BY SizeIsZero DEF Books, WorkOK
    <3> QED BY <3>1, FS_CardinalityType, FS_EmptySet DEF Size
  <2>2. k = Counted(Size(u.s) # 0)
    BY <1>k, <2>1, OneAtMost
  <2> QED BY <2>1, <2>2 DEF Counted
<1>5. Gains(v.out, Paid) = Gains(u.out, Paid) + k
  <2>1. Gains(u.out, Paid) = 0
    BY <1>1
  <2> QED BY <1>2, <1>4, <2>1 DEF Counted
<1>6. Calm(v, [v EXCEPT !.minted = k])
  BY <1>3, NotesChanged
<1>7. Calm(v, t)
  BY <1>6, <1>k
<1>8. t.s = v.s /\ t.out = v.out /\ t.found = v.found /\ t.told = v.told /\ t.n = v.n /\ t.minted = k
  BY <1>3, <1>k DEF WorkOK, WorkFields
<1>x. PICK x : x = t
  OBVIOUS
<1>9. Calm(r, x) /\ Books(x)
  <2>1. Calm(r, t)
    BY <1>1, <1>3, <1>7, CalmIsTransitive
  <2>2. WorkOK(t)
    BY <1>7 DEF Calm
  <2> QED BY <1>3, <1>8, <1>x, <2>1, <2>2 DEF Books
<1>10. Credit(t) = Credit(r) + k
  <2>1. Credit(t) = Credit(v)
    BY <1>8 DEF Credit
  <2>2. Unpaid(v.s) = Unpaid(u.s)
    BY <1>2 DEF Unpaid
  <2>3. Credit(v) = Credit(u) + k
    <3>1. Tokens(u.s.neighbors) \in Nat /\ Gains(u.out, Paid) \in Nat /\ Unpaid(u.s) \in Nat
      BY BooksAreNumbers
    <3> QED BY <1>2, <1>4, <1>5, <2>2, <3>1 DEF Credit
  <2> QED BY <1>1, <2>1, <2>3
<1>11. \A q : q.types \cap {"TOKEN", "UPDATE", "KEYLIST"} = {} => Gains(t.out, q) = 0
  <2>1. \A q : q.types \cap {"TOKEN", "UPDATE", "KEYLIST"} = {} => "TOKEN" \notin q.types
    OBVIOUS
  <2> QED BY <1>1, <1>2, <1>8, <2>1
<1>12. Good(c, f, D, t)
  BY <1>2, <1>8 DEF Good
<1>13. Harmless(c, f, D, r, x)
  <2>1. /\ x.s.waiting = r.s.waiting /\ x.found = {} /\ x.told = {} /\ x.minted = k /\ k \in Nat
        /\ DOMAIN r.s.neighbors # {} => x.s.state \in {"READY", "CRASH"}
    BY <1>1, <1>2, <1>3, <1>4, <1>8, <1>x
  <2>2. Credit(x) = Credit(r) + k /\ Good(c, f, D, x)
    BY <1>10, <1>12, <1>x
  <2>3. \A q : q.types \cap {"TOKEN", "UPDATE", "KEYLIST"} = {} => Gains(x.out, q) = 0
    BY <1>11, <1>x
  <2> QED BY ONLY <1>9, <2>1, <2>2, <2>3 DEF Harmless
<1> QED BY <1>13, <1>x

LEMMA SendTokenTimerIsSteady ==
    ASSUME IInv, Steady, NEW n \in Node, SendTokenTimer(n)
    PROVE  Steady'
<1>r. PICK r, s : r = Work(n) /\ s = [node[n] EXCEPT !.tokenTimer = FALSE]
  OBVIOUS
<1>u. PICK u : u = [r EXCEPT !.s.tokenTimer = FALSE]
  OBVIOUS
<1>v. PICK v : v = GrantToken(u)
  OBVIOUS
<1>t. PICK t : t = [v EXCEPT !.minted = Min({1, Size(u.s)})]
  OBVIOUS
<1>2. StateOK(n, node[n]) /\ r.s = node[n]
  BY <1>r, Working DEF IInv, NodesOK
<1>3. u = [r EXCEPT !.s = s]
  BY <1>2, <1>r, <1>u
<1>4. /\ StateOK(n, s) /\ Alike(node[n], s) /\ s.waiting = node[n].waiting /\ s.neighbors = node[n].neighbors
      /\ s.state = node[n].state
  BY <1>2, <1>r DEF StateOK, NodeFields, Alike
<1>w. r = Work(n)
  BY <1>r
<1>5. Idles(r, u) /\ u.s = s
  BY <1>3, <1>4, <1>w, BeginsIdly
<1>6. Leave(t) /\ SameBounds /\ Running
  BY <1>r, <1>u, <1>v, <1>t DEF SendTokenTimer, Finishes, SameBounds, Leave, Finish
<1>7. ASSUME history.steady
      PROVE  Harmless(config.searches, history.found, DomainsOf(node), r, t)
  <2>1. DOMAIN r.s.neighbors # {} => u.s.state \in {"READY", "CRASH"}
    BY <1>2, <1>4, <1>5, <1>6, <1>7, LinkedIsReady
  <2>2. Books(r) /\ Good(config.searches, history.found, DomainsOf(node), r)
    BY <1>7, <1>w, Locally
  <2>3. r.found = {} /\ r.told = {} /\ \A q : Gains(r.out, q) = 0
    BY <1>w, WorkIsEmpty
  <2>4. Books(u)
    BY <1>5, <2>2, IdlesCounts
  <2> QED BY <1>5, <1>t, <1>v, <2>1, <2>2, <2>3, <2>4, GrantIsHarmless
<1> QED BY <1>6, <1>7, <1>w, QuietStep

(***************************************************************************)
(* The steps that take a message                                           *)
(***************************************************************************)

LEMMA OneOfMany ==
    ASSUME NEW u \in Nat, NEW x \in Nat, NEW y \in Nat, NEW all \in Nat, NEW b \in Nat,
           x <= all, u + all + b <= 1
    PROVE  u + x + b <= 1 /\ (1 <= u + x + b /\ x + y <= all => y = 0)
OBVIOUS

LEMMA OnlyOneWaits ==
    ASSUME NEW nd, NodesFine(nd), NEW ch, Pairwise(ch), NEW c, NEW told, NEW id, Lives(c, told, nd, ch, id) <= 1,
           NEW n \in Node
    PROVE  /\ UnderWay(ch, Walks(id)) + Waiting(nd[n], id) + Beside(c, told, id) <= 1
           /\ 1 <= UnderWay(ch, Walks(id)) + Waiting(nd[n], id) + Beside(c, told, id)
                => \A k \in Node \ {n} : Waiting(nd[k], id) = 0
<1>p. PICK F, u, b : F = [k \in Node |-> Waiting(nd[k], id)] /\ u = UnderWay(ch, Walks(id)) /\ b = Beside(c, told, id)
  OBVIOUS
<1>1. \A k \in Node : Waiting(nd[k], id) \in Nat /\ F[k] = Waiting(nd[k], id)
  BY <1>p, StateNumbers DEF NodesFine
<1>2. Addable(F) /\ n \in DOMAIN F /\ DOMAIN F = Node
  BY <1>1, <1>p, Constants DEF Addable
<1>3. /\ Total(F) \in Nat /\ F[n] \in Nat /\ F[n] <= Total(F)
      /\ \A k \in Node \ {n} : F[k] \in Nat /\ F[n] + F[k] <= Total(F)
  BY <1>2, TotalIsMore
<1>4. u \in Nat /\ b \in Nat
  BY <1>p, Counting, BesideIsNat
<1>5. u + Total(F) + b <= 1
  BY <1>p DEF Lives
<1>6. u + F[n] + b <= 1
  BY <1>3, <1>4, <1>5, OneOfMany
<1>7. ASSUME 1 <= u + F[n] + b, NEW k \in Node \ {n} PROVE F[k] = 0
  BY <1>3, <1>4, <1>5, <1>7, OneOfMany
<1> QED BY <1>1, <1>6, <1>7, <1>p

LEMMA TakenAlone ==
    ASSUME NEW c, NEW f, NEW told, NEW nd, NEW ch, NEW minted, NEW rest, NEW o, Scene(c, f, told, nd, ch, minted, rest, o),
           NEW c2, NEW m, NEW u, NEW fromApp, Taken(c, told, ch, rest, o, u, c2, m, fromApp), Taking(o, u),
           NEW g, Apart(c, f, c2, g, m.id)
    PROVE  /\ UnderWay(ch, Walks(m.id)) + Walkers(o, m.id) + Beside(c, told, m.id) <= 1
           /\ Waiting(u.s, m.id) = 0 /\ Underway(c2, g, DomainsOf(nd), rest) /\ Good(c2, g, DomainsOf(nd), u)
           /\ \A k \in Node \ {o.n} : WaitsAt(c2, g, DomainsOf(nd), k, nd[k])
<1>p. PICK id, D, n : id = m.id /\ D = DomainsOf(nd) /\ n = o.n
  OBVIOUS
<1>1. /\ NodesFine(nd) /\ Pairwise(ch) /\ Pairwise(rest) /\ n \in Node /\ o.s = nd[n] /\ Books(o)
      /\ \A q : Gains(o.out, q) = 0
  BY <1>p, RemainsSound DEF Scene, SteadyAt, Linking, Remains
<1>2. /\ Books(u) /\ Calm(o, u) /\ u.n = n /\ id \in Ids
      /\ UnderWay(rest, Walks(id)) + Walkers(u, id) + Beside(c2, told, id) + Counted(id = m.id)
             <= UnderWay(ch, Walks(id)) + Walkers(o, id) + Beside(c, told, id)
  BY <1>p DEF Taken, Calm
<1>3. Walkers(o, id) = Waiting(nd[n], id) /\ Waiting(nd[n], id) \in Nat
  <2>1. Waiting(nd[n], id) \in Nat
    BY <1>1, StateNumbers DEF NodesFine
  <2> QED BY <1>1, <2>1 DEF Walkers
<1>4. /\ UnderWay(ch, Walks(id)) + Waiting(nd[n], id) + Beside(c, told, id) <= 1
      /\ 1 <= UnderWay(ch, Walks(id)) + Waiting(nd[n], id) + Beside(c, told, id)
           => \A k \in Node \ {n} : Waiting(nd[k], id) = 0
  <2>1. Lives(c, told, nd, ch, id) <= 1
    BY <1>2 DEF Scene, SteadyAt
  <2> QED BY <1>1, <2>1, OnlyOneWaits
<1>5. UnderWay(ch, Walks(id)) + Walkers(o, id) + Beside(c, told, id) <= 1
  BY <1>3, <1>4
<1>6. UnderWay(rest, Walks(id)) = 0 /\ Waiting(u.s, id) = 0
  BY <1>5, <1>p, TakenIsAlone DEF Scene
<1>7. \A k \in Node \ {n} : Waiting(nd[k], id) = 0
  <2>p. PICK a, b : a = UnderWay(rest, Walks(id)) + Walkers(u, id) + Beside(c2, told, id)
                    /\ b = UnderWay(ch, Walks(id)) + Walkers(o, id) + Beside(c, told, id)
    OBVIOUS
  <2>1. a \in Nat /\ b \in Nat
    <3>1. UnderWay(rest, Walks(id)) \in Nat /\ UnderWay(ch, Walks(id)) \in Nat
      BY <1>1, Counting
    <3>2. Walkers(u, id) \in Nat /\ Walkers(o, id) \in Nat
      BY <1>1, <1>2, NumbersOf
    <3>3. Beside(c2, told, id) \in Nat /\ Beside(c, told, id) \in Nat
      BY BesideIsNat
    <3> QED BY ONLY <3>1, <3>2, <3>3, <2>p
  <2>2. Counted(id = m.id) = 1
    BY <1>p DEF Counted
  <2>3. a + 1 <= b
    BY <1>2, <2>2, <2>p
  <2>4. 1 <= b
    BY <2>1, <2>3
  <2> QED BY <1>3, <1>4, <2>4, <2>p
<1>8. Underway(c, f, D, rest) /\ \A k \in Node : WaitsAt(c, f, D, k, nd[k]) /\ IsFiniteSet(nd[k].waiting)
  BY <1>1, <1>p, RemainsSound DEF Scene, SteadyAt, NodesFine
<1>a. Apart(c, f, c2, g, id)
  BY <1>p
<1>b. \A h, s : IsFiniteSet(s.waiting) /\ Waiting(s, id) = 0 /\ WaitsAt(c, f, D, h, s) => WaitsAt(c2, g, D, h, s)
  BY ONLY <1>2, <1>a, OthersSound
<1>9. Underway(c2, g, D, rest)
  <2>1. \A chan : Pairwise(chan) /\ UnderWay(chan, Walks(id)) = 0 /\ Underway(c, f, D, chan) => Underway(c2, g, D, chan)
    BY ONLY <1>2, <1>a, OthersSound
  <2> QED BY <1>1, <1>6, <1>8, <2>1
<1>10. \A k \in Node \ {n} : WaitsAt(c2, g, D, k, nd[k])
  BY <1>7, <1>8, <1>b
<1>11. Good(c2, g, D, u)
  <2>1. WaitsAt(c, f, D, n, u.s)
    BY <1>1, <1>8 DEF WaitsAt, Taking
  <2>2. WaitsAt(c2, g, D, n, u.s)
    BY <1>2, <1>6, <1>b, <2>1 DEF Books
  <2>3. Len(<< >>) = 0 /\ 1 .. 0 = {}
    BY EmptySeq
  <2>4. \A k \in Node : 1 .. Len(u.out[k]) = {}
    BY <2>3 DEF Taking, Scene
  <2> QED BY <1>2, <2>2, <2>4 DEF Good, WaitsAt
<1> QED BY <1>5, <1>6, <1>9, <1>10, <1>11, <1>p

\* It is forwarded.
LEMMA ForwardTaken ==
    ASSUME NEW c, NEW f, NEW told, NEW nd, NEW ch, NEW minted, NEW rest, NEW o, Scene(c, f, told, nd, ch, minted, rest, o),
           NEW c2, NEW m, NEW u, NEW fromApp, Taken(c, told, ch, rest, o, u, c2, m, fromApp), Taking(o, u),
           Apart(c, f, c2, f, m.id), Mail(m), Carried(c2, f, DomainsOf(nd), o.n, m), NEW t, t = Forward(u, m, fromApp)
    PROVE  Comes(c, f, told, nd, ch, rest, o, c2, t)
<1>p. PICK D : D = DomainsOf(nd)
  OBVIOUS
<1>1. /\ UnderWay(ch, Walks(m.id)) + Walkers(o, m.id) + Beside(c, told, m.id) <= 1
      /\ Waiting(u.s, m.id) = 0 /\ Underway(c2, f, D, rest) /\ Good(c2, f, D, u)
      /\ \A k \in Node \ {o.n} : WaitsAt(c2, f, D, k, nd[k])
  BY <1>p, TakenAlone
<1>2. /\ Books(u) /\ Calm(o, u) /\ u.n = o.n /\ (~fromApp => DOMAIN u.s.neighbors # {})
  BY DEF Taken, Calm
<1>3. Passed(u, t, m, fromApp)
  BY <1>1, <1>2, ForwardCounts
<1>4. Calm(u, t) /\ Books(t)
  BY <1>3 DEF Passed
<1>5. /\ SteadyAt(c, nd, ch, f, told, minted) /\ Remains(ch, rest)
      /\ Books(o) /\ o.n \in Node /\ o.s = nd[o.n]
  BY DEF Scene
<1>6. Carried(c2, f, D, u.n, m)
  BY <1>2, <1>p
<1>7. Turn(c, f, told, nd, ch, rest, D, o, c2, t) /\ t.told \cap told = {}
  BY <1>1, <1>3, <1>5, <1>6, ForwardTurn, SMTT(30)
<1>8. Calm(o, t)
  BY <1>2, <1>4, CalmIsTransitive
<1> QED BY <1>4, <1>7, <1>8, <1>p DEF Comes

\* It is a search.
LEMMA SearchTaken ==
    ASSUME NEW c, NEW f, NEW told, NEW nd, NEW ch, NEW minted, NEW rest, NEW o, Scene(c, f, told, nd, ch, minted, rest, o),
           NEW c2, NEW m, NEW u, NEW fromApp, Taken(c, told, ch, rest, o, u, c2, m, fromApp), Taking(o, u),
           Apart(c, f, c2, f, m.id), Arrived(c2, f, DomainsOf(nd), o.n, m), NEW t, t = ProcessSearch(u, m, fromApp)
    PROVE  Comes(c, f, told, nd, ch, rest, o, c2, t)
<1>p. PICK D, id : D = DomainsOf(nd) /\ id = m.id
  OBVIOUS
<1>1. /\ Books(u) /\ Calm(o, u) /\ u.n = o.n /\ (~fromApp => DOMAIN u.s.neighbors # {})
      /\ u.found = {} /\ u.told = {} /\ u.minted = 0
      /\ DOMAIN u.s.neighbors = DOMAIN o.s.neighbors /\ id \in Ids
  BY <1>p DEF Taken, Calm, Alike
<1>2. /\ SteadyAt(c, nd, ch, f, told, minted) /\ Remains(ch, rest)
      /\ Books(o) /\ o.n \in Node /\ o.s = nd[o.n]
  BY DEF Scene
<1>3. Waiting(u.s, m.id) = 0
  BY TakenAlone
<1>4. D[u.n] = DOMAIN u.s.neighbors
  BY <1>1, <1>2, <1>p DEF DomainsOf
<1>5. Arrived(c2, f, D, u.n, m) /\ u.n \in Node
  BY <1>1, <1>2, <1>p
<1>6. Searching(c2, f, D, u, m, fromApp)
  BY <1>1, <1>3, <1>4, <1>5 DEF Searching
<1>7. Processed(c2, f, u, t, m, fromApp) /\ StaysGood(c2, f, D, u, t)
  BY <1>6, SearchCounts
<1>g. PICK g : g = f \cup t.found
  OBVIOUS
<1>8. t.found \subseteq Pairs(id, Node) /\ Calm(u, t) /\ Books(t)
  BY <1>7, <1>p DEF Processed
<1>9. Apart(c, f, c2, g, m.id)
  <2>1. \A j \in Ids \ {id} : FoundFor(g, j) = FoundFor(f, j)
    <3> TAKE j \in Ids \ {id}
    <3>1. \A h \in Node : <<j, h>> \notin t.found
      BY <1>8, PairsAre
    <3> QED BY <1>g, <3>1 DEF FoundFor
  <2> QED BY <1>p, <2>1 DEF Apart
<1>10. /\ Underway(c2, g, D, rest) /\ Good(c2, g, D, u)
       /\ \A k \in Node \ {o.n} : WaitsAt(c2, g, D, k, nd[k])
  BY <1>9, <1>p, TakenAlone
<1>11. Good(c2, g, D, t)
  BY <1>7, <1>10, <1>g DEF StaysGood
<1>12. c2[m.id].dest = None
  BY DEF Arrived
<1>13. Turn(c, f, told, nd, ch, rest, D, o, c2, t) /\ t.told \cap told = {}
  <2>1. Taken(c, told, ch, rest, o, u, c2, m, fromApp) /\ Processed(c2, f, u, t, m, fromApp)
    BY <1>7
  <2> QED BY ONLY <1>2, <1>9, <1>10, <1>11, <1>12, <1>g, <2>1, SearchTurn, Z3
<1>14. Calm(o, t)
  BY <1>1, <1>8, CalmIsTransitive
<1> QED BY <1>8, <1>13, <1>14, <1>p DEF Comes

\* Apart has changed nothing here.
LEMMA NothingApart ==
    ASSUME NEW c, NEW f, NEW id
    PROVE  Apart(c, f, c, f, id)
BY DEF Apart

LEMMA CarriedIsMail ==
    ASSUME NEW c, NEW f, NEW D, NEW n, NEW m, Carried(c, f, D, n, m)
    PROVE  /\ Mail(m) /\ c[m.id].origin = None
           /\ m.type = "SEARCH" => m.dest = None /\ c[m.id].dest = None
           /\ m.type # "SEARCH" => m.dest # None /\ \A k : Carried(c, f, D, k, m)
BY DEF Carried, Mail

LEMMA MessageIsTaken ==
    ASSUME NEW c, NEW f, NEW told, NEW nd, NEW ch, NEW minted, NEW rest, NEW o, NEW from, NEW m,
           Receives(c, f, told, nd, ch, minted, rest, o, from, m), Mail(m), c[m.id].origin = None, NEW u, Keeps(o, u)
    PROVE  Taken(c, told, ch, rest, o, u, c, m, FALSE) /\ Taking(o, u)
<1>1. /\ Books(o) /\ Pairwise(ch) /\ Pairwise(rest)
      /\ o.found = {} /\ o.told = {} /\ o.minted = 0 /\ \A q : Gains(o.out, q) = 0
      /\ DOMAIN o.s.neighbors # {}
  BY RemainsSound DEF Receives, Scene, Remains
<1>2. /\ Same(o, u) /\ Credit(u) = Credit(o) /\ \A id : Walkers(u, id) = Walkers(o, id)
      /\ \A q : Gains(u.out, q) = Gains(o.out, q)
  BY <1>1, KeepsCounts
<1>3. /\ Calm(o, u) /\ Books(u) /\ u.s.state = o.s.state /\ u.found = {} /\ u.told = {} /\ u.minted = 0
      /\ \A q : Gains(u.out, q) = 0
      /\ DOMAIN u.s.neighbors # {}
  BY <1>1, <1>2 DEF Same, Calm, Alike
<1>4. Taking(o, u)
  BY DEF Keeps, Taking
<1>5. /\ Meets(m, Paid) /\ \A id \in Ids : Meets(m, Walks(id)) <=> id = m.id
      /\ \A id \in Ids, h \in Node : ~Meets(m, Answers(id, h))
  BY MailIsOK DEF Answers
<1>6. \A q : UnderWay(ch, q) = UnderWay(rest, q) + Counted(Meets(m, q)) /\ UnderWay(rest, q) \in Nat
  BY <1>1, Counting DEF Receives
<1>7. UnderWay(rest, Paid) + Credit(u) + Counted(~FALSE) = UnderWay(ch, Paid) + Credit(o)
  <2>1. Counted(Meets(m, Paid)) = 1 /\ Counted(~FALSE) = 1
    BY <1>5 DEF Counted
  <2>2. Credit(o) \in Nat
    BY <1>1, NumbersOf
  <2>3. UnderWay(ch, Paid) = UnderWay(rest, Paid) + 1 /\ UnderWay(rest, Paid) \in Nat
    BY <1>6, <2>1
  <2> QED BY <1>2, <2>1, <2>2, <2>3
<1>8. ASSUME NEW id \in Ids
      PROVE  UnderWay(rest, Walks(id)) + Walkers(u, id) + Beside(c, told, id) + Counted(id = m.id)
                 <= UnderWay(ch, Walks(id)) + Walkers(o, id) + Beside(c, told, id)
  <2>p. PICK x, y, z, b : /\ x = UnderWay(rest, Walks(id)) /\ y = Walkers(o, id) /\ z = Counted(id = m.id)
                          /\ b = Beside(c, told, id)
    OBVIOUS
  <2>1. Counted(Meets(m, Walks(id))) = z
    BY <1>5, <2>p DEF Counted
  <2>2. UnderWay(ch, Walks(id)) = x + z /\ x \in Nat
    BY <1>6, <2>1, <2>p
  <2>3. y \in Nat /\ z \in {0, 1} /\ b \in Nat /\ Walkers(u, id) = y
    BY <1>1, <1>2, <2>p, NumbersOf, BesideIsNat, OneOrNone
  <2> QED BY ONLY <2>2, <2>3, <2>p
<1>9. \A id \in Ids, h \in Node : UnderWay(rest, Answers(id, h)) = UnderWay(ch, Answers(id, h))
  <2> TAKE id \in Ids, h \in Node
  <2>1. Counted(Meets(m, Answers(id, h))) = 0
    BY <1>5 DEF Counted
  <2>2. UnderWay(ch, Answers(id, h)) = UnderWay(rest, Answers(id, h)) + 0 /\ UnderWay(rest, Answers(id, h)) \in Nat
    BY <1>6, <2>1
  <2> QED BY <2>2
<1>10. m.id \in Ids
  BY DEF Mail
<1> QED BY <1>3, <1>4, <1>7, <1>8, <1>9, <1>10 DEF Taken

LEMMA RouteComes ==
    ASSUME NEW c, NEW f, NEW told, NEW nd, NEW ch, NEW minted, NEW rest, NEW o, NEW from, NEW m,
           Receives(c, f, told, nd, ch, minted, rest, o, from, m), m.type = "ROUTE", NEW u, Keeps(o, u),
           NEW t, t = Forward(u, m, FALSE)
    PROVE  Comes(c, f, told, nd, ch, rest, o, c, t)
<1>1. Scene(c, f, told, nd, ch, minted, rest, o) /\ Carried(c, f, DomainsOf(nd), from, m)
  BY DEF Receives, Fine, IsMessage
<1>2. Mail(m) /\ c[m.id].origin = None /\ Carried(c, f, DomainsOf(nd), o.n, m)
  BY <1>1, CarriedIsMail
<1>3. Taken(c, told, ch, rest, o, u, c, m, FALSE) /\ Taking(o, u)
  BY <1>2, MessageIsTaken
<1>4. Apart(c, f, c, f, m.id)
  BY NothingApart
<1> QED BY <1>1, <1>2, <1>3, <1>4, ForwardTaken

LEMMA SearchComes ==
    ASSUME NEW c, NEW f, NEW told, NEW nd, NEW ch, NEW minted, NEW rest, NEW o, NEW from, NEW m,
           Receives(c, f, told, nd, ch, minted, rest, o, from, m), m.type = "SEARCH", NEW u, Keeps(o, u),
           NEW t, t = ProcessSearch(u, m, FALSE)
    PROVE  Comes(c, f, told, nd, ch, rest, o, c, t)
<1>p. PICK D : D = DomainsOf(nd)
  OBVIOUS
<1>1. Scene(c, f, told, nd, ch, minted, rest, o) /\ Carried(c, f, D, from, m)
  BY <1>p DEF Receives, Fine, IsMessage
<1>2. Mail(m) /\ c[m.id].origin = None /\ m.dest = None /\ c[m.id].dest = None
  BY <1>1, CarriedIsMail
<1>3. Taken(c, told, ch, rest, o, u, c, m, FALSE) /\ Taking(o, u)
  BY <1>2, MessageIsTaken
<1>4. Apart(c, f, c, f, m.id)
  BY NothingApart
<1>5. Arrived(c, f, D, o.n, m)
  <2>1. D[o.n] = DOMAIN o.s.neighbors /\ from \in DOMAIN o.s.neighbors
    BY <1>p DEF Receives, Scene, DomainsOf
  <2>2. /\ m.responses \in Nat /\ m.found = FoundFor(f, m.id)
        /\ m.responses + Cardinality(m.found) = c[m.id].responses
        /\ m.path \in Seq(Node) /\ Way(D, m.path) /\ m.path[Len(m.path)] = from
    BY <1>1, <1>2 DEF Carried
  <2> QED BY <1>2, <2>1, <2>2 DEF Arrived
<1> QED BY <1>1, <1>3, <1>4, <1>5, <1>p, SearchTaken

LEMMA AnswerComes ==
    ASSUME NEW c, NEW f, NEW told, NEW nd, NEW ch, NEW minted, NEW rest, NEW o, NEW from, NEW m,
           Receives(c, f, told, nd, ch, minted, rest, o, from, m), m.type = "ANSWER",
           NEW t, t = ForwardAnswers(o, m.id, <<m.found>>, m.path)
    PROVE  Comes(c, f, told, nd, ch, rest, o, c, t)
<1>p. PICK D, id, a, path : D = DomainsOf(nd) /\ id = m.id /\ a = m.found /\ path = m.path
  OBVIOUS
<1>1. /\ SteadyAt(c, nd, ch, f, told, minted) /\ Remains(ch, rest) /\ Pairwise(rest)
      /\ Books(o) /\ o.n \in Node /\ o.s = nd[o.n] /\ o.found = {} /\ o.told = {} /\ o.minted = 0
      /\ \A q : Gains(o.out, q) = 0
  BY RemainsSound DEF Receives, Scene
<1>2. /\ id \in Ids /\ c[id].dest = None /\ a \in Node
      /\ path \in Seq(Node) /\ Way(D, path)
      /\ path # << >> => path[Len(path)] \in D[o.n]
  BY <1>p DEF Receives, Fine
<1>3. D[o.n] = DOMAIN o.s.neighbors
  BY <1>1, <1>p DEF DomainsOf
<1>4. Good(c, f, D, o)
  <2>1. Len(<< >>) = 0 /\ 1 .. 0 = {}
    BY EmptySeq
  <2>2. \A k \in Node : 1 .. Len(o.out[k]) = {}
    BY <2>1 DEF Receives, Scene
  <2>3. WaitsAt(c, f, D, o.n, o.s)
    BY <1>1, <1>p DEF SteadyAt
  <2> QED BY <2>2, <2>3 DEF Good, WaitsAt
<1>5. Forwarded(o, t, id, {a}) /\ Good(c, f, D, t)
  <2>f. PICK found, T : found = <<a>> /\ T = {a}
    OBVIOUS
  <2>1. Lists(found, T) /\ T \in SUBSET Node /\ t = ForwardAnswers(o, id, found, path)
    BY <1>2, <1>p, <2>f, ListsOfOne
  <2>2. path # << >> => path[Len(path)] \in DOMAIN o.s.neighbors
    BY <1>2, <1>3
  <2>3. /\ Forwarded(o, t, id, T)
        /\ \A c1, f1, D1 : Good(c1, f1, D1, o) /\ c1[id].dest = None /\ Way(D1, path) => Good(c1, f1, D1, t)
    BY <1>1, <1>2, <2>1, <2>2, AnswersCounts
  <2> QED BY <1>2, <1>4, <2>3, <2>f
<1>6. AnswerTaken(c, ch, rest, D, o.n, m)
  <2>1. ~Meets(m, Paid) /\ \A j \in Ids : ~Meets(m, Walks(j))
    BY DEF Meets, Paid, Walks
  <2>2. \A j \in Ids, h \in Node : Meets(m, Answers(j, h)) <=> j = id /\ h \in {a}
    <3>1. None \notin Node /\ None \notin Ids
      BY Constants DEF Ids, None
    <3> QED BY <1>p, <3>1 DEF Meets, Answers
  <2>3. \A q : UnderWay(ch, q) = UnderWay(rest, q) + Counted(Meets(m, q)) /\ UnderWay(rest, q) \in Nat
    BY <1>1, Counting DEF Receives
  <2>4. \A q : ~Meets(m, q) => UnderWay(rest, q) = UnderWay(ch, q)
    <3> SUFFICES ASSUME NEW q, ~Meets(m, q) PROVE UnderWay(rest, q) = UnderWay(ch, q)
      OBVIOUS
    <3>1. Counted(Meets(m, q)) = 0
      BY DEF Counted
    <3>2. UnderWay(ch, q) = UnderWay(rest, q) + 0 /\ UnderWay(rest, q) \in Nat
      BY <2>3, <3>1
    <3> QED BY <3>2
  <2>5. \A j \in Ids, h \in Node :
           UnderWay(ch, Answers(j, h)) = UnderWay(rest, Answers(j, h)) + Counted(j = id /\ h \in {a})
    <3> TAKE j \in Ids, h \in Node
    <3>1. Counted(Meets(m, Answers(j, h))) = Counted(j = id /\ h \in {a})
      BY <2>2 DEF Counted
    <3> QED BY <2>3, <3>1
  <2> QED BY <1>2, <1>p, <2>1, <2>4, <2>5 DEF AnswerTaken
<1>7. Turn(c, f, told, nd, ch, rest, D, o, c, t) /\ t.told \cap told = {}
  <2>1. /\ AnswerTaken(c, ch, rest, DomainsOf(nd), o.n, m) /\ Forwarded(o, t, m.id, {m.found})
        /\ Good(c, f, DomainsOf(nd), t)
    BY <1>5, <1>6, <1>p
  <2>2. Turn(c, f, told, nd, ch, rest, DomainsOf(nd), o, c, t) /\ t.told \cap told = {}
    BY ONLY <1>1, <2>1, AnswerTurn
  <2> QED BY <2>2, <1>p
<1>8. Calm(o, t) /\ Books(t)
  BY <1>5 DEF Forwarded
<1> QED BY <1>7, <1>8, <1>p DEF Comes

LEMMA SceneIsGood ==
    ASSUME NEW c, NEW f, NEW told, NEW nd, NEW ch, NEW minted, NEW rest, NEW o, Scene(c, f, told, nd, ch, minted, rest, o)
    PROVE  Good(c, f, DomainsOf(nd), o)
<1>1. Len(<< >>) = 0 /\ 1 .. 0 = {}
  BY EmptySeq
<1>2. \A k \in Node : 1 .. Len(o.out[k]) = {}
  BY <1>1 DEF Scene
<1>3. WaitsAt(c, f, DomainsOf(nd), o.n, o.s)
  BY DEF Scene, SteadyAt
<1> QED BY <1>2, <1>3 DEF Good, WaitsAt

\* A packet that is no message, and no answer: at most, a token is received.
LEMMA QuietComes ==
    ASSUME NEW c, NEW f, NEW told, NEW nd, NEW ch, NEW minted, NEW rest, NEW o, NEW from, NEW m,
           Receives(c, f, told, nd, ch, minted, rest, o, from, m), m.type \in {"TOKEN", "UPDATE", "KEYLIST"},
           NEW t, Same(o, t), t.out = o.out, t.s.waiting = o.s.waiting,
           Credit(t) = Credit(o) + Counted(Meets(m, Paid)), Good(c, f, DomainsOf(nd), t)
    PROVE  Comes(c, f, told, nd, ch, rest, o, c, t)
<1>p. PICK D : D = DomainsOf(nd)
  OBVIOUS
<1>1. /\ SteadyAt(c, nd, ch, f, told, minted) /\ Remains(ch, rest) /\ Pairwise(rest)
      /\ Books(o) /\ o.n \in Node /\ o.s = nd[o.n] /\ o.found = {} /\ o.told = {} /\ o.minted = 0
      /\ \A q : Gains(o.out, q) = 0
  BY RemainsSound DEF Receives, Scene
<1>2. /\ Calm(o, t) /\ Books(t) /\ t.s.state = o.s.state /\ o.s.state = "READY"
      /\ t.found = {} /\ t.told = {} /\ t.minted = 0 /\ \A q : Gains(t.out, q) = 0
  BY <1>1 DEF Same, Receives
<1>3. \A q : UnderWay(ch, q) = UnderWay(rest, q) + Counted(Meets(m, q)) /\ UnderWay(rest, q) \in Nat
  BY <1>1, Counting DEF Receives
<1>4. UnderWay(rest, Paid) + Credit(t) = UnderWay(ch, Paid) + Credit(o) + t.minted
  <2>p. PICK x, y, z : x = UnderWay(rest, Paid) /\ y = Credit(o) /\ z = Counted(Meets(m, Paid))
    OBVIOUS
  <2>1. x \in Nat /\ y \in Nat /\ z \in {0, 1} /\ UnderWay(ch, Paid) = x + z
    BY <1>1, <1>3, <2>p, NumbersOf, OneOrNone
  <2>2. Credit(t) = y + z
    BY <2>p
  <2> QED BY <1>2, <2>1, <2>2, <2>p
<1>5. ASSUME NEW q, q.types \cap {"TOKEN", "UPDATE", "KEYLIST"} = {}
      PROVE  UnderWay(rest, q) = UnderWay(ch, q)
  <2>1. Counted(Meets(m, q)) = 0
    BY <1>5 DEF Counted, Meets
  <2>2. UnderWay(ch, q) = UnderWay(rest, q) + 0 /\ UnderWay(rest, q) \in Nat
    BY <1>3, <2>1
  <2> QED BY <2>2
<1>6. \A id \in Ids : /\ UnderWay(rest, Walks(id)) = UnderWay(ch, Walks(id)) /\ Gains(t.out, Walks(id)) = 0
                      /\ \A h \in Node : /\ UnderWay(rest, Answers(id, h)) = UnderWay(ch, Answers(id, h))
                                         /\ Gains(t.out, Answers(id, h)) = 0
  BY <1>2, <1>5 DEF Walks, Answers
<1>7. Quiet(c, f, D, ch, rest, o, t)
  <2>1. t.s.state \in {"READY", "CRASH"} /\ t.minted \in Nat /\ Good(c, f, D, t)
    BY <1>2, <1>p
  <2> QED BY <1>2, <1>4, <1>6, <2>1 DEF Quiet
<1>8. Turn(c, f, told, nd, ch, rest, D, o, c, t)
  BY <1>1, <1>7, <1>p, QuietTurn
<1> QED BY <1>2, <1>8, <1>p DEF Comes

LEMMA UpdateComes ==
    ASSUME NEW c, NEW f, NEW told, NEW nd, NEW ch, NEW minted, NEW rest, NEW o, NEW from, NEW m,
           Receives(c, f, told, nd, ch, minted, rest, o, from, m), m.type = "UPDATE", NEW t, Keeps(o, t)
    PROVE  Comes(c, f, told, nd, ch, rest, o, c, t)
<1>1. Books(o) /\ Good(c, f, DomainsOf(nd), o)
  BY SceneIsGood DEF Receives, Scene
<1>2. Same(o, t) /\ Credit(t) = Credit(o) /\ Good(c, f, DomainsOf(nd), t)
  BY <1>1, KeepsCounts
<1>3. t.out = o.out /\ t.s.waiting = o.s.waiting
  BY DEF Keeps
<1>4. Credit(t) = Credit(o) + Counted(Meets(m, Paid))
  <2>1. Counted(Meets(m, Paid)) = 0
    BY DEF Counted, Meets, Paid
  <2>2. Credit(o) \in Nat
    BY <1>1, NumbersOf
  <2> QED BY <1>2, <2>1, <2>2
<1> QED BY <1>2, <1>3, <1>4, QuietComes

LEMMA KeyListComes ==
    ASSUME NEW c, NEW f, NEW told, NEW nd, NEW ch, NEW minted, NEW rest, NEW o, NEW from, NEW m,
           Receives(c, f, told, nd, ch, minted, rest, o, from, m), m.type = "KEYLIST",
           NEW t, t = [o EXCEPT !.s.neighbors[from].keys = TRUE]
    PROVE  Comes(c, f, told, nd, ch, rest, o, c, t)
<1>1. Books(o) /\ Good(c, f, DomainsOf(nd), o) /\ from \in DOMAIN o.s.neighbors
  BY SceneIsGood DEF Receives, Scene
<1>p. PICK e : e = [o.s.neighbors[from] EXCEPT !.keys = TRUE]
  OBVIOUS
<1>2. IsInfo(e) /\ e.received = o.s.neighbors[from].received
  <2>1. IsInfo(o.s.neighbors[from])
    BY <1>1, InfosOf
  <2> QED BY <1>p, <2>1 DEF IsInfo, InfoFields
<1>3. Revised(o, from, e, t)
  BY <1>p DEF Revised
<1>4. /\ Same(o, t) /\ t.out = o.out /\ t.s.waiting = o.s.waiting
      /\ Good(c, f, DomainsOf(nd), t)
      /\ e.received = o.s.neighbors[from].received => Keeps(o, t)
  <2>1. Books(o) /\ from \in DOMAIN o.s.neighbors /\ IsInfo(e) /\ Revised(o, from, e, t)
    BY <1>1, <1>2, <1>3
  <2>2. /\ Same(o, t) /\ t.out = o.out /\ t.s.waiting = o.s.waiting
        /\ e.received = o.s.neighbors[from].received => Keeps(o, t)
    BY ONLY <2>1, NeighborCounts
  <2>3. \A c1, f1, D1 : Good(c1, f1, D1, o) => Good(c1, f1, D1, t)
    BY ONLY <2>1, NeighborCounts
  <2> QED BY <1>1, <2>2, <2>3
<1>5. Credit(t) = Credit(o)
  BY <1>1, <1>2, <1>4, KeepsCounts
<1>6. Credit(t) = Credit(o) + Counted(Meets(m, Paid))
  <2>1. Counted(Meets(m, Paid)) = 0
    BY DEF Counted, Meets, Paid
  <2>2. Credit(o) \in Nat
    BY <1>1, NumbersOf
  <2> QED BY <1>5, <2>1, <2>2
<1> QED BY <1>4, <1>6, QuietComes

LEMMA TokenComes ==
    ASSUME NEW c, NEW f, NEW told, NEW nd, NEW ch, NEW minted, NEW rest, NEW o, NEW from, NEW m,
           Receives(c, f, told, nd, ch, minted, rest, o, from, m), m.type = "TOKEN", NEW u, Keeps(o, u),
           NEW t, t = [u EXCEPT !.s.neighbors[from].received = @ + 1]
    PROVE  Comes(c, f, told, nd, ch, rest, o, c, t)
<1>1. Books(o) /\ Good(c, f, DomainsOf(nd), o) /\ from \in DOMAIN o.s.neighbors
  BY SceneIsGood DEF Receives, Scene
<1>2. /\ Same(o, u) /\ Credit(u) = Credit(o) /\ Good(c, f, DomainsOf(nd), u)
      /\ u.out = o.out /\ u.s.waiting = o.s.waiting
  BY <1>1, KeepsCounts DEF Keeps
<1>3. Books(u) /\ from \in DOMAIN u.s.neighbors
  BY <1>1, <1>2 DEF Same, Calm, Alike
<1>p. PICK e : e = [u.s.neighbors[from] EXCEPT !.received = u.s.neighbors[from].received + 1]
  OBVIOUS
<1>4. IsInfo(e) /\ e.received = u.s.neighbors[from].received + 1
  <2>1. IsInfo(u.s.neighbors[from])
    BY <1>3, InfosOf
  <2> QED BY <1>p, <2>1, SMTT(30) DEF IsInfo, InfoFields
<1>5. Revised(u, from, e, t)
  BY <1>p DEF Revised
<1>6. /\ Same(u, t) /\ t.out = u.out /\ t.s.waiting = u.s.waiting
      /\ Good(c, f, DomainsOf(nd), t)
      /\ u.s.neighbors[from].received \in Nat
      /\ Tokens(t.s.neighbors) + u.s.neighbors[from].received = Tokens(u.s.neighbors) + e.received
  <2>1. Books(u) /\ from \in DOMAIN u.s.neighbors /\ IsInfo(e) /\ Revised(u, from, e, t)
    BY <1>3, <1>4, <1>5
  <2>2. /\ Same(u, t) /\ t.out = u.out /\ t.s.waiting = u.s.waiting
        /\ u.s.neighbors[from].received \in Nat
        /\ Tokens(t.s.neighbors) + u.s.neighbors[from].received = Tokens(u.s.neighbors) + e.received
    BY ONLY <2>1, NeighborCounts
  <2>3. \A c1, f1, D1 : Good(c1, f1, D1, u) => Good(c1, f1, D1, t)
    BY ONLY <2>1, NeighborCounts
  <2> QED BY <1>2, <2>2, <2>3
<1>7. Books(t)
  BY <1>6 DEF Same
<1>8. Credit(t) = Credit(u) + 1
  <2>p. PICK x, y, z, g, p : /\ x = Tokens(t.s.neighbors) /\ y = Tokens(u.s.neighbors) /\ z = u.s.neighbors[from].received
                             /\ g = Gains(u.out, Paid) /\ p = Unpaid(u.s)
    OBVIOUS
  <2>1. x \in Nat /\ y \in Nat /\ z \in Nat /\ g \in Nat /\ p \in Nat
    BY <1>3, <1>6, <1>7, <2>p, BooksAreNumbers
  <2>2. x + z = y + (z + 1)
    BY <1>4, <1>6, <2>p
  <2>3. Credit(u) = y + g + p /\ Credit(t) = x + g + p
    <3>1. Unpaid(t.s) = Unpaid(u.s) /\ Gains(t.out, Paid) = Gains(u.out, Paid)
      BY <1>6 DEF Unpaid
    <3> QED BY <2>p, <3>1 DEF Credit
  <2> QED BY <2>1, <2>2, <2>3
<1>9. Same(o, t)
  <2>1. Calm(o, t)
    BY <1>2, <1>6, CalmIsTransitive DEF Same
  <2> QED BY <1>2, <1>6, <2>1 DEF Same
<1>10. Credit(t) = Credit(o) + Counted(Meets(m, Paid))
  <2>1. Counted(Meets(m, Paid)) = 1
    BY DEF Counted, Meets, Paid
  <2> QED BY <1>2, <1>8, <2>1
<1> QED BY <1>2, <1>6, <1>9, <1>10, QuietComes

\* Whatever packet comes.
LEMMA HandleComes ==
    ASSUME NEW c, NEW f, NEW told, NEW nd, NEW ch, NEW minted, NEW rest, NEW o, NEW from, NEW m,
           Receives(c, f, told, nd, ch, minted, rest, o, from, m), NEW boot, NEW t, t = Handle(o, from, m, boot)
    PROVE  Comes(c, f, told, nd, ch, rest, o, c, t)
<1>p. PICK u : u = UpdateNeighborList(o, from, m.degree)
  OBVIOUS
<1>1. Keeps(o, u) /\ from \in DOMAIN o.s.neighbors /\ o.s.state = "READY"
  BY <1>p, UpdateCounts DEF Receives, Scene
<1>2. m.type \in {"UPDATE", "TOKEN", "KEYLIST", "SEARCH", "ROUTE", "ANSWER"}
  BY DEF Receives, PacketOK, Types, Fine
<1>3. CASE m.type = "UPDATE"
  <2>1. t = u
    BY <1>3, <1>p DEF Handle
  <2> QED BY <1>1, <1>3, <2>1, UpdateComes
<1>4. CASE m.type = "TOKEN"
  <2>1. t = [u EXCEPT !.s.neighbors[from].received = @ + 1]
    BY <1>1, <1>4, <1>p DEF Handle
  <2> QED BY <1>1, <1>4, <2>1, TokenComes
<1>5. CASE m.type = "KEYLIST"
  <2>1. t = [o EXCEPT !.s.neighbors[from].keys = TRUE]
    BY <1>1, <1>5 DEF Handle
  <2> QED BY <1>5, <2>1, KeyListComes
<1>6. CASE m.type = "SEARCH"
  <2>1. t = ProcessSearch(u, m, FALSE)
    BY <1>6, <1>p DEF Handle
  <2> QED BY <1>1, <1>6, <2>1, SearchComes
<1>7. CASE m.type = "ROUTE"
  <2>1. t = Forward(u, m, FALSE)
    BY <1>1, <1>7, <1>p DEF Handle
  <2> QED BY <1>1, <1>7, <2>1, RouteComes
<1>8. CASE m.type = "ANSWER"
  <2>1. t = ForwardAnswers(o, m.id, <<m.found>>, m.path)
    BY <1>8 DEF Handle
  <2> QED BY <1>8, <2>1, AnswerComes
<1> QED BY <1>2, <1>3, <1>4, <1>5, <1>6, <1>7, <1>8

LEMMA TakenFromChannel ==
    ASSUME NEW ch, Pairwise(ch), NEW n \in Node, NEW from \in Node, ch[<<from, n>>] # << >>, NEW rest,
           rest[<<from, n>>] = Tail(ch[<<from, n>>]),
           \A a, b \in Node : <<a, b>> # <<from, n>> => rest[<<a, b>>] = ch[<<a, b>>]
    PROVE  /\ Remains(ch, rest)
           /\ Len(ch[<<from, n>>]) \in Nat /\ 1 \in 1 .. Len(ch[<<from, n>>]) /\ Head(ch[<<from, n>>]) = ch[<<from, n>>][1]
           /\ \A q : UnderWay(ch, q) = UnderWay(rest, q) + Counted(Meets(Head(ch[<<from, n>>]), q))
<1>1. \A a, b \in Node : \/ rest[<<a, b>>] = ch[<<a, b>>]
                         \/ ch[<<a, b>>] # << >> /\ rest[<<a, b>>] = Tail(ch[<<a, b>>])
  <2> TAKE a, b \in Node
  <2>1. CASE <<a, b>> = <<from, n>>
    BY <2>1
  <2>2. CASE <<a, b>> # <<from, n>>
    BY <2>2
  <2> QED BY <2>1, <2>2
<1>2. Remains(ch, rest)
  BY <1>1 DEF Remains
<1>3. Len(ch[<<from, n>>]) \in Nat /\ 1 \in 1 .. Len(ch[<<from, n>>]) /\ Head(ch[<<from, n>>]) = ch[<<from, n>>][1]
  <2>p. PICK s : s = ch[<<from, n>>]
    OBVIOUS
  <2>1. IsSeq(s) /\ s # << >>
    BY <2>p DEF Pairwise
  <2>2. Len(s) \in Nat /\ Len(s) # 0 /\ Head(s) = s[1]
    BY <2>1, Sequences
  <2> QED BY <2>2, <2>p
<1>4. \A q : UnderWay(ch, q) = UnderWay(rest, q) + Counted(Meets(Head(ch[<<from, n>>]), q))
  BY UnderWayLess
<1> QED BY <1>2, <1>3, <1>4

LEMMA PacketReceived ==
    ASSUME IInv, Steady, history.steady, Running, NEW n \in Node, NEW from \in Node, channel[<<from, n>>] # << >>,
           NEW m, m = Head(channel[<<from, n>>]), NEW rest, rest[<<from, n>>] = Tail(channel[<<from, n>>]),
           \A a, b \in Node : <<a, b>> # <<from, n>> => rest[<<a, b>>] = channel[<<a, b>>], NEW o, o = Work(n)
    PROVE  Receives(config.searches, history.found, history.told, node, channel, history.minted, rest, o, from, m)
<1>c. PICK c, nd, ch, f, told, minted :
        /\ c = config.searches /\ nd = node /\ ch = channel /\ f = history.found /\ told = history.told
        /\ minted = history.minted
  OBVIOUS
<1>1. SteadyAt(c, nd, ch, f, told, minted) /\ Linking(nd, ch) /\ Pairwise(ch) /\ Books(o) /\ o.n = n /\ o.s = nd[n]
  <2>1. SteadyAt(c, nd, ch, f, told, minted)
    BY <1>c DEF Steady
  <2> QED BY <1>c, <2>1, Locally
<1>2. /\ o.found = {} /\ o.told = {} /\ o.minted = 0
      /\ (\A k \in Node : o.out[k] = << >>) /\ \A q : Gains(o.out, q) = 0
  BY WorkIsEmpty
<1>3. /\ Remains(ch, rest)
      /\ Len(ch[<<from, n>>]) \in Nat /\ 1 \in 1 .. Len(ch[<<from, n>>]) /\ m = ch[<<from, n>>][1]
      /\ \A q : UnderWay(ch, q) = UnderWay(rest, q) + Counted(Meets(m, q))
  <2>1. /\ ch[<<from, n>>] # << >> /\ rest[<<from, n>>] = Tail(ch[<<from, n>>])
        /\ \A a, b \in Node : <<a, b>> # <<from, n>> => rest[<<a, b>>] = ch[<<a, b>>]
    BY <1>c
  <2>2. /\ Remains(ch, rest)
        /\ Len(ch[<<from, n>>]) \in Nat /\ 1 \in 1 .. Len(ch[<<from, n>>]) /\ Head(ch[<<from, n>>]) = ch[<<from, n>>][1]
        /\ \A q : UnderWay(ch, q) = UnderWay(rest, q) + Counted(Meets(Head(ch[<<from, n>>]), q))
    BY <1>1, <2>1, TakenFromChannel
  <2>3. m = Head(ch[<<from, n>>])
    BY <1>c
  <2> QED BY <2>2, <2>3
<1>4. from \in DOMAIN o.s.neighbors
  <2>1. n \in DOMAIN nd[from].neighbors
    BY <1>1, <1>c DEF Linking
  <2> QED BY <1>1, <2>1 DEF Linking
<1>5. o.s.state = "READY"
  BY <1>1, <1>4, <1>c, LinkedIsReady
<1>6. PacketOK(m)
  BY <1>3, <1>c, ZenonT(30) DEF IInv, ChannelsOK, Packets
<1>7. Fine(c, f, DomainsOf(nd), from, o.n, m)
  BY <1>1, <1>3 DEF SteadyAt, Underway
<1>8. Scene(c, f, told, nd, ch, minted, rest, o)
  BY <1>1, <1>2, <1>3 DEF Scene
<1>9. Receives(c, f, told, nd, ch, minted, rest, o, from, m)
  BY <1>3, <1>4, <1>5, <1>6, <1>7, <1>8 DEF Receives
<1> QED BY <1>9, <1>c

LEMMA HandleUDPMessageIsSteady ==
    ASSUME IInv, Steady, NEW n \in Node, NEW from \in Node, HandleUDPMessage(from, n)
    PROVE  Steady'
<1>1. PICK boot \in Boots(n) :
        LET m == Head(channel[<<from, n>>])
            r == Handle(Work(n), from, m, boot)
        IN  Finish(r, [channel EXCEPT ![<<from, n>>] = Tail(@)],
                   [history EXCEPT
                      !.dropped = IF from \in DOMAIN r.s.neighbors THEN @ \ {<<n, from>>} ELSE @,
                      !.refused = IF from \notin r.s.neighCand THEN @ \ {<<n, from>>}
                                  ELSE IF m.type = "ACK" THEN @ \cup {<<n, from>>} ELSE @])
  BY DEF HandleUDPMessage
<1>o. PICK o : o = Work(n)
  OBVIOUS
<1>a. PICK m, t : m = Head(channel[<<from, n>>]) /\ t = Handle(o, from, m, boot)
  OBVIOUS
<1>b. PICK rest : rest = [channel EXCEPT ![<<from, n>>] = Tail(@)]
  OBVIOUS
<1>c. PICK dropped, refused :
      /\ dropped = IF from \in DOMAIN t.s.neighbors THEN history.dropped \ {<<n, from>>} ELSE history.dropped
      /\ refused = IF from \notin t.s.neighCand THEN history.refused \ {<<n, from>>}
                   ELSE IF m.type = "ACK" THEN history.refused \cup {<<n, from>>} ELSE history.refused
  OBVIOUS
<1>d. PICK past : past = [history EXCEPT !.dropped = dropped, !.refused = refused]
  OBVIOUS
<1>2. Finish(t, rest, past)
  BY <1>1, <1>a, <1>b, <1>c, <1>d, <1>o
<1>3. Unaffected(past)
  BY <1>d DEF Unaffected, IInv, HistoryFields
<1>4. /\ channel[<<from, n>>] # << >> /\ Running
      /\ rest[<<from, n>>] = Tail(channel[<<from, n>>])
      /\ \A a, b \in Node : <<a, b>> # <<from, n>> => rest[<<a, b>>] = channel[<<a, b>>]
  <2>1. channel[<<from, n>>] # << >> /\ Running
    BY <1>2 DEF HandleUDPMessage, Finish
  <2> QED BY <1>b, <2>1 DEF IInv, ChannelsOK
<1>5. config' = config
  BY DEF HandleUDPMessage
<1>6. ASSUME history.steady
      PROVE  /\ Pairwise(rest) /\ Calm(o, t) /\ Books(t) /\ t.told \cap history.told = {}
             /\ config'.requests = config.requests /\ config'.timeouts = config.timeouts
             /\ Turn(config.searches, history.found, history.told, node, channel, rest, DomainsOf(node), o,
                     config'.searches, t)
  <2>p. PICK c, nd, ch, f, told, minted : /\ c = config.searches /\ nd = node /\ ch = channel /\ f = history.found
                                          /\ told = history.told /\ minted = history.minted
    OBVIOUS
  <2>1. Receives(c, f, told, nd, ch, minted, rest, o, from, m)
    BY <1>4, <1>6, <1>a, <1>o, <2>p, PacketReceived
  <2>2. Comes(c, f, told, nd, ch, rest, o, c, t)
    BY <1>a, <2>1, HandleComes
  <2>3. Pairwise(rest)
    BY <2>1, RemainsSound DEF Receives, Scene
  <2> QED BY <1>5, <2>2, <2>3, <2>p DEF Comes
<1> QED BY <1>2, <1>3, <1>6, <1>o, SteadyStep

\* A node that takes no packet.
LEMMA SceneAt ==
    ASSUME IInv, Steady, history.steady, NEW n \in Node, NEW o, o = Work(n)
    PROVE  /\ Scene(config.searches, history.found, history.told, node, channel, history.minted, channel, o)
           /\ o.n = n
<1>1. SteadyAt(config.searches, node, channel, history.found, history.told, history.minted)
  BY DEF Steady
<1>2. Books(o) /\ o.n = n /\ o.s = node[n] /\ Pairwise(channel)
  BY Locally
<1>3. /\ o.found = {} /\ o.told = {} /\ o.minted = 0
      /\ (\A k \in Node : o.out[k] = << >>) /\ \A q : Gains(o.out, q) = 0
  BY WorkIsEmpty
<1>4. Remains(channel, channel)
  BY <1>2 DEF Remains
<1> QED BY <1>1, <1>2, <1>3, <1>4 DEF Scene

LEMMA NoNeighborNoTokens ==
    ASSUME NEW r, Books(r), DOMAIN r.s.neighbors = {}, \A q : Gains(r.out, q) = 0, Unpaid(r.s) = 0
    PROVE  Credit(r) = 0
<1>p. PICK F : F = [m \in DOMAIN r.s.neighbors |-> r.s.neighbors[m].received]
  OBVIOUS
<1>1. Addable(F) /\ DOMAIN F = {}
  BY <1>p, BooksAreNumbers
<1>2. Tokens(r.s.neighbors) = 0
  BY <1>1, <1>p, TotalIsNat DEF Tokens
<1> QED BY <1>2 DEF Credit

LEMMA OneWaitsLess ==
    ASSUME NEW s, IsFiniteSet(s.waiting), NEW w \in s.waiting, NEW v, v.waiting = s.waiting \ {w}
    PROVE  /\ Unpaid(s) = Unpaid(v) + Counted(~w.fromApp)
           /\ \A id : Waiting(s, id) = Waiting(v, id) + Counted(w.msg.id = id)
<1>1. IsFiniteSet(v.waiting)
  BY FS_Subset
<1>2. Unpaid(s) = Unpaid(v) + Counted(~w.fromApp)
  <2>p. PICK S, T, b : S = {x \in v.waiting : ~x.fromApp} /\ T = {x \in s.waiting : ~x.fromApp} /\ b = ~w.fromApp
    OBVIOUS
  <2>1. IsFiniteSet(S)
    <3>1. S \subseteq v.waiting
      BY <2>p
    <3> QED BY <1>1, <3>1, FS_Subset
  <2>2. w \notin S /\ T = IF b THEN S \cup {w} ELSE S
    BY <2>p
  <2>3. Cardinality(T) = Cardinality(S) + Counted(b)
    BY ONLY <2>1, <2>2, OneElement
  <2> QED BY <2>3, <2>p DEF Unpaid
<1>3. ASSUME NEW id
      PROVE  Waiting(s, id) = Waiting(v, id) + Counted(w.msg.id = id)
  <2>p. PICK S, T, b : S = {x \in v.waiting : x.msg.id = id} /\ T = {x \in s.waiting : x.msg.id = id} /\ b = (w.msg.id = id)
    OBVIOUS
  <2>1. IsFiniteSet(S)
    <3>1. S \subseteq v.waiting
      BY <2>p
    <3> QED BY <1>1, <3>1, FS_Subset
  <2>2. w \notin S /\ T = IF b THEN S \cup {w} ELSE S
    BY <2>p
  <2>3. Cardinality(T) = Cardinality(S) + Counted(b)
    BY ONLY <2>1, <2>2, OneElement
  <2> QED BY <2>3, <2>p DEF Waiting
<1> QED BY <1>2, <1>3

LEMMA WaiterTaken ==
    ASSUME NEW c, NEW f, NEW told, NEW nd, NEW ch, NEW minted, NEW o, Scene(c, f, told, nd, ch, minted, ch, o),
           NEW w \in o.s.waiting, NEW s, s = [o.s EXCEPT !.waiting = o.s.waiting \ {w}], NEW u, u = [o EXCEPT !.s = s]
    PROVE  Taken(c, told, ch, ch, o, u, c, w.msg, w.fromApp) /\ Taking(o, u) /\ Mail(w.msg)
           /\ Carried(c, f, DomainsOf(nd), o.n, w.msg)
<1>p. PICK m, V : m = w.msg /\ V = o.s.waiting \ {w}
  OBVIOUS
<1>1. /\ Books(o) /\ o.found = {} /\ o.told = {} /\ o.minted = 0 /\ \A q : Gains(o.out, q) = 0
      /\ Carried(c, f, DomainsOf(nd), o.n, m) /\ Pairwise(ch) /\ IsFiniteSet(o.s.waiting)
      /\ (DOMAIN o.s.neighbors = {} => Unpaid(o.s) = 0)
  BY <1>p DEF Scene, SteadyAt, Linking, WaitsAt, Remains, Books
<1>2. Mail(m) /\ c[m.id].origin = None /\ m.id \in Ids
  BY <1>1, CarriedIsMail DEF Mail
<1>3. /\ s = [x \in NodeFields |-> s[x]] /\ s.state = o.s.state /\ s.neighbors = o.s.neighbors
      /\ s.degree = o.s.degree /\ s.neighCand = o.s.neighCand /\ s.knownNodes = o.s.knownNodes
      /\ s.waiting = V /\ \A v \in s.waiting : MessageOK(v.msg)
  <2>1. StateOK(o.n, o.s)
    BY <1>1 DEF Books, WorkOK
  <2> QED BY <1>p, <2>1 DEF StateOK, NodeFields
<1>4. /\ IsFiniteSet(s.waiting) /\ Unpaid(o.s) = Unpaid(s) + Counted(~w.fromApp)
      /\ \A id : Waiting(o.s, id) = Waiting(s, id) + Counted(w.msg.id = id)
  <2>p. PICK r : r = o.s
    OBVIOUS
  <2>1. IsFiniteSet(r.waiting) /\ w \in r.waiting /\ s.waiting = r.waiting \ {w}
    BY <1>1, <1>3, <1>p, <2>p
  <2>2. Unpaid(r) = Unpaid(s) + Counted(~w.fromApp)
    BY ONLY <2>1, OneWaitsLess DEF Counted
  <2>3. \A id : Waiting(r, id) = Waiting(s, id) + Counted(w.msg.id = id)
    BY ONLY <2>1, OneWaitsLess
  <2>4. s.waiting \subseteq r.waiting
    BY <2>1
  <2>5. IsFiniteSet(s.waiting)
    BY <2>1, <2>4, FS_Subset
  <2> QED BY <2>2, <2>3, <2>5, <2>p
<1>5. Same(o, u) /\ u.s = s /\ u.out = o.out /\ Tokens(u.s.neighbors) = Tokens(o.s.neighbors)
  <2>1. u = [o EXCEPT !.s = s]
    OBVIOUS
  <2> QED BY ONLY <1>1, <1>3, <1>4, <2>1, StateCounts
<1>6. /\ Calm(o, u) /\ Books(u) /\ u.s.state = o.s.state /\ u.found = {} /\ u.told = {} /\ u.minted = 0
      /\ \A q : Gains(u.out, q) = 0
      /\ DOMAIN u.s.neighbors = DOMAIN o.s.neighbors
  BY <1>1, <1>5 DEF Same, Calm, Alike
<1>7. Unpaid(o.s) = Unpaid(u.s) + Counted(~w.fromApp) /\ Unpaid(u.s) \in Nat
  <2>1. Unpaid(u.s) \in Nat
    BY <1>6, BooksAreNumbers
  <2> QED BY <1>4, <1>5, <2>1
<1>8. \A id : Waiting(o.s, id) = Waiting(u.s, id) + Counted(w.msg.id = id) /\ Waiting(u.s, id) \in Nat
  <2>1. \A id : Waiting(u.s, id) \in Nat
    BY <1>6, BooksAreNumbers
  <2> QED BY <1>4, <1>5, <2>1
<1>9. UnderWay(ch, Paid) + Credit(u) + Counted(~w.fromApp) = UnderWay(ch, Paid) + Credit(o)
  <2>p. PICK x, a, b, z : /\ x = UnderWay(ch, Paid) /\ a = Tokens(u.s.neighbors) /\ b = Unpaid(u.s)
                          /\ z = Counted(~w.fromApp)
    OBVIOUS
  <2>1. x \in Nat /\ a \in Nat /\ b \in Nat /\ z \in {0, 1}
    BY <1>1, <1>6, <2>p, Counting, BooksAreNumbers, OneOrNone
  <2>2. Credit(u) = a + 0 + b
    BY <1>6, <2>p DEF Credit
  <2>3. Credit(o) = a + 0 + (b + z)
    BY <1>1, <1>5, <1>7, <2>p DEF Credit
  <2> QED BY ONLY <2>1, <2>2, <2>3, <2>p
<1>10. DOMAIN u.s.neighbors = {} => w.fromApp /\ Credit(u) = 0
  <2> SUFFICES ASSUME DOMAIN u.s.neighbors = {} PROVE w.fromApp /\ Credit(u) = 0
    OBVIOUS
  <2>1. Unpaid(o.s) = 0 /\ Counted(~w.fromApp) \in {0, 1}
    BY <1>1, <1>6, OneOrNone
  <2>2. Unpaid(u.s) = 0 /\ Counted(~w.fromApp) = 0
    BY <1>7, <2>1
  <2>3. w.fromApp
    BY <2>2 DEF Counted
  <2>4. Credit(u) = 0
    BY <1>6, <2>2, NoNeighborNoTokens
  <2> QED BY <2>3, <2>4
<1>11. ASSUME NEW id \in Ids
       PROVE  UnderWay(ch, Walks(id)) + Walkers(u, id) + Beside(c, told, id) + Counted(id = m.id)
                  <= UnderWay(ch, Walks(id)) + Walkers(o, id) + Beside(c, told, id)
  <2>p. PICK x, y, z, b : /\ x = UnderWay(ch, Walks(id)) /\ y = Waiting(u.s, id) /\ z = Counted(id = m.id)
                          /\ b = Beside(c, told, id)
    OBVIOUS
  <2>1. x \in Nat /\ y \in Nat /\ z \in {0, 1} /\ b \in Nat
    BY <1>1, <1>8, <2>p, Counting, OneOrNone, BesideIsNat
  <2>2. Walkers(u, id) = y /\ Walkers(o, id) = y + z
    <3>1. Counted(w.msg.id = id) = z
      BY <1>p, <2>p DEF Counted
    <3>2. Waiting(o.s, id) = y + z
      BY <1>8, <2>p, <3>1
    <3>3. Gains(u.out, Walks(id)) = 0 /\ Gains(o.out, Walks(id)) = 0
      BY <1>1, <1>6
    <3>4. Walkers(u, id) = 0 + y /\ Walkers(o, id) = 0 + (y + z)
      BY <2>p, <3>2, <3>3 DEF Walkers
    <3> QED BY ONLY <2>1, <3>4
  <2> QED BY ONLY <2>1, <2>2, <2>p
<1>12. Taken(c, told, ch, ch, o, u, c, m, w.fromApp)
  BY <1>2, <1>6, <1>9, <1>10, <1>11 DEF Taken
<1>13. Taking(o, u)
  BY <1>3, <1>5, <1>p DEF Taking
<1> QED BY <1>1, <1>2, <1>12, <1>13, <1>p

LEMMA WaitForTokenIsSteady ==
    ASSUME IInv, Steady, NEW n \in Node, WaitForToken(n)
    PROVE  Steady'
<1>1. PICK w \in node[n].waiting :
        Finishes(Forward([Work(n) EXCEPT !.s.waiting = @ \ {w}], w.msg, w.fromApp))
  BY DEF WaitForToken
<1>o. PICK o : o = Work(n)
  OBVIOUS
<1>2. o.s = node[n]
  BY <1>o, WorkIsEmpty
<1>s. PICK s : s = [o.s EXCEPT !.waiting = o.s.waiting \ {w}]
  OBVIOUS
<1>u. PICK u : u = [o EXCEPT !.s = s]
  OBVIOUS
<1>3. [Work(n) EXCEPT !.s.waiting = @ \ {w}] = u
  BY <1>o, <1>s, <1>u
<1>t. PICK t : t = Forward(u, w.msg, w.fromApp)
  OBVIOUS
<1>4. Leave(t) /\ config' = config
  BY <1>1, <1>3, <1>t DEF Finishes
<1>5. Finish(t, channel, history) /\ Unaffected(history)
  BY <1>4 DEF IInv, Unaffected, Leave
<1>6. ASSUME history.steady
      PROVE  /\ Pairwise(channel) /\ Calm(o, t) /\ Books(t) /\ t.told \cap history.told = {}
             /\ config'.requests = config.requests /\ config'.timeouts = config.timeouts
             /\ Turn(config.searches, history.found, history.told, node, channel, channel, DomainsOf(node), o,
                     config'.searches, t)
  <2>p. PICK c, nd, ch, f, told, minted : /\ c = config.searches /\ nd = node /\ ch = channel /\ f = history.found
                                          /\ told = history.told /\ minted = history.minted
    OBVIOUS
  <2>1. Scene(c, f, told, nd, ch, minted, ch, o)
    BY <1>6, <1>o, <2>p, SceneAt
  <2>2. w \in o.s.waiting
    BY <1>1, <1>2
  <2>3. Taken(c, told, ch, ch, o, u, c, w.msg, w.fromApp) /\ Taking(o, u) /\ Mail(w.msg)
        /\ Carried(c, f, DomainsOf(nd), o.n, w.msg)
    BY <1>s, <1>u, <2>1, <2>2, WaiterTaken
  <2>4. Apart(c, f, c, f, w.msg.id)
    BY NothingApart
  <2>5. Comes(c, f, told, nd, ch, ch, o, c, t)
    BY <1>t, <2>1, <2>3, <2>4, ForwardTaken
  <2>6. Pairwise(ch)
    BY <2>1 DEF Scene, Remains
  <2> QED BY <1>4, <2>5, <2>6, <2>p DEF Comes
<1> QED BY <1>5, <1>6, <1>o, SteadyStep

LEMMA AskedApart ==
    ASSUME NEW c, NEW id \in Ids, NEW c2, Asks(c, id, c2), NEW f, NEW told
    PROVE  /\ Apart(c, f, c2, f, id)
           /\ \A j \in Ids : Beside(c2, told, j) + Counted(j = id) = Beside(c, told, j) /\ Beside(c2, told, j) \in Nat
<1>1. Apart(c, f, c2, f, id)
  BY DEF Asks, Apart
<1>2. ASSUME NEW j \in Ids
      PROVE  Beside(c2, told, j) + Counted(j = id) = Beside(c, told, j) /\ Beside(c2, told, j) \in Nat
  <2>1. Reached(c2, told, j) <=> Reached(c, told, j)
    BY <1>1 DEF Apart, Reached
  <2>p. PICK b : b = Counted(Reached(c, told, j))
    OBVIOUS
  <2>2. b \in {0, 1} /\ Counted(Reached(c2, told, j)) = b
    BY <2>1, <2>p DEF Counted
  <2>3. CASE j = id
    <3>1. Counted(c[j].origin # None) = 1 /\ Counted(c2[j].origin # None) = 0 /\ Counted(j = id) = 1
      BY <2>3 DEF Counted, Asks
    <3>2. Beside(c, told, j) = 1 + b /\ Beside(c2, told, j) = 0 + b
      BY <2>2, <2>p, <3>1 DEF Beside
    <3> QED BY <2>2, <3>1, <3>2
  <2>4. CASE j # id
    <3>1. Counted(j = id) = 0
      BY <2>4 DEF Counted
    <3>2. c2[j] = c[j]
      BY <2>4 DEF Asks
    <3>3. Beside(c2, told, j) = Beside(c, told, j)
      BY <2>2, <2>p, <3>2 DEF Beside
    <3>4. Beside(c2, told, j) \in Nat
      BY BesideIsNat
    <3> QED BY <3>1, <3>3, <3>4
  <2> QED BY <2>3, <2>4
<1> QED BY <1>1, <1>2

LEMMA RequestTaken ==
    ASSUME NEW c, NEW f, NEW told, NEW nd, NEW ch, NEW minted, NEW o, Scene(c, f, told, nd, ch, minted, ch, o),
           NEW id \in Ids, NEW c2, Asks(c, id, c2), NEW m, m.id = id
    PROVE  Taken(c, told, ch, ch, o, o, c2, m, TRUE) /\ Taking(o, o) /\ Apart(c, f, c2, f, m.id)
<1>1. /\ Books(o) /\ o.found = {} /\ o.told = {} /\ o.minted = 0 /\ \A q : Gains(o.out, q) = 0
      /\ Pairwise(ch) /\ (DOMAIN o.s.neighbors = {} => Unpaid(o.s) = 0)
  BY DEF Scene, SteadyAt, Linking, Remains
<1>2. Calm(o, o)
  BY <1>1, CalmIsReflexive DEF Books
<1>3. DOMAIN o.s.neighbors = {} => Credit(o) = 0
  BY <1>1, NoNeighborNoTokens
<1>4. UnderWay(ch, Paid) + Credit(o) + Counted(~TRUE) = UnderWay(ch, Paid) + Credit(o)
  <2>p. PICK x, y : x = UnderWay(ch, Paid) /\ y = Credit(o)
    OBVIOUS
  <2>1. x \in Nat /\ y \in Nat
    BY <1>1, <2>p, Counting, NumbersOf
  <2>2. Counted(~TRUE) = 0
    BY DEF Counted
  <2> QED BY <2>1, <2>2, <2>p
<1>5. /\ Apart(c, f, c2, f, id)
      /\ \A j \in Ids : Beside(c2, told, j) + Counted(j = id) = Beside(c, told, j) /\ Beside(c2, told, j) \in Nat
  BY AskedApart
<1>6. ASSUME NEW j \in Ids
      PROVE  UnderWay(ch, Walks(j)) + Walkers(o, j) + Beside(c2, told, j) + Counted(j = m.id)
                 <= UnderWay(ch, Walks(j)) + Walkers(o, j) + Beside(c, told, j)
  <2>p. PICK x, y, z, b : x = UnderWay(ch, Walks(j)) /\ y = Walkers(o, j) /\ z = Counted(j = id) /\ b = Beside(c2, told, j)
    OBVIOUS
  <2>1. x \in Nat /\ y \in Nat /\ z \in {0, 1} /\ b \in Nat
    BY <1>1, <1>5, <2>p, Counting, NumbersOf, OneOrNone
  <2>2. Beside(c, told, j) = b + z
    BY <1>5, <2>p
  <2> QED BY ONLY <2>1, <2>2, <2>p, m.id = id
<1>7. Taking(o, o)
  BY DEF Taking
<1> QED BY <1>1, <1>2, <1>3, <1>4, <1>5, <1>6, <1>7 DEF Taken, Asks

\* The node is not ready, and the request is lost.
LEMMA RequestLost ==
    ASSUME NEW c, NEW f, NEW told, NEW nd, NEW ch, NEW minted, NEW o, Scene(c, f, told, nd, ch, minted, ch, o),
           NEW id \in Ids, NEW c2, Asks(c, id, c2)
    PROVE  Comes(c, f, told, nd, ch, ch, o, c2, o)
<1>m. PICK m : m = [id |-> id]
  OBVIOUS
<1>d. PICK D : D = DomainsOf(nd)
  OBVIOUS
<1>0. m.id = id
  BY <1>m
<1>1. Taken(c, told, ch, ch, o, o, c2, m, TRUE) /\ Taking(o, o) /\ Apart(c, f, c2, f, m.id)
  BY <1>0, RequestTaken
<1>2. /\ Underway(c2, f, D, ch) /\ Good(c2, f, D, o)
      /\ \A k \in Node \ {o.n} : WaitsAt(c2, f, D, k, nd[k])
  BY <1>1, <1>d, TakenAlone
<1>3. /\ SteadyAt(c, nd, ch, f, told, minted) /\ Linking(nd, ch) /\ Settled(c, f, told, ch) /\ Pairwise(ch)
      /\ Books(o) /\ o.n \in Node /\ o.s = nd[o.n] /\ o.found = {} /\ o.told = {} /\ o.minted = 0
      /\ \A q : Gains(o.out, q) = 0
  BY DEF Scene, SteadyAt, Remains
<1>4. f \cup o.found = f /\ told \cup o.told = told
  BY <1>3
<1>5. /\ DOMAIN o.s.neighbors # {} => o.s.state \in {"READY", "CRASH"}
      /\ DOMAIN o.s.neighbors = {} => Unpaid(o.s) = 0
  BY <1>3 DEF Linking
<1>6. /\ o.minted \in Nat /\ o.found \subseteq Ids \X Node /\ o.told \subseteq Ids \X Node
      /\ UnderWay(ch, Paid) + Credit(o) = UnderWay(ch, Paid) + Credit(o) + o.minted
  <2>1. UnderWay(ch, Paid) \in Nat /\ Credit(o) \in Nat
    BY <1>3, Counting, NumbersOf
  <2> QED BY <1>3, <2>1
<1>7. ASSUME NEW j \in Ids
      PROVE  UnderWay(ch, Walks(j)) + Walkers(o, j) + Beside(c2, told \cup o.told, j)
                 <= UnderWay(ch, Walks(j)) + Walkers(o, j) + Beside(c, told, j)
  <2>p. PICK x, y, z, b : x = UnderWay(ch, Walks(j)) /\ y = Walkers(o, j) /\ z = Counted(j = id) /\ b = Beside(c2, told, j)
    OBVIOUS
  <2>1. Beside(c2, told, j) + Counted(j = id) = Beside(c, told, j) /\ Beside(c2, told, j) \in Nat
    BY AskedApart
  <2>2. x \in Nat /\ y \in Nat /\ z \in {0, 1} /\ b \in Nat
    BY <1>3, <2>1, <2>p, Counting, NumbersOf, OneOrNone
  <2>3. Beside(c, told, j) = b + z
    BY <2>1, <2>p
  <2>4. Beside(c2, told \cup o.told, j) = b
    BY <1>4, <2>p
  <2> QED BY ONLY <2>2, <2>3, <2>4, <2>p
<1>8. \A j \in Ids : c2[j].origin # None => FoundFor(f \cup o.found, j) = {}
  BY <1>3, <1>4 DEF Settled, Asks
<1>9. \A j \in Ids : c2[j].dest = None => c[j].dest = None /\ c2[j].responses = c[j].responses
  BY DEF Asks
<1>10. \A j \in Ids : c2[j].dest = None => Cardinality(FoundFor(f \cup o.found, j)) <= c2[j].responses
  BY <1>3, <1>4, <1>9 DEF Settled
<1>11. ASSUME NEW j \in Ids, c2[j].dest = None, NEW h \in Node
       PROVE  UnderWay(ch, Answers(j, h)) + Gains(o.out, Answers(j, h)) + Counted(<<j, h>> \in told \cup o.told)
                  = Counted(<<j, h>> \in f \cup o.found)
  <2>1. UnderWay(ch, Answers(j, h)) + Counted(<<j, h>> \in told) = Counted(<<j, h>> \in f)
    BY <1>3, <1>9, <1>11 DEF Settled
  <2>2. UnderWay(ch, Answers(j, h)) \in Nat /\ Gains(o.out, Answers(j, h)) = 0
    BY <1>3, Counting
  <2> QED BY <1>4, <2>1, <2>2
<1>12. Turn(c, f, told, nd, ch, ch, D, o, c2, o)
  BY <1>2, <1>4, <1>5, <1>6, <1>7, <1>8, <1>10, <1>11 DEF Turn
<1>13. Calm(o, o)
  BY <1>3, CalmIsReflexive DEF Books
<1> QED BY <1>3, <1>12, <1>13, <1>d DEF Comes

LEMMA RequestComes ==
    ASSUME NEW c, NEW f, NEW told, NEW nd, NEW ch, NEW minted, NEW o, Scene(c, f, told, nd, ch, minted, ch, o),
           NEW id \in Ids, NEW c2, Asks(c, id, c2), c[id].dest \in Node \cup {None}, c[id].responses \in Nat,
           NEW m, m.id = id, Mail(m), m.dest = c[id].dest, (m.type = "SEARCH" <=> m.dest = None),
           m.responses = c[id].responses, m.path = << >>, m.found = {},
           NEW t, t = IF o.s.state # "READY" THEN o
                      ELSE IF m.type = "SEARCH" THEN ProcessSearch(o, m, TRUE) ELSE Forward(o, m, TRUE)
    PROVE  Comes(c, f, told, nd, ch, ch, o, c2, t)
<1>d. PICK D : D = DomainsOf(nd)
  OBVIOUS
<1>1. Taken(c, told, ch, ch, o, o, c2, m, TRUE) /\ Taking(o, o) /\ Apart(c, f, c2, f, m.id)
  BY RequestTaken
<1>2. c2[m.id].origin = None /\ c2[m.id].dest = m.dest /\ c2[m.id].responses = m.responses
  BY DEF Asks
<1>3. CASE o.s.state # "READY"
  BY <1>3, RequestLost
<1>4. CASE o.s.state = "READY" /\ m.type = "SEARCH"
  <2>1. t = ProcessSearch(o, m, TRUE) /\ m.dest = None
    BY <1>4
  <2>2. m.found = FoundFor(f, m.id)
    BY DEF Scene, SteadyAt, Settled, Asks
  <2>3. m.responses + Cardinality(m.found) = c2[m.id].responses
    BY <1>2, FS_EmptySet
  <2>4. m.path \in Seq(Node) /\ Way(D, m.path)
    <3>1. Len(<< >>) = 0 /\ << >> \in Seq(Node)
      BY EmptySeq
    <3>2. 1 .. 0 - 1 = {}
      OBVIOUS
    <3> QED BY <3>1, <3>2 DEF Way
  <2>5. Arrived(c2, f, D, o.n, m)
    BY <1>2, <1>4, <2>1, <2>2, <2>3, <2>4 DEF Arrived
  <2> QED BY <1>1, <1>d, <2>1, <2>5, SearchTaken
<1>5. CASE o.s.state = "READY" /\ m.type # "SEARCH"
  <2>1. t = Forward(o, m, TRUE) /\ m.dest # None
    BY <1>5
  <2>2. Carried(c2, f, D, o.n, m)
    BY <1>2, <2>1 DEF Carried, Mail
  <2> QED BY <1>1, <1>d, <2>1, <2>2, ForwardTaken
<1> QED BY <1>3, <1>4, <1>5

LEMMA HandleRequestIsSteady ==
    ASSUME IInv, Steady, NEW id \in Ids, HandleRequest(id)
    PROVE  Steady'
<1>p. PICK q, m, n : q = config.searches[id] /\ m = Request(id) /\ n = q.origin
  OBVIOUS
<1>1. config.searches \in [Ids -> [origin : Node \cup {None}, dest : Node \cup {None}, responses : Nat]]
  BY DEF IInv, Config
<1>2. n \in Node /\ q.origin # None /\ q.dest \in Node \cup {None} /\ q.responses \in Nat
      /\ q \in [origin : Node \cup {None}, dest : Node \cup {None}, responses : Nat]
  BY <1>1, <1>p DEF HandleRequest
<1>3. /\ m.id = id /\ Mail(m) /\ m.dest = q.dest /\ (m.type = "SEARCH" <=> m.dest = None)
      /\ m.responses = q.responses /\ m.path = << >> /\ m.found = {}
  BY <1>p DEF Request, Mail, MessageFields, IsMessage
<1>4. /\ Asks(config.searches, id, config'.searches)
      /\ config'.requests = config.requests /\ config'.timeouts = config.timeouts
  <2>p. PICK e, S : e = [q EXCEPT !.origin = None] /\ S = [config.searches EXCEPT ![id] = e]
    OBVIOUS
  <2>1. config' = [config EXCEPT !.searches = S]
    BY <1>p, <2>p DEF HandleRequest
  <2>2. config'.searches = S /\ config'.requests = config.requests /\ config'.timeouts = config.timeouts
    BY <2>1 DEF IInv, Config
  <2>3. e.origin = None /\ e.dest = q.dest /\ e.responses = q.responses
    BY <1>2, <2>p
  <2>4. S[id] = e /\ \A j \in Ids \ {id} : S[j] = config.searches[j]
    BY <1>1, <2>p
  <2> QED BY <1>2, <1>p, <2>2, <2>3, <2>4 DEF Asks
<1>o. PICK o : o = Work(n)
  OBVIOUS
<1>t. PICK t : t = IF o.s.state # "READY" THEN o
                   ELSE IF m.type = "SEARCH" THEN ProcessSearch(o, m, TRUE) ELSE Forward(o, m, TRUE)
  OBVIOUS
<1>5. Leave(t)
  BY <1>o, <1>p, <1>t DEF HandleRequest
<1>6. Finish(t, channel, history) /\ Unaffected(history)
  BY <1>5 DEF IInv, Unaffected, Leave
<1>7. ASSUME history.steady
      PROVE  /\ Pairwise(channel) /\ Calm(o, t) /\ Books(t) /\ t.told \cap history.told = {}
             /\ config'.requests = config.requests /\ config'.timeouts = config.timeouts
             /\ Turn(config.searches, history.found, history.told, node, channel, channel, DomainsOf(node), o,
                     config'.searches, t)
  <2>p. PICK c, nd, ch, f, told, minted, c2 : /\ c = config.searches /\ nd = node /\ ch = channel /\ f = history.found
                                              /\ told = history.told /\ minted = history.minted /\ c2 = config'.searches
    OBVIOUS
  <2>1. Scene(c, f, told, nd, ch, minted, ch, o)
    BY <1>2, <1>7, <1>o, <2>p, SceneAt
  <2>2. Asks(c, id, c2) /\ c[id].dest \in Node \cup {None} /\ c[id].responses \in Nat
        /\ m.dest = c[id].dest /\ m.responses = c[id].responses
    BY <1>2, <1>3, <1>4, <1>p, <2>p
  <2>3. Comes(c, f, told, nd, ch, ch, o, c2, t)
    BY <1>3, <1>t, <2>1, <2>2, RequestComes
  <2>4. Pairwise(ch)
    BY <2>1 DEF Scene, Remains
  <2> QED BY <1>4, <2>3, <2>4, <2>p DEF Comes
<1> QED BY <1>2, <1>6, <1>7, <1>o, SteadyStep

(***************************************************************************)
(* Every step, and the initial state                                       *)
(***************************************************************************)
LEMMA SteadyIsKept ==
    ASSUME IInv, Steady, [Next]_vars
    PROVE  Steady'
<1>1. CASE Next
  <2>1. CASE \E n, m \in Node : HandleUDPMessage(n, m)
    BY <2>1, HandleUDPMessageIsSteady
  <2>2. ASSUME NEW n \in Node,
               \/ JoinOverlay(n) \/ SatisfactionTimer(n) \/ UpdateTimer(n)
               \/ SendKeyListTimer(n) \/ SendTokenTimer(n) \/ TimedoutNeighbors(n)
               \/ TimedoutMessages(n) \/ WaitForToken(n) \/ HandlePut(n)
        PROVE  Steady'
    BY <2>2, JoinOverlayIsSteady, SatisfactionTimerIsSteady, UpdateTimerIsSteady, SendKeyListTimerIsSteady,
       SendTokenTimerIsSteady, TimedoutNeighborsIsSteady, TimedoutMessagesIsSteady, WaitForTokenIsSteady,
       HandlePutIsSteady
  <2>3. CASE \E id \in Ids : HandleRequest(id)
    BY <2>3, HandleRequestIsSteady
  <2> QED BY <1>1, <2>1, <2>2, <2>3 DEF Next
<1>2. CASE UNCHANGED vars
  <2>1. config' = config /\ node' = node /\ channel' = channel /\ history' = history
    BY <1>2 DEF vars
  <2> QED BY <2>1 DEF Steady
<1> QED BY <1>1, <1>2

LEMMA NothingUnderWay ==
    ASSUME NEW ch, \A n, k \in Node : ch[<<n, k>>] = << >>, NEW q
    PROVE  UnderWay(ch, q) = 0
<1>1. IsSeq(<< >>) /\ Count(<< >>, q) = 0
  BY NothingIsSaid, CountIsNat
<1>2. Total([m \in Node |-> 0]) = 0
  <2>1. Total([m \in Node |-> 0]) = 0 * Cardinality(Node) /\ Cardinality(Node) \in Nat
    BY Constants, TotalOfConstants
  <2> QED BY <2>1
<1>3. \A n \in Node : Arrives(ch, n, q) = 0
  <2> TAKE n \in Node
  <2>1. [m \in Node |-> Count(ch[<<m, n>>], q)] = [m \in Node |-> 0]
    BY <1>1
  <2> QED BY <1>2, <2>1 DEF Arrives
<1>4. [n \in Node |-> Arrives(ch, n, q)] = [n \in Node |-> 0]
  BY <1>3
<1> QED BY <1>2, <1>4 DEF UnderWay

\* What a node has at first.
LEMMA FreshIsWorth ==
    ASSUME NEW c \in Configs, NEW n \in Node, NEW s, s = Fresh(c, n)
    PROVE  /\ StateOK(n, s) /\ s.waiting = {} /\ IsFiniteSet(s.waiting) /\ DOMAIN s.neighbors = Linked(c, n)
           /\ Linked(c, n) # {} => s.state = "READY"
           /\ Unpaid(s) = 0 /\ \A id : Waiting(s, id) = 0
           /\ Size(s) \in Nat /\ Worth(s) = InitialTokens * Size(s)
<1>1. StateOK(n, s) /\ DOMAIN s.neighbors = Linked(c, n)
  BY FreshIsOK
<1>2. s.waiting = {} /\ (Linked(c, n) # {} => s.state = "READY")
  BY DEF Fresh
<1>3. \A m \in Linked(c, n) : s.neighbors[m].received = InitialTokens
  BY DEF Fresh, Info
<1>4. IsFiniteSet(s.waiting) /\ Cardinality({}) = 0
  BY <1>2, FS_EmptySet
<1>5. Unpaid(s) = 0
  <2>1. {w \in s.waiting : ~w.fromApp} = {}
    BY <1>2
  <2> QED BY <1>4, <2>1 DEF Unpaid
<1>6. ASSUME NEW id PROVE Waiting(s, id) = 0
  <2>1. {w \in s.waiting : w.msg.id = id} = {}
    BY <1>2
  <2> QED BY <1>4, <2>1 DEF Waiting
<1>7. Size(s) \in Nat
  BY <1>1, <1>4, StateNumbers
<1>8. Tokens(s.neighbors) = InitialTokens * Size(s)
  <2>p. PICK S : S = DOMAIN s.neighbors
    OBVIOUS
  <2>1. IsFiniteSet(S) /\ InitialTokens \in Nat
    BY <1>1, <2>p, LinksAreSets, Constants, FS_Subset
  <2>2. [m \in S |-> s.neighbors[m].received] = [m \in S |-> InitialTokens]
    BY <1>1, <1>3, <2>p
  <2>3. Total([m \in S |-> InitialTokens]) = InitialTokens * Cardinality(S)
    BY <2>1, TotalOfConstants
  <2> QED BY <2>2, <2>3, <2>p DEF Tokens, Size
<1>9. Worth(s) = InitialTokens * Size(s)
  <2>1. Tokens(s.neighbors) \in Nat
    BY <1>1, <1>4, StateNumbers
  <2> QED BY <1>5, <1>8, <2>1 DEF Worth
<1> QED BY <1>1, <1>2, <1>4, <1>5, <1>6, <1>7, <1>9

LEMMA FreshBalance ==
    ASSUME NEW c \in Configs, NEW nd, \A n \in Node : nd[n] = Fresh(c, n), NEW ch, UnderWay(ch, Paid) = 0
    PROVE  Balance(nd, ch, 0)
<1>p. PICK F, G : F = [n \in Node |-> Size(nd[n])] /\ G = [n \in Node |-> Worth(nd[n])]
  OBVIOUS
<1>1. \A n \in Node : Size(nd[n]) \in Nat /\ Worth(nd[n]) = InitialTokens * Size(nd[n])
  <2> TAKE n \in Node
  <2>1. nd[n] = Fresh(c, n)
    OBVIOUS
  <2> QED BY <2>1, FreshIsWorth
<1>2. \A n \in Node : Worth(nd[n]) \in Nat
  <2> TAKE n \in Node
  <2>1. nd[n] = Fresh(c, n)
    OBVIOUS
  <2>2. StateOK(n, nd[n]) /\ IsFiniteSet(nd[n].waiting)
    BY <2>1, FreshIsWorth
  <2> QED BY <2>2, StateNumbers
<1>3. Addable(F) /\ Addable(G) /\ DOMAIN F = Node /\ DOMAIN G = Node
  BY <1>1, <1>2, <1>p, Constants DEF Addable
<1>4. Total(G) = InitialTokens * Total(F)
  <2>1. InitialTokens \in Nat /\ \A n \in DOMAIN F : G[n] = InitialTokens * F[n]
    BY <1>1, <1>3, <1>p, Constants
  <2> QED BY <1>3, <2>1, TotalOfMultiples
<1>5. Total(G) \in Nat
  BY <1>3, TotalIsNat
<1>6. Total(G) + UnderWay(ch, Paid) = InitialTokens * Total(F) + 0
  BY <1>4, <1>5
<1> QED BY <1>6, <1>p DEF Balance

LEMMA FreshIsSteady ==
    ASSUME NEW c \in Configs, NEW nd, \A n \in Node : nd[n] = Fresh(c, n),
           NEW ch, \A n, k \in Node : ch[<<n, k>>] = << >>
    PROVE  SteadyAt(c.searches, nd, ch, {}, {}, 0)
<1>s. PICK q : q = c.searches
  OBVIOUS
<1>1. /\ c \in Config /\ \A id \in Ids : q[id].responses \in Nat
      /\ \A n \in Node : Linked(c, n) \subseteq Node \ {n}
      /\ \A n \in Node : \A m \in Node \ {n} : m \in Linked(c, n) <=> n \in Linked(c, m)
  <2>1. c \in Config
    BY GiaAssumption
  <2> QED BY <1>s, <2>1, LinksAreSets DEF Config
<1>2. ASSUME NEW n \in Node
      PROVE  /\ StateOK(n, nd[n]) /\ IsFiniteSet(nd[n].waiting) /\ nd[n].waiting = {} /\ DOMAIN nd[n].neighbors = Linked(c, n)
             /\ DOMAIN nd[n].neighbors # {} => nd[n].state = "READY"
             /\ Unpaid(nd[n]) = 0 /\ \A id : Waiting(nd[n], id) = 0
  <2>1. nd[n] = Fresh(c, n)
    OBVIOUS
  <2> QED BY <2>1, FreshIsWorth
<1>3. Linking(nd, ch)
  <2>1. NodesFine(nd)
    BY <1>2 DEF NodesFine
  <2>2. \A n \in Node : \A m \in DOMAIN nd[n].neighbors : n \in DOMAIN nd[m].neighbors
    BY <1>1, <1>2
  <2> QED BY <1>2, <2>1, <2>2 DEF Linking
<1>4. Underway(q, {}, DomainsOf(nd), ch)
  <2>1. Len(<< >>) = 0 /\ 1 .. 0 = {}
    BY EmptySeq
  <2> QED BY <2>1 DEF Underway
<1>5. \A n \in Node : WaitsAt(q, {}, DomainsOf(nd), n, nd[n])
  BY <1>2 DEF WaitsAt
<1>6. \A x : UnderWay(ch, x) = 0
  BY NothingUnderWay
<1>7. ASSUME NEW id \in Ids PROVE Lives(q, {}, nd, ch, id) <= 1
  <2>1. [n \in Node |-> Waiting(nd[n], id)] = [n \in Node |-> 0]
    BY <1>2
  <2>2. Total([n \in Node |-> 0]) = 0 * Cardinality(Node) /\ Cardinality(Node) \in Nat
    BY Constants, TotalOfConstants
  <2>3. Counted(Reached(q, {}, id)) = 0 /\ Counted(q[id].origin # None) \in {0, 1}
    BY OneOrNone DEF Reached, Counted
  <2>4. Beside(q, {}, id) \in {0, 1}
    BY <2>3 DEF Beside
  <2>5. UnderWay(ch, Walks(id)) = 0 /\ Total([n \in Node |-> Waiting(nd[n], id)]) = 0
    BY <1>6, <2>1, <2>2
  <2> QED BY <2>4, <2>5 DEF Lives
<1>8. Balance(nd, ch, 0)
  BY <1>6, FreshBalance
<1>9. Settled(q, {}, {}, ch)
  <2>1. \A id \in Ids : FoundFor({}, id) = {}
    BY DEF FoundFor
  <2>2. Cardinality({}) = 0
    BY FS_EmptySet
  <2>3. \A id \in Ids : Cardinality(FoundFor({}, id)) <= q[id].responses
    <3> TAKE id \in Ids
    <3>1. Cardinality(FoundFor({}, id)) = 0 /\ q[id].responses \in Nat
      BY <1>1, <2>1, <2>2
    <3> QED BY <3>1
  <2>4. \A id \in Ids, h \in Node :
           UnderWay(ch, Answers(id, h)) + Counted(<<id, h>> \in {}) = Counted(<<id, h>> \in {})
    <3> TAKE id \in Ids, h \in Node
    <3>1. Counted(<<id, h>> \in {}) = 0 /\ UnderWay(ch, Answers(id, h)) = 0
      BY <1>6 DEF Counted
    <3> QED BY <3>1
  <2> QED BY <2>1, <2>3, <2>4 DEF Settled
<1> QED BY <1>3, <1>4, <1>5, <1>7, <1>8, <1>9, <1>s DEF SteadyAt

LEMMA SteadyAtFirst ==
    ASSUME Init
    PROVE  Steady
<1>1. config \in Configs /\ (\A n \in Node : node[n] = Fresh(config, n)) /\ \A n, k \in Node : channel[<<n, k>>] = << >>
  BY DEF Init
<1>2. /\ history.found = {} /\ history.told = {} /\ ~history.twice /\ history.minted = 0
      /\ history.steady = (config.requests + config.timeouts = 0)
  BY DEF Init
<1>3. SteadyAt(config.searches, node, channel, {}, {}, 0)
  BY <1>1, FreshIsSteady
<1>4. history.steady => config.requests = 0 /\ config.timeouts = 0
  <2>1. config.requests \in Nat /\ config.timeouts \in Nat
    BY <1>1, GiaAssumption DEF Config
  <2> SUFFICES ASSUME history.steady PROVE config.requests = 0 /\ config.timeouts = 0
    OBVIOUS
  <2>2. config.requests + config.timeouts = 0
    BY <1>2
  <2>3. PICK x, y : x = config.requests /\ y = config.timeouts
    OBVIOUS
  <2>4. x \in Nat /\ y \in Nat /\ x + y = 0
    BY <2>1, <2>2, <2>3
  <2>5. x = 0 /\ y = 0
    BY ONLY <2>4
  <2> QED BY <2>3, <2>5
<1> QED BY <1>2, <1>3, <1>4 DEF Steady

(***************************************************************************)
(* The sums of the properties                                              *)
(***************************************************************************)
LEMMA SumOfSizes ==
    ASSUME \A n \in Node : Size(node[n]) \in Nat
    PROVE  MapThenSumSet(LAMBDA n : Size(node[n]), Node) = Total([n \in Node |-> Size(node[n])])
<1>p. PICK F, S : F = [n \in Node |-> Size(node[n])] /\ S = Node
  OBVIOUS
<1>0. IsFiniteSet(S) /\ \A y \in S : F[y] \in Nat /\ F[y] = Size(node[y])
  BY <1>p, Constants
<1> DEFINE Q(it) == it = [s \in SUBSET S |-> IF s = {} THEN 0
                             ELSE LET x == CHOOSE x \in s : TRUE IN Size(node[x]) + it[s \ {x}]]
<1>1. MapThenSumSet(LAMBDA n : Size(node[n]), Node) = (CHOOSE it : Q(it))[S]
  BY <1>p DEF MapThenSumSet, MapThenFoldSet
<1>2. \A it : Q(it) <=> IsSum(it, F, S)
  <2> TAKE it
  <2>1. \A s \in SUBSET S : s # {} => (CHOOSE x \in s : TRUE) \in S
    OBVIOUS
  <2>2. [s \in SUBSET S |-> IF s = {} THEN 0
                             ELSE LET x == CHOOSE x \in s : TRUE IN Size(node[x]) + it[s \ {x}]]
      = [s \in SUBSET S |-> IF s = {} THEN 0
                             ELSE LET x == CHOOSE x \in s : TRUE IN F[x] + it[s \ {x}]]
    BY <1>0, <2>1
  <2> QED BY <2>2 DEF IsSum
<1> HIDE DEF Q
<1>3. \E it : IsSum(it, F, S)
  BY <1>0, SumsExist
<1>4. PICK it : it = CHOOSE g : Q(g)
  OBVIOUS
<1>5. Q(it)
  BY <1>2, <1>3, <1>4
<1>6. it[S] = SumOver(F, S)
  BY <1>0, <1>2, <1>5, SumIsTotal
<1> QED BY <1>1, <1>4, <1>6, <1>p DEF Total

LEMMA SumOfReceived ==
    ASSUME NEW b, Addable([m \in DOMAIN b |-> b[m].received])
    PROVE  MapThenSumSet(LAMBDA m : b[m].received, DOMAIN b) = Total([m \in DOMAIN b |-> b[m].received])
<1>p. PICK F, S : F = [m \in DOMAIN b |-> b[m].received] /\ S = DOMAIN b
  OBVIOUS
<1>0. IsFiniteSet(S) /\ \A y \in S : F[y] \in Nat /\ F[y] = b[y].received
  BY <1>p DEF Addable
<1> DEFINE Q(it) == it = [s \in SUBSET S |-> IF s = {} THEN 0
                             ELSE LET x == CHOOSE x \in s : TRUE IN b[x].received + it[s \ {x}]]
<1>1. MapThenSumSet(LAMBDA m : b[m].received, DOMAIN b) = (CHOOSE it : Q(it))[S]
  BY <1>p DEF MapThenSumSet, MapThenFoldSet
<1>2. \A it : Q(it) <=> IsSum(it, F, S)
  <2> TAKE it
  <2>1. \A s \in SUBSET S : s # {} => (CHOOSE x \in s : TRUE) \in S
    OBVIOUS
  <2>2. [s \in SUBSET S |-> IF s = {} THEN 0
                             ELSE LET x == CHOOSE x \in s : TRUE IN b[x].received + it[s \ {x}]]
      = [s \in SUBSET S |-> IF s = {} THEN 0
                             ELSE LET x == CHOOSE x \in s : TRUE IN F[x] + it[s \ {x}]]
    BY <1>0, <2>1
  <2> QED BY <2>2 DEF IsSum
<1> HIDE DEF Q
<1>3. \E it : IsSum(it, F, S)
  BY <1>0, SumsExist
<1>4. PICK it : it = CHOOSE g : Q(g)
  OBVIOUS
<1>5. Q(it)
  BY <1>2, <1>3, <1>4
<1>6. it[S] = SumOver(F, S)
  BY <1>0, <1>2, <1>5, SumIsTotal
<1> QED BY <1>1, <1>4, <1>6, <1>p DEF Total

LEMMA SumOfArriving ==
    ASSUME NEW n \in Node, \A m \in Node : ArrivingFrom(n, m) \in Nat
    PROVE  Arriving(n) = Total([m \in Node |-> ArrivingFrom(n, m)])
<1>p. PICK F, S : F = [m \in Node |-> ArrivingFrom(n, m)] /\ S = Node
  OBVIOUS
<1>0. IsFiniteSet(S) /\ \A y \in S : F[y] \in Nat /\ F[y] = ArrivingFrom(n, y)
  BY <1>p, Constants
<1> DEFINE Q(it) == it = [s \in SUBSET S |-> IF s = {} THEN 0
                             ELSE LET x == CHOOSE x \in s : TRUE IN ArrivingFrom(n, x) + it[s \ {x}]]
<1>1. Arriving(n) = (CHOOSE it : Q(it))[S]
  BY <1>p DEF Arriving, ArrivingFrom, MapThenSumSet, MapThenFoldSet
<1>2. \A it : Q(it) <=> IsSum(it, F, S)
  <2> TAKE it
  <2>1. \A s \in SUBSET S : s # {} => (CHOOSE x \in s : TRUE) \in S
    OBVIOUS
  <2>2. [s \in SUBSET S |-> IF s = {} THEN 0
                             ELSE LET x == CHOOSE x \in s : TRUE IN ArrivingFrom(n, x) + it[s \ {x}]]
      = [s \in SUBSET S |-> IF s = {} THEN 0
                             ELSE LET x == CHOOSE x \in s : TRUE IN F[x] + it[s \ {x}]]
    BY <1>0, <2>1
  <2> QED BY <2>2 DEF IsSum
<1> HIDE DEF Q
<1>3. \E it : IsSum(it, F, S)
  BY <1>0, SumsExist
<1>4. PICK it : it = CHOOSE g : Q(g)
  OBVIOUS
<1>5. Q(it)
  BY <1>2, <1>3, <1>4
<1>6. it[S] = SumOver(F, S)
  BY <1>0, <1>2, <1>5, SumIsTotal
<1> QED BY <1>1, <1>4, <1>6, <1>p DEF Total

LEMMA SumOfTokens ==
    ASSUME \A n \in Node : TokensOf(n) \in Nat
    PROVE  MapThenSumSet(TokensOf, Node) = Total([n \in Node |-> TokensOf(n)])
<1>p. PICK F, S : F = [n \in Node |-> TokensOf(n)] /\ S = Node
  OBVIOUS
<1>0. IsFiniteSet(S) /\ \A y \in S : F[y] \in Nat /\ F[y] = TokensOf(y)
  BY <1>p, Constants
<1> DEFINE Q(it) == it = [s \in SUBSET S |-> IF s = {} THEN 0
                             ELSE LET x == CHOOSE x \in s : TRUE IN TokensOf(x) + it[s \ {x}]]
<1>1. MapThenSumSet(TokensOf, Node) = (CHOOSE it : Q(it))[S]
  BY <1>p DEF MapThenSumSet, MapThenFoldSet
<1>2. \A it : Q(it) <=> IsSum(it, F, S)
  <2> TAKE it
  <2>1. \A s \in SUBSET S : s # {} => (CHOOSE x \in s : TRUE) \in S
    OBVIOUS
  <2>2. [s \in SUBSET S |-> IF s = {} THEN 0
                             ELSE LET x == CHOOSE x \in s : TRUE IN TokensOf(x) + it[s \ {x}]]
      = [s \in SUBSET S |-> IF s = {} THEN 0
                             ELSE LET x == CHOOSE x \in s : TRUE IN F[x] + it[s \ {x}]]
    BY <1>0, <2>1
  <2> QED BY <2>2 DEF IsSum
<1> HIDE DEF Q
<1>3. \E it : IsSum(it, F, S)
  BY <1>0, SumsExist
<1>4. PICK it : it = CHOOSE g : Q(g)
  OBVIOUS
<1>5. Q(it)
  BY <1>2, <1>3, <1>4
<1>6. it[S] = SumOver(F, S)
  BY <1>0, <1>2, <1>5, SumIsTotal
<1> QED BY <1>1, <1>4, <1>6, <1>p DEF Total

LEMMA ArrivingIsCounted ==
    ASSUME IInv, NEW n \in Node
    PROVE  Arriving(n) = Arrives(channel, n, Paid) /\ Arriving(n) \in Nat
<1>1. Pairwise(channel)
  BY DEF IInv, ChannelsOK, Packets, Pairwise
<1>2. ASSUME NEW m \in Node
      PROVE  ArrivingFrom(n, m) = Count(channel[<<m, n>>], Paid) /\ ArrivingFrom(n, m) \in Nat
  <2>p. PICK s : s = channel[<<m, n>>]
    OBVIOUS
  <2>1. IsSeq(s) /\ DOMAIN s = 1 .. Len(s)
    BY <1>1, <2>p DEF Pairwise, IsSeq
  <2>2. {i \in DOMAIN s : s[i].type = "TOKEN" \/ IsMessage(s[i])} = Places(s, Paid)
    BY <2>1 DEF Places, Meets, Paid, IsMessage
  <2>3. Count(s, Paid) \in Nat
    BY <2>1, CountIsNat
  <2> QED BY <2>2, <2>3, <2>p DEF ArrivingFrom, Count
<1>3. Arriving(n) = Total([m \in Node |-> ArrivingFrom(n, m)])
  BY <1>2, SumOfArriving
<1>4. [m \in Node |-> ArrivingFrom(n, m)] = [m \in Node |-> Count(channel[<<m, n>>], Paid)]
  BY <1>2
<1>5. Arrives(channel, n, Paid) \in Nat
  BY <1>1, Counting
<1> QED BY <1>3, <1>4, <1>5 DEF Arrives

\* What belongs to a node is what it has, and what is on its way to it.
LEMMA TokensAreCounted ==
    ASSUME IInv, NEW n \in Node, IsFiniteSet(node[n].waiting)
    PROVE  /\ TokensOf(n) = Worth(node[n]) + Arrives(channel, n, Paid) /\ TokensOf(n) \in Nat
           /\ Worth(node[n]) \in Nat /\ Size(node[n]) \in Nat
<1>p. PICK b : b = node[n].neighbors
  OBVIOUS
<1>1. StateOK(n, node[n])
  BY DEF IInv, NodesOK
<1>2. /\ Tokens(b) \in Nat /\ Unpaid(node[n]) \in Nat /\ Worth(node[n]) \in Nat
      /\ Size(node[n]) \in Nat
  BY <1>1, <1>p, StateNumbers
<1>3. Addable([m \in DOMAIN b |-> b[m].received])
  <2>1. DOMAIN b \subseteq Node /\ \A m \in DOMAIN b : b[m].received \in Nat
    BY <1>1, <1>p DEF StateOK, NeighborsOK, IsInfo
  <2>2. IsFiniteSet(DOMAIN b)
    BY <2>1, Constants, FS_Subset
  <2> QED BY <2>1, <2>2 DEF Addable
<1>4. MapThenSumSet(LAMBDA m : b[m].received, DOMAIN b) = Tokens(b)
  BY <1>3, SumOfReceived DEF Tokens
<1>5. Arriving(n) = Arrives(channel, n, Paid) /\ Arriving(n) \in Nat
  BY ArrivingIsCounted
<1>6. TokensOf(n) = MapThenSumSet(LAMBDA m : b[m].received, DOMAIN b) + Arriving(n) + Unpaid(node[n])
  BY <1>p DEF TokensOf, Unpaid
<1>7. TokensOf(n) = Tokens(b) + Arriving(n) + Unpaid(node[n])
  BY <1>4, <1>6
<1>8. Worth(node[n]) = Tokens(b) + Unpaid(node[n])
  BY <1>p DEF Worth
<1> QED BY <1>2, <1>5, <1>7, <1>8

LEMMA SteadyConserves ==
    ASSUME IInv, Steady
    PROVE  TokensConserved
<1> SUFFICES ASSUME history.steady
             PROVE  MapThenSumSet(TokensOf, Node)
                        = InitialTokens * MapThenSumSet(LAMBDA n : Size(node[n]), Node) + history.minted
  BY DEF TokensConserved
<1>p. PICK F, G, H, Z : /\ F = [n \in Node |-> Worth(node[n])] /\ G = [n \in Node |-> Arrives(channel, n, Paid)]
                        /\ H = [n \in Node |-> TokensOf(n)] /\ Z = [n \in Node |-> Size(node[n])]
  OBVIOUS
<1>1. NodesFine(node) /\ Balance(node, channel, history.minted)
  BY DEF Steady, SteadyAt, Linking
<1>2. \A n \in Node : /\ TokensOf(n) = Worth(node[n]) + Arrives(channel, n, Paid) /\ TokensOf(n) \in Nat
                      /\ Worth(node[n]) \in Nat /\ Size(node[n]) \in Nat
  BY <1>1, TokensAreCounted DEF NodesFine
<1>3. Addable(G) /\ DOMAIN G = Node
  <2>1. Pairwise(channel)
    BY DEF IInv, ChannelsOK, Packets, Pairwise
  <2> QED BY <1>p, <2>1, Counting
<1>4. Addable(F) /\ Addable(H) /\ DOMAIN F = Node /\ DOMAIN H = Node
  BY <1>2, <1>p, Constants DEF Addable
<1>5. Total(H) = Total(F) + Total(G)
  <2>1. \A y \in DOMAIN F : H[y] = F[y] + G[y]
    BY <1>2, <1>4, <1>p
  <2> QED BY <1>3, <1>4, <2>1, TotalOfSums
<1>6. MapThenSumSet(TokensOf, Node) = Total(H)
  BY <1>2, <1>p, SumOfTokens
<1>7. MapThenSumSet(LAMBDA n : Size(node[n]), Node) = Total(Z)
  BY <1>2, <1>p, SumOfSizes
<1>8. Total(F) + Total(G) = InitialTokens * Total(Z) + history.minted
  BY <1>1, <1>p DEF Balance, UnderWay
<1> QED BY <1>5, <1>6, <1>7, <1>8

LEMMA SteadyReturns ==
    ASSUME IInv, Steady
    PROVE  AnswersReturn
<1>c. PICK c, f, told : c = config.searches /\ f = history.found /\ told = history.told
  OBVIOUS
<1>1. ASSUME history.steady, NEW id \in Ids, c[id].dest = None,
             NEW O, O = {x \in f : x[1] = id}, NEW P, P = {x \in told : x[1] = id}
      PROVE  /\ ~history.twice /\ Cardinality(O) <= c[id].responses
             /\ (\A p \in Node \X Node : ~\E i \in DOMAIN channel[p] :
                    channel[p][i].type = "ANSWER" /\ channel[p][i].id = id) => P = O
  <2>1. /\ ~history.twice /\ Settled(c, f, told, channel)
    BY <1>1, <1>c DEF Steady, SteadyAt
  <2>2. /\ f \subseteq Ids \X Node /\ told \subseteq Ids \X Node
        /\ Cardinality(FoundFor(f, id)) <= c[id].responses
        /\ \A h \in Node : UnderWay(channel, Answers(id, h)) + Counted(<<id, h>> \in told) = Counted(<<id, h>> \in f)
    BY <1>1, <2>1 DEF Settled
  <2>3. Cardinality(O) = Cardinality(FoundFor(f, id))
    <3>p. PICK T : T = FoundFor(f, id)
      OBVIOUS
    <3>1. T \subseteq Node /\ IsFiniteSet(T)
      <4>1. T \subseteq Node
        BY <3>p DEF FoundFor
      <4> QED BY <4>1, Constants, FS_Subset
    <3> DEFINE g == [h \in T |-> <<id, h>>]
    <3>2. g \in Bijection(T, O)
      <4>1. \A x \in O : \E h \in T : x = <<id, h>>
        BY <1>1, <2>2, <3>p DEF FoundFor
      <4>2. \A h \in T : <<id, h>> \in O
        BY <1>1, <3>p DEF FoundFor
      <4>3. g \in [T -> O] /\ \A a, b \in T : g[a] = g[b] => a = b
        BY <4>2
      <4>4. \A x \in O : \E h \in T : g[h] = x
        BY <4>1
      <4> HIDE DEF g
      <4> QED BY <4>3, <4>4 DEF Bijection, Injection, Surjection, IsInjective
    <3>3. Cardinality(O) = Cardinality(T)
      <4>1. ExistsBijection(T, O)
        BY <3>2 DEF ExistsBijection
      <4> QED BY <3>1, <4>1, FS_Bijection
    <3> QED BY <3>3, <3>p
  <2>4. ASSUME \A p \in Node \X Node : ~\E i \in DOMAIN channel[p] :
                    channel[p][i].type = "ANSWER" /\ channel[p][i].id = id
        PROVE  P = O
    <3>1. ASSUME NEW h \in Node PROVE UnderWay(channel, Answers(id, h)) = 0
      <4>1. Pairwise(channel)
        BY DEF IInv, ChannelsOK, Packets, Pairwise
      <4>2. ASSUME NEW n \in Node, NEW k \in Node
            PROVE  Count(channel[<<n, k>>], Answers(id, h)) = 0
        <5>p. PICK s, q : s = channel[<<n, k>>] /\ q = Answers(id, h)
          OBVIOUS
        <5>1. IsSeq(s) /\ DOMAIN s = 1 .. Len(s)
          BY <4>1, <5>p DEF Pairwise, IsSeq
        <5>2. \A i \in DOMAIN s : ~(s[i].type = "ANSWER" /\ s[i].id = id)
          BY <2>4, <5>p
        <5>3. id # None
          BY DEF Ids, None
        <5>4. Places(s, q) = {}
          BY <5>1, <5>2, <5>3, <5>p DEF Places, Meets, Answers
        <5> QED BY <5>1, <5>4, <5>p, CountIsNat
      <4>3. \A k \in Node : [n \in Node |-> Count(channel[<<n, k>>], Answers(id, h))] = [n \in Node |-> 0]
        BY <4>2
      <4>4. Total([n \in Node |-> 0]) = 0
        <5>1. Total([n \in Node |-> 0]) = 0 * Cardinality(Node) /\ Cardinality(Node) \in Nat
          BY Constants, TotalOfConstants
        <5> QED BY <5>1
      <4>5. [k \in Node |-> Arrives(channel, k, Answers(id, h))] = [k \in Node |-> 0]
        BY <4>3, <4>4 DEF Arrives
      <4> QED BY <4>4, <4>5 DEF UnderWay
    <3>2. ASSUME NEW h \in Node PROVE <<id, h>> \in told <=> <<id, h>> \in f
      <4>1. 0 + Counted(<<id, h>> \in told) = Counted(<<id, h>> \in f)
        BY <2>2, <3>1
      <4> QED BY <4>1 DEF Counted
    <3> QED BY <1>1, <2>2, <3>2
  <2> QED BY <2>1, <2>2, <2>3, <2>4
<1> SUFFICES ASSUME history.steady, NEW id \in {i \in Ids : config.searches[i].dest = None}
             PROVE  LET Of(pairs) == {x \in pairs : x[1] = id}
                        IsOf(m)   == m.type = "ANSWER" /\ m.id = id
                    IN  /\ ~history.twice /\ Cardinality(Of(history.found)) <= config.searches[id].responses
                        /\ (\A p \in Node \X Node : ~\E i \in DOMAIN channel[p] : IsOf(channel[p][i]))
                               => Of(history.told) = Of(history.found)
  BY DEF AnswersReturn
<1>2. PICK O, P : O = {x \in f : x[1] = id} /\ P = {x \in told : x[1] = id}
  OBVIOUS
<1>3. /\ ~history.twice /\ Cardinality(O) <= c[id].responses
      /\ (\A p \in Node \X Node : ~\E i \in DOMAIN channel[p] :
             channel[p][i].type = "ANSWER" /\ channel[p][i].id = id) => P = O
  BY <1>1, <1>2, <1>c
<1> QED BY <1>2, <1>3, <1>c

\* As long as no request is sent and no neighbor is timed out: links are mutual, packets go over
\* links only, a search or route message exists once, what it carries agrees with what was found,
\* the tokens balance, and each node found is on its way to the application or told to it.
\* (handleUDPMessage(), forwardMessage(), processSearchMessage(), forwardSearchResponseMessage())
THEOREM SteadyInvariance == Spec => []Steady
<1>1. Init => Steady
  BY SteadyAtFirst
<1>2. IInv /\ Steady /\ [Next]_vars => Steady'
  BY SteadyIsKept
<1> QED BY <1>1, <1>2, Invariance, PTL DEF Spec

\* As long as links stay, no token is lost or multiplied, for any number of nodes and neighbors, any
\* number of tokens at first and whatever is searched or sent. (grantToken(), forwardMessage(),
\* processSearchMessage(), sendTokenTimer)
THEOREM TokensAreConserved == Spec => []TokensConserved
<1>1. IInv /\ Steady => TokensConserved
  BY SteadyConserves
<1> QED BY <1>1, Invariance, SteadyInvariance, PTL

\* As long as links stay, each answer reaches the application that has searched, once, and there are
\* no more than it has asked for: for any number of nodes and whatever way the search has gone.
\* (processSearchMessage(), forwardSearchResponseMessage(), deliverSearchResult())
THEOREM AnswersAreReturned == Spec => []AnswersReturn
<1>1. IInv /\ Steady => AnswersReturn
  BY SteadyReturns
<1> QED BY <1>1, Invariance, SteadyInvariance, PTL

==============================================================================
