---------------------------- MODULE GiaInvariants ----------------------------
(***************************************************************************)
(* The inductive invariants of Gia, IInv about the handshakes and Steady   *)
(* about tokens and answers, and the relations between what a handler gets *)
(* and what it leaves, in which the proofs are written.                    *)
(***************************************************************************)
EXTENDS Gia

(***************************************************************************)
(* What two nodes may say to each other                                    *)
(***************************************************************************)
\* The packets that the handshake is about.
Says == {"REQ", "RSP", "ACK", "DNY", "DISCONNECT"}

\* What is on its way from one node to another, as a word of at most four letters of which
\* three at most are used.  A DISCONNECT stands for one or more.
Letters  == Says \cup {"none"}
Words    == Letters \X Letters \X Letters \X Letters
Silence  == <<"none", "none", "none", "none">>
One(a)   == <<a, "none", "none", "none">>
Two(a, b)      == <<a, b, "none", "none">>
Three(a, b, c) == <<a, b, c, "none">>
Rest(w)  == <<w[2], w[3], w[4], "none">>
Then(w, t) ==
    IF t = "none" THEN w
    ELSE IF w[1] = "none" THEN One(t)
    ELSE IF w[2] = "none" THEN IF w[1] = t /\ t = "DISCONNECT" THEN w ELSE Two(w[1], t)
    ELSE IF w[3] = "none" THEN IF w[2] = t /\ t = "DISCONNECT" THEN w ELSE Three(w[1], w[2], t)
    ELSE IF w[3] = t /\ t = "DISCONNECT" THEN w ELSE <<w[1], w[2], w[3], t>>

\* What a node thinks of another one, and what has happened: it has lost the other one, it
\* has refused an answer of it.
Sides == {x \in [linked : BOOLEAN, cand : BOOLEAN, gone : BOOLEAN, refused : BOOLEAN] : ~(x.linked /\ x.gone)}

Gone     == {Silence, One("DISCONNECT")}
Request1 == {One("REQ"), Two("DISCONNECT", "REQ")}

\* All that can be on its way between two nodes, v from the side x and w from the side y, and
\* what they think of each other then; but for swapping the sides.
Row(x, y, v, w) ==
    \* No handshake is under way.
    \/ /\ v \in Gone /\ w \in Gone /\ (x.cand => x.refused) /\ (y.cand => y.refused)
       /\ x.linked => (v = Silence /\ (y.linked \/ y.gone)) \/ w = One("DISCONNECT")
       /\ y.linked => (w = Silence /\ (x.linked \/ x.gone)) \/ v = One("DISCONNECT")
    \* x has asked.
    \/ /\ v \in Request1 /\ w \in Gone /\ x.cand /\ ~x.linked /\ (y.cand => y.refused)
       /\ y.linked => v = Two("DISCONNECT", "REQ") \/ (x.gone /\ w = Silence)
    \* Both have asked, and y has got the request first.
    \/ /\ v \in Request1 /\ w \in Request1 /\ x.cand /\ y.cand /\ ~x.linked /\ ~y.linked
    \/ /\ v = Silence /\ x.cand /\ y.cand /\ ~x.linked /\ ~y.linked
       /\ w \in {Two("REQ", "RSP"), Three("DISCONNECT", "REQ", "RSP"), Two("REQ", "DNY"), Three("DISCONNECT", "REQ", "DNY")}
    \* y has accepted: only y, or x has answered as well.
    \/ /\ v = Silence /\ w \in {One("RSP"), Two("DISCONNECT", "RSP")} /\ x.cand /\ ~x.linked /\ ~y.linked
    \/ /\ v \in {One("DNY"), One("RSP")} /\ w = One("RSP") /\ x.cand /\ ~x.linked /\ ~y.linked
       /\ v = One("RSP") => y.cand
    \/ /\ v = Silence /\ w = Two("RSP", "ACK") /\ x.cand /\ ~x.linked /\ y.linked /\ ~y.cand
    \/ /\ v = Silence /\ w \in {Two("RSP", "DNY"), Three("RSP", "ACK", "DISCONNECT")}
       /\ x.cand /\ ~x.linked /\ ~y.linked /\ ~y.cand
    \* y has denied.
    \/ /\ v = Silence /\ w = One("DNY") /\ ~x.linked /\ (y.linked => x.gone) /\ (y.cand => y.refused)
    \/ /\ v = Silence /\ w \in {Two("DISCONNECT", "DNY"), Two("DNY", "DNY")} /\ ~x.linked /\ ~y.linked
       /\ y.cand => y.refused
    \/ /\ v = One("DNY") /\ w = One("DNY") /\ ~x.linked /\ ~y.linked
    \/ /\ v \in Gone /\ w = Two("DNY", "DISCONNECT") /\ ~y.linked /\ (y.cand => y.refused)
    \* y has linked, and may have dropped the link.
    \/ /\ v = Silence /\ w \in {One("ACK"), Two("DNY", "ACK")} /\ y.linked /\ ~x.linked /\ (y.cand => y.refused)
    \/ /\ v = Silence /\ w = Three("DNY", "ACK", "DISCONNECT") /\ ~y.linked /\ ~x.linked /\ (y.cand => y.refused)
    \/ /\ v = Silence /\ w = Two("ACK", "DISCONNECT") /\ (x.cand => ~y.linked) /\ (y.cand => y.refused)
    \/ /\ v = One("DISCONNECT") /\ w = Two("ACK", "DISCONNECT") /\ (y.cand => y.refused)
    \* Both have linked, or x has linked and y denied.
    \/ /\ v = One("ACK") /\ w = One("ACK") /\ ~x.cand /\ ~y.cand /\ x.linked /\ y.linked
    \/ /\ v \in {One("ACK"), Two("ACK", "DISCONNECT")} /\ w = Two("ACK", "DISCONNECT") /\ ~x.cand /\ ~y.cand
    \/ /\ v = One("ACK") /\ w = One("DNY") /\ x.linked /\ ~y.linked /\ ~y.cand
    \/ /\ v = Two("ACK", "DISCONNECT") /\ w = One("DNY") /\ ~y.linked /\ ~y.cand

Agree(x, y, v, w) == Row(x, y, v, w) \/ Row(y, x, w, v)

\* What becomes of the side x when it gets a packet of a handshake, and what it answers.
Reply(type, x, z, say) ==
    LET Same == z.linked = x.linked /\ z.cand = x.cand
    IN  \/ type = "REQ" /\ ~x.linked /\ ~z.linked /\ z.cand /\ say = "RSP"
        \/ type = "REQ" /\ Same /\ say = "DNY"
        \/ type = "RSP" /\ ~x.cand /\ Same /\ say = "none"
        \/ type = "RSP" /\ x.cand /\ ~x.linked /\ z.linked /\ ~z.cand /\ say = "ACK"
        \/ type = "RSP" /\ x.cand /\ z.linked = x.linked /\ ~z.cand /\ say = "DNY"
        \/ type = "ACK" /\ x.cand /\ z.linked /\ ~z.cand /\ say = "none"
        \/ type = "ACK" /\ Same /\ say = "DISCONNECT"
        \/ type = "DNY" /\ z.linked = x.linked /\ ~z.cand /\ say = "none"
        \/ type = "DISCONNECT" /\ ~z.linked /\ z.cand = x.cand /\ say = "none"

\* What has happened is not forgotten while it matters.
Recalls(x, z) ==
    /\ x.gone => z.gone \/ z.linked
    /\ x.refused => z.refused \/ ~z.cand

\* Words that are on their way are short, and have no gaps.
Proper(w) ==
    /\ w \in Words /\ w[4] = "none"
    /\ w[1] = "none" => w[2] = "none"
    /\ w[2] = "none" => w[3] = "none"

(***************************************************************************)
(* Packets on a channel                                                    *)
(***************************************************************************)
IsSeq(s) == \E S : s \in Seq(S)

\* Where packets of a handshake are.
Talk(s) == {i \in 1 .. Len(s) : s[i].type \in Says}

\* The letter of a word at a place.
At(w, k) == IF k = 1 THEN w[1] ELSE IF k = 2 THEN w[2] ELSE IF k = 3 THEN w[3] ELSE w[4]

\* Each of them stands in the word w, in its order, DISCONNECTs that follow each other as one
\* letter; and nothing else stands there.
Spells(s, w, f) ==
    /\ f \in [Talk(s) -> 1 .. 4]
    /\ \A i \in Talk(s) : At(w, f[i]) = s[i].type
    /\ \A i, j \in Talk(s) : i < j => f[i] < f[j] \/ (f[i] = f[j] /\ s[i].type = "DISCONNECT")
    /\ \A k \in 1 .. 4 : At(w, k) # "none" => \E i \in Talk(s) : f[i] = k
Carries(s, w) == \E f : Spells(s, w, f)

\* The one packet of a handshake in o, if there is one.
Speech(o, t) ==
    \/ t = "none" /\ Talk(o) = {}
    \/ \E k \in 1 .. Len(o) : Talk(o) = {k} /\ o[k].type = t

\* The word w has l letters, and what becomes of it if one more is added.
EndsAt(w, t, l) ==
    /\ \A k \in 1 .. 4 : At(w, k) # "none" <=> k <= l
    /\ \/ l # 0 /\ At(w, l) = "DISCONNECT" /\ t = "DISCONNECT" /\ Then(w, t) = w
       \/ /\ At(Then(w, t), l + 1) = t
          /\ \A k \in 1 .. 4 : /\ k <= l => At(Then(w, t), k) = At(w, k)
                               /\ k > l + 1 => At(Then(w, t), k) = "none"

(***************************************************************************)
(* What a node and a handler's work are made of                            *)
(***************************************************************************)
Types == Says \cup {"UPDATE", "TOKEN", "KEYLIST", "SEARCH", "ROUTE", "ANSWER"}

MessageOK(m) == m.type \in {"SEARCH", "ROUTE"} /\ "type" \in DOMAIN m
PacketOK(m) ==
    /\ m.type \in Types
    /\ m.type \in {"SEARCH", "ROUTE"} => MessageOK(m)
    /\ m.type \in {"RSP", "ACK"} => m.nodes \subseteq Node
Packets(o) == IsSeq(o) /\ \A i \in 1 .. Len(o) : PacketOK(o[i])

InfoFields == {"degree", "received", "sent", "keys", "heard"}
IsInfo(e)  == e = [f \in InfoFields |-> e[f]] /\ e.received \in Nat /\ e.sent \in Nat

NeighborsOK(n, b) ==
    /\ b = [m \in DOMAIN b |-> b[m]] /\ DOMAIN b \subseteq Node \ {n}
    /\ \A m \in DOMAIN b : IsInfo(b[m])
    /\ Cardinality(DOMAIN b) <= maxNeighbors

NodeFields == {"state", "neighbors", "degree", "neighCand", "knownNodes", "keys", "messages", "waiting",
               "satisfactionTimer", "tokenTimer", "updateTimer", "keyListTimer"}
StateOK(n, s) ==
    /\ s = [f \in NodeFields |-> s[f]]
    /\ s.state \in {"NONE", "INIT", "READY", "CRASH"}
    /\ NeighborsOK(n, s.neighbors)
    /\ s.neighCand \subseteq Node \ {n} /\ s.knownNodes \subseteq Node \cup {None}
    /\ s.degree \in 0 .. maxNeighbors
    /\ \A w \in s.waiting : MessageOK(w.msg)

WorkFields == {"n", "s", "out", "found", "told", "minted"}
WorkOK(r) ==
    /\ r = [f \in WorkFields |-> r[f]]
    /\ r.n \in Node /\ StateOK(r.n, r.s)
    /\ r.out = [to \in Node |-> r.out[to]] /\ r.out[r.n] = << >>
    /\ \A to \in Node : Packets(r.out[to])

\* The handler has changed nothing that the handshake is about since it was at r.
Alike(s, u) == DOMAIN u.neighbors = DOMAIN s.neighbors /\ u.neighCand = s.neighCand
Calm(r, t) ==
    /\ WorkOK(t) /\ t.n = r.n /\ Alike(r.s, t.s)
    /\ \A to \in Node : \A x \in Letters : Speech(r.out[to], x) => Speech(t.out[to], x)

(***************************************************************************)
(* What a handler says                                                     *)
(***************************************************************************)
\* Nothing is said to anyone yet.
Unsaid(r) == \A k \in Node : Speech(r.out[k], "none")

\* What a handler does to a node that it is not about: nothing, or it drops the link.
Aside(r, t, k) ==
    /\ k \in t.s.neighCand <=> k \in r.s.neighCand
    /\ \/ (k \in DOMAIN t.s.neighbors <=> k \in DOMAIN r.s.neighbors) /\ Speech(t.out[k], "none")
       \/ k \in DOMAIN r.s.neighbors /\ k \notin DOMAIN t.s.neighbors /\ Speech(t.out[k], "DISCONNECT")

Sided(s, k) == [linked |-> k \in DOMAIN s.neighbors, cand |-> k \in s.neighCand]

\* What a handler does when it gets a packet of the handshake.
Handled(r, t, from, type) ==
    /\ WorkOK(t) /\ t.n = r.n
    /\ \E say \in Letters : Reply(type, Sided(r.s, from), Sided(t.s, from), say) /\ Speech(t.out[from], say)
    /\ \A k \in Node \ {r.n, from} : Aside(r, t, k)

\* The sides x and y, with c on its way from x and d from y.
Pair(x, y, c, d) == \E v, w : Carries(c, v) /\ Carries(d, w) /\ Agree(x, y, v, w)

SideOf(s, h, n, k) ==
    [linked |-> k \in DOMAIN s.neighbors, cand |-> k \in s.neighCand,
     gone |-> <<n, k>> \in h.dropped /\ k \notin DOMAIN s.neighbors, refused |-> <<n, k>> \in h.refused]

Dialogue(n, k) ==
    \/ {n, k} \in history.again
    \/ Pair(SideOf(node[n], history, n, k), SideOf(node[k], history, k, n), channel[<<n, k>>], channel[<<k, n>>])

HistoryFields == {"found", "told", "twice", "minted", "dropped", "refused", "again", "steady"}

NodesOK    == node = [n \in Node |-> node[n]] /\ \A n \in Node : StateOK(n, node[n])
ChannelsOK ==
    /\ channel = [p \in Node \X Node |-> channel[p]]
    /\ \A n, k \in Node : Packets(channel[<<n, k>>])
    /\ \A n \in Node : channel[<<n, n>>] = << >>

\* Nodes and channels are well-formed, and what any two nodes think of each other agrees with
\* what is on its way between them.
IInv ==
    /\ config \in Config
    /\ NodesOK /\ ChannelsOK
    /\ history = [f \in HistoryFields |-> history[f]]
    /\ \A n, k \in Node : n # k => Dialogue(n, k)

\* r is the work of a handler that leaves the invariant true, chan is what it leaves of the
\* channels, past what it adds to history.
After(r, chan, past) ==
    /\ WorkOK(r)
    /\ past = [f \in HistoryFields |-> past[f]] /\ history.again \subseteq past.again
    /\ \A a \in Node \ {r.n}, b \in Node : /\ <<a, b>> \in past.dropped <=> <<a, b>> \in history.dropped
                                           /\ <<a, b>> \in past.refused <=> <<a, b>> \in history.refused
    /\ chan = [p \in Node \X Node |-> chan[p]]
    /\ \A a \in Node, b \in Node : Packets(chan[<<a, b>>])
    /\ \A a \in Node : chan[<<a, a>>] = << >>
    /\ \A a \in Node, b \in Node \ {r.n} : chan[<<a, b>>] = channel[<<a, b>>]
    /\ \A k \in Node \ {r.n} :
        \/ {r.n, k} \in past.again
        \/ Pair(SideOf(r.s, past, r.n, k), SideOf(node[k], past, k, r.n),
                chan[<<r.n, k>>] \o r.out[k], chan[<<k, r.n>>])

\* The handler of a node remembers what has happened to its links.
Remembered(t, past) ==
    /\ past = [f \in HistoryFields |-> past[f]] /\ history.again \subseteq past.again
    /\ \A a \in Node \ {t.n}, b \in Node : /\ <<a, b>> \in past.dropped <=> <<a, b>> \in history.dropped
                                           /\ <<a, b>> \in past.refused <=> <<a, b>> \in history.refused
    /\ \A k \in Node : /\ <<t.n, k>> \in history.dropped => <<t.n, k>> \in past.dropped \/ k \in DOMAIN t.s.neighbors
                       /\ <<t.n, k>> \in history.refused => <<t.n, k>> \in past.refused \/ k \notin t.s.neighCand

(***************************************************************************)
(* Sums                                                                    *)
(***************************************************************************)
\* The sum of the values of F is the number of units below them; no recursion is needed to say
\* so, and SumIsTotal says that the recursive MapThenSumSet() computes it.
Units(F, S) == {p \in S \X Nat : p[2] < F[p[1]]}
SumOver(F, S) == Cardinality(Units(F, S))
Total(F)    == SumOver(F, DOMAIN F)
Addable(F)  == F \in [DOMAIN F -> Nat] /\ IsFiniteSet(DOMAIN F)

\* What MapThenSumSet() computes, F being the values that its operator has.
IsSum(it, F, S) ==
    it = [s \in SUBSET S |-> IF s = {} THEN 0
                             ELSE LET x == CHOOSE x \in s : TRUE IN F[x] + it[s \ {x}]]

(***************************************************************************)
(* What is on its way, in numbers                                          *)
(***************************************************************************)
\* The packets that q asks for: by their types, by their id and by what they have found, if
\* these matter.
Meets(m, q)  == m.type \in q.types /\ (q.id # None => m.id = q.id) /\ (q.found # None => m.found = q.found)
Places(s, q) == {i \in 1 .. Len(s) : Meets(s[i], q)}
Count(s, q)  == Cardinality(Places(s, q))
Counted(b)   == IF b THEN 1 ELSE 0

Arrives(chan, n, q) == Total([m \in Node |-> Count(chan[<<m, n>>], q)])
UnderWay(chan, q)   == Total([n \in Node |-> Arrives(chan, n, q)])
Gains(out, q)       == Total([to \in Node |-> Count(out[to], q)])

\* A sequence t of two parts.
Parts(t, s, o) ==
    /\ IsSeq(s) /\ IsSeq(o) /\ Len(t) = Len(s) + Len(o)
    /\ \A i \in 1 .. Len(s) : t[i] = s[i]
    /\ \A i \in 1 .. Len(o) : t[Len(s) + i] = o[i]

Pairwise(chan) == \A n, k \in Node : IsSeq(chan[<<n, k>>])
Parcels(out)   == \A k \in Node : IsSeq(out[k])

\* What n has sent is added to the channels.
Adds(chan, n, out, after) ==
    /\ \A k \in Node : after[<<n, k>>] = chan[<<n, k>>] \o out[k]
    /\ \A a \in Node \ {n}, b \in Node : after[<<a, b>>] = chan[<<a, b>>]

\* Packets that are worth a token, the message with an id, and the answer h for it.
Paid           == [types |-> {"TOKEN", "SEARCH", "ROUTE"}, id |-> None, found |-> None]
Walks(id)      == [types |-> {"SEARCH", "ROUTE"}, id |-> id, found |-> None]
Answers(id, h) == [types |-> {"ANSWER"}, id |-> id, found |-> h]

Tokens(b)      == Total([m \in DOMAIN b |-> b[m].received])
Unpaid(s)      == Cardinality({w \in s.waiting : ~w.fromApp})
Waiting(s, id) == Cardinality({w \in s.waiting : w.msg.id = id})

\* What a handler has so far that is worth a token, and the messages with an id.
Credit(r)      == Tokens(r.s.neighbors) + Gains(r.out, Paid) + Unpaid(r.s)
Walkers(r, id) == Gains(r.out, Walks(id)) + Waiting(r.s, id)

(***************************************************************************)
(* Messages and answers                                                    *)
(***************************************************************************)
\* In what follows c stands for the searches, f for what has been found, and D for the
\* neighbors of each node.
Way(D, path)    == \A i \in 1 .. Len(path) - 1 : path[i] \in D[path[i + 1]]
FoundFor(f, id) == {h \in Node : <<id, h>> \in f}

MessageFields == {"type", "id", "hops", "src", "degree", "dest", "responses", "path", "found"}

\* A message that n has, or has sent: it knows all that was found for it, and its path leads
\* over neighbors to n.
Carried(c, f, D, n, m) ==
    /\ m = [x \in MessageFields |-> m[x]] /\ IsMessage(m)
    /\ m.id \in Ids /\ m.dest = c[m.id].dest /\ c[m.id].origin = None
    /\ m.type = "SEARCH" <=> m.dest = None
    /\ m.dest = None => /\ m.responses \in Nat \ {0} /\ m.found = FoundFor(f, m.id)
                        /\ m.responses + Cardinality(m.found) = c[m.id].responses
                        /\ m.path \in Seq(Node) /\ m.path # << >> /\ Way(D, m.path) /\ m.path[Len(m.path)] = n

\* A packet from n to k: the path of an answer leads on from k.
Fine(c, f, D, n, k, m) ==
    /\ m.type \notin Says
    /\ IsMessage(m) => Carried(c, f, D, n, m)
    /\ m.type = "ANSWER" => /\ m.id \in Ids /\ c[m.id].dest = None /\ m.found \in Node
                            /\ m.path \in Seq(Node) /\ Way(D, m.path)
                            /\ m.path # << >> => m.path[Len(m.path)] \in D[k]

Good(c, f, D, r) ==
    /\ \A k \in Node : \A i \in 1 .. Len(r.out[k]) :
           k \in DOMAIN r.s.neighbors /\ Fine(c, f, D, r.n, k, r.out[k][i])
    /\ \A w \in r.s.waiting : Carried(c, f, D, r.n, w.msg)

Books(r) == WorkOK(r) /\ IsFiniteSet(r.s.waiting)

\* All but tokens, messages and packets is as it was.
Same(r, t) ==
    /\ Calm(r, t) /\ Books(t) /\ t.s.state = r.s.state
    /\ t.found = r.found /\ t.told = r.told /\ t.minted = r.minted

\* Neither tokens nor messages nor packets have changed.
Keeps(r, t) ==
    /\ Same(r, t) /\ t.out = r.out /\ t.s.waiting = r.s.waiting
    /\ \A m \in DOMAIN r.s.neighbors : t.s.neighbors[m].received = r.s.neighbors[m].received

\* A handler changes what is known of a neighbor.
Revised(r, m, e, t) == t = [r EXCEPT !.s = [r.s EXCEPT !.neighbors = [r.s.neighbors EXCEPT ![m] = e]]]

Mail(m) == m = [x \in MessageFields |-> m[x]] /\ IsMessage(m) /\ m.id \in Ids

\* What has become of a message that a handler has forwarded: a neighbor has been granted a
\* token, or the message waits for one; and there is at most one such message, as before.
Passed(r, t, m, fromApp) ==
    /\ Calm(r, t) /\ Books(t) /\ t.s.state = r.s.state /\ t.found = r.found /\ t.minted = r.minted
    /\ Credit(t) = Credit(r) + Counted(~fromApp)
    /\ \A id \in Ids : Walkers(t, id) + Counted(id = m.id /\ t.told # r.told) <= Walkers(r, id) + Counted(id = m.id)
    /\ \A q : q.types = {"ANSWER"} => Gains(t.out, q) = Gains(r.out, q)
    /\ t.told = r.told \/ (m.dest = r.n /\ t.told = r.told \cup {<<m.id, r.n>>})
    /\ \A c, f, D : Good(c, f, D, r) /\ Carried(c, f, D, r.n, m) => Good(c, f, D, t)

\* The elements of S that a key K puts before x.
Lower(K, S, x) == {y \in S : K[y] < K[x]}

\* The node itself is before its neighbors.
Key(n) == [h \in Node |-> IF h = n THEN 0 ELSE h]

\* A sequence that has each element of T at one place.
Lists(s, T) ==
    /\ s \in Seq(T) /\ IsSeq(s) /\ Len(s) \in Nat
    /\ \A h \in T : \E i \in 1 .. Len(s) : s[i] = h /\ \A j \in 1 .. Len(s) : s[j] = h => j = i

\* Packets that answer with the nodes of s.
Replies(o, s, id) ==
    /\ IsSeq(o) /\ Len(o) = Len(s)
    /\ \A i \in 1 .. Len(s) : o[i].type = "ANSWER" /\ o[i].id = id /\ o[i].found = s[i]

\* Pairs of an id and nodes of T.
Pairs(id, T) == {<<id, h>> : h \in T}

\* What has become of answers that a handler has forwarded: they are told, or are on their way.
Forwarded(r, t, id, T) ==
    /\ Calm(r, t) /\ Books(t) /\ t.s = r.s /\ t.found = r.found /\ t.minted = r.minted
    /\ t.told \subseteq Pairs(id, T)
    /\ \A q : "ANSWER" \notin q.types => Gains(t.out, q) = Gains(r.out, q)
    /\ \A j \in Ids, h \in Node :
           Gains(t.out, Answers(j, h)) + Counted(<<j, h>> \in t.told)
               = Gains(r.out, Answers(j, h)) + Counted(j = id /\ h \in T)

\* A search that is at n: it comes from a neighbor, or from the application.
Arrived(c, f, D, n, m) ==
    /\ Mail(m) /\ m.type = "SEARCH" /\ m.dest = None /\ c[m.id].dest = None /\ c[m.id].origin = None
    /\ m.responses \in Nat /\ m.found = FoundFor(f, m.id)
    /\ m.responses + Cardinality(m.found) = c[m.id].responses
    /\ m.path \in Seq(Node) /\ Way(D, m.path) /\ (m.path # << >> => m.path[Len(m.path)] \in D[n])

\* It has found nodes that it had not found before, and no more than it asks for.
Finds(c, f, r, m, t, k) ==
    /\ Calm(r, t) /\ Books(t) /\ t.s = r.s /\ t.minted = r.minted
    /\ t.found \subseteq Pairs(m.id, Node) /\ t.found \cap f = {} /\ t.told \subseteq t.found
    /\ \A q : "ANSWER" \notin q.types => Gains(t.out, q) = Gains(r.out, q)
    /\ \A j \in Ids, h \in Node :
           Gains(t.out, Answers(j, h)) + Counted(<<j, h>> \in t.told)
               = Gains(r.out, Answers(j, h)) + Counted(<<j, h>> \in t.found)
    /\ Mail(k) /\ k.id = m.id /\ k.type = m.type /\ k.dest = m.dest /\ k.path = m.path
    /\ k.responses \in Nat /\ k.found = FoundFor(f \cup t.found, m.id)
    /\ Cardinality(k.found) \in Nat /\ k.responses + Cardinality(k.found) = c[m.id].responses

\* What has become of a search that a handler has processed.
Processed(c, f, r, t, m, fromApp) ==
    /\ Calm(r, t) /\ Books(t) /\ t.s.state = r.s.state
    /\ t.minted \in Nat /\ Credit(t) = Credit(r) + Counted(~fromApp) + t.minted
    /\ DOMAIN r.s.neighbors = {} => t.minted = 0
    /\ \A j \in Ids : Walkers(t, j) <= Walkers(r, j) + Counted(j = m.id)
    /\ t.found \subseteq Pairs(m.id, Node) /\ t.found \cap f = {} /\ t.told \subseteq t.found
    /\ \A j \in Ids, h \in Node :
           Gains(t.out, Answers(j, h)) + Counted(<<j, h>> \in t.told)
               = Gains(r.out, Answers(j, h)) + Counted(<<j, h>> \in t.found)
    /\ Cardinality(FoundFor(f \cup t.found, m.id)) <= c[m.id].responses

\* All that r has sent and keeps was right for what is found now, and still is.
StaysGood(c, f, D, r, t) == Good(c, f \cup t.found, D, r) => Good(c, f \cup t.found, D, t)

\* A node r gets a search from a neighbor or the application, and has done nothing yet.
Searching(c, f, D, r, m, fromApp) ==
    /\ Books(r) /\ r.n \in Node /\ r.told = {} /\ r.found = {} /\ r.minted = 0
    /\ Arrived(c, f, D, r.n, m) /\ D[r.n] = DOMAIN r.s.neighbors /\ Waiting(r.s, m.id) = 0
    /\ ~fromApp => DOMAIN r.s.neighbors # {}

(***************************************************************************)
(* As long as links stay                                                   *)
(***************************************************************************)
\* What a node has that is worth a token.
Worth(s) == Tokens(s.neighbors) + Unpaid(s)

DomainsOf(nd) == [n \in Node |-> DOMAIN nd[n].neighbors]
NodesFine(nd) == \A n \in Node : StateOK(n, nd[n]) /\ IsFiniteSet(nd[n].waiting)

\* Links are mutual, packets go over links only, and a message that has used a token is at a
\* node with a link.
Linking(nd, ch) ==
    /\ NodesFine(nd)
    /\ \A n \in Node : /\ \A m \in DOMAIN nd[n].neighbors : n \in DOMAIN nd[m].neighbors
                       /\ DOMAIN nd[n].neighbors # {} => nd[n].state \in {"READY", "CRASH"}
                       /\ DOMAIN nd[n].neighbors = {} => Unpaid(nd[n]) = 0
    /\ \A n, k \in Node : ch[<<n, k>>] # << >> => k \in DOMAIN nd[n].neighbors

\* What is on its way, and what waits for a token.
Underway(c, f, D, ch)  == \A n, k \in Node : \A i \in 1 .. Len(ch[<<n, k>>]) : Fine(c, f, D, n, k, ch[<<n, k>>][i])
WaitsAt(c, f, D, n, s) == \A w \in s.waiting : Carried(c, f, D, n, w.msg)

\* A search, or a route message, is still to be sent, on its way, waiting, or (if it is a route
\* message) has arrived: it is not doubled.
Reached(c, told, id)       == c[id].dest # None /\ \E h \in Node : <<id, h>> \in told
Beside(c, told, id)        == Counted(c[id].origin # None) + Counted(Reached(c, told, id))
Lives(c, told, nd, ch, id) == UnderWay(ch, Walks(id)) + Total([n \in Node |-> Waiting(nd[n], id)]) + Beside(c, told, id)

Balance(nd, ch, minted) ==
    Total([n \in Node |-> Worth(nd[n])]) + UnderWay(ch, Paid)
        = InitialTokens * Total([n \in Node |-> Size(nd[n])]) + minted

\* Each node that has been found is on its way to the application or has been told to it.
Settled(c, f, told, ch) ==
    /\ f \subseteq Ids \X Node /\ told \subseteq Ids \X Node
    /\ \A id \in Ids : c[id].origin # None => FoundFor(f, id) = {}
    /\ \A id \in Ids : c[id].dest = None =>
         /\ Cardinality(FoundFor(f, id)) <= c[id].responses
         /\ \A h \in Node : UnderWay(ch, Answers(id, h)) + Counted(<<id, h>> \in told) = Counted(<<id, h>> \in f)

SteadyAt(c, nd, ch, f, told, minted) ==
    /\ Linking(nd, ch) /\ minted \in Nat
    /\ Underway(c, f, DomainsOf(nd), ch) /\ \A n \in Node : WaitsAt(c, f, DomainsOf(nd), n, nd[n])
    /\ \A id \in Ids : Lives(c, told, nd, ch, id) <= 1
    /\ Balance(nd, ch, minted) /\ Settled(c, f, told, ch)

(***************************************************************************)
(* Steps                                                                   *)
(***************************************************************************)
\* t is what a handler leaves of a node that was r; rest is what it leaves of the channels.
Becomes(nd, rest, r, t, nd2, ch2) ==
    /\ r.n \in Node /\ r.s = nd[r.n] /\ Calm(r, t) /\ Books(t)
    /\ \A q : Gains(r.out, q) = 0
    /\ nd2[r.n] = t.s /\ \A m \in Node \ {r.n} : nd2[m] = nd[m]
    /\ Adds(rest, r.n, t.out, ch2)

\* What the step of a node that was r does to what is found, told and on its way; c and c2 are
\* the searches before and after it.
Turn(c, f, told, nd, ch, rest, D, r, c2, t) ==
    /\ DOMAIN r.s.neighbors # {} => t.s.state \in {"READY", "CRASH"}
    /\ DOMAIN r.s.neighbors = {} => Unpaid(t.s) = 0
    /\ \A n, k \in Node : rest[<<n, k>>] # << >> => ch[<<n, k>>] # << >>
    /\ t.minted \in Nat /\ t.found \subseteq Ids \X Node /\ t.told \subseteq Ids \X Node
    /\ UnderWay(rest, Paid) + Credit(t) = UnderWay(ch, Paid) + Credit(r) + t.minted
    /\ \A id \in Ids :
          UnderWay(rest, Walks(id)) + Walkers(t, id) + Beside(c2, told \cup t.told, id)
              <= UnderWay(ch, Walks(id)) + Walkers(r, id) + Beside(c, told, id)
    /\ \A id \in Ids : c2[id].origin # None => FoundFor(f \cup t.found, id) = {}
    /\ \A id \in Ids : c2[id].dest = None =>
         /\ Cardinality(FoundFor(f \cup t.found, id)) <= c2[id].responses
         /\ \A h \in Node : UnderWay(rest, Answers(id, h)) + Gains(t.out, Answers(id, h))
                            + Counted(<<id, h>> \in told \cup t.told) = Counted(<<id, h>> \in f \cup t.found)
    /\ Good(c2, f \cup t.found, D, t)
    /\ Underway(c2, f \cup t.found, D, rest)
    /\ \A m \in Node \ {r.n} : WaitsAt(c2, f \cup t.found, D, m, nd[m])

\* As long as links stay, no request is sent and no neighbor is timed out.
Steady ==
    history.steady =>
        /\ config.requests = 0 /\ config.timeouts = 0 /\ ~history.twice
        /\ SteadyAt(config.searches, node, channel, history.found, history.told, history.minted)

Unaffected(past) ==
    /\ past = [f \in HistoryFields |-> past[f]]
    /\ past.found = history.found /\ past.told = history.told /\ past.twice = history.twice
    /\ past.minted = history.minted /\ past.steady = history.steady

\* A packet has been taken from a channel, or none.
Remains(ch, rest) ==
    /\ Pairwise(ch)
    /\ \A n, k \in Node : \/ rest[<<n, k>>] = ch[<<n, k>>]
                          \/ ch[<<n, k>>] # << >> /\ rest[<<n, k>>] = Tail(ch[<<n, k>>])

\* A step that takes no message on its way.
Quiet(c, f, D, ch, rest, r, t) ==
    /\ Calm(r, t) /\ Books(t) /\ t.s.waiting = r.s.waiting
    /\ DOMAIN r.s.neighbors # {} => t.s.state \in {"READY", "CRASH"}
    /\ t.found = {} /\ t.told = {} /\ t.minted \in Nat
    /\ UnderWay(rest, Paid) + Credit(t) = UnderWay(ch, Paid) + Credit(r) + t.minted
    /\ \A id \in Ids : /\ UnderWay(rest, Walks(id)) = UnderWay(ch, Walks(id)) /\ Gains(t.out, Walks(id)) = 0
                       /\ \A h \in Node : /\ UnderWay(rest, Answers(id, h)) = UnderWay(ch, Answers(id, h))
                                          /\ Gains(t.out, Answers(id, h)) = 0
    /\ Good(c, f, D, t)

\* Only the search with an id has changed: it has left the application, or has found more.
Apart(c, f, c2, g, id) ==
    /\ \A j \in Ids : c2[j].dest = c[j].dest /\ c2[j].responses = c[j].responses
    /\ \A j \in Ids \ {id} : c2[j] = c[j] /\ FoundFor(g, j) = FoundFor(f, j)

\* A node that was o has taken the message m from a channel, from those that wait or from the
\* application, and has become r.
Taken(c, told, ch, rest, o, r, c2, m, fromApp) ==
    /\ Calm(o, r) /\ Books(r) /\ r.s.state = o.s.state
    /\ r.found = {} /\ r.told = {} /\ r.minted = 0 /\ \A q : Gains(r.out, q) = 0
    /\ UnderWay(rest, Paid) + Credit(r) + Counted(~fromApp) = UnderWay(ch, Paid) + Credit(o)
    /\ DOMAIN r.s.neighbors = {} => fromApp /\ Credit(r) = 0
    /\ \A id \in Ids : UnderWay(rest, Walks(id)) + Walkers(r, id) + Beside(c2, told, id) + Counted(id = m.id)
                           <= UnderWay(ch, Walks(id)) + Walkers(o, id) + Beside(c, told, id)
    /\ \A id \in Ids, h \in Node : UnderWay(rest, Answers(id, h)) = UnderWay(ch, Answers(id, h))
    /\ m.id \in Ids /\ c2[m.id].origin = None

\* An answer that has been taken from a channel.
AnswerTaken(c, ch, rest, D, n, m) ==
    /\ UnderWay(rest, Paid) = UnderWay(ch, Paid)
    /\ \A j \in Ids : UnderWay(rest, Walks(j)) = UnderWay(ch, Walks(j))
    /\ \A j \in Ids, h \in Node :
           UnderWay(ch, Answers(j, h)) = UnderWay(rest, Answers(j, h)) + Counted(j = m.id /\ h \in {m.found})
    /\ m.id \in Ids /\ m.found \in Node /\ c[m.id].dest = None
    /\ m.path \in Seq(Node) /\ Way(D, m.path) /\ m.path # << >> => m.path[Len(m.path)] \in D[n]

\* Only what tokens and messages have nothing to do with has changed.
Idles(r, t) ==
    /\ Calm(r, t) /\ t.out = r.out /\ t.found = r.found /\ t.told = r.told /\ t.minted = r.minted
    /\ t.s.waiting = r.s.waiting /\ t.s.neighbors = r.s.neighbors

\* What such a step does, the channels staying as they are.
Harmless(c, f, D, r, t) ==
    /\ Calm(r, t) /\ Books(t) /\ t.s.waiting = r.s.waiting
    /\ DOMAIN r.s.neighbors # {} => t.s.state \in {"READY", "CRASH"}
    /\ t.found = {} /\ t.told = {} /\ t.minted \in Nat
    /\ Credit(t) = Credit(r) + t.minted
    /\ \A q : q.types \cap {"TOKEN", "UPDATE", "KEYLIST"} = {} => Gains(t.out, q) = 0
    /\ Good(c, f, D, t)

SameBounds == /\ config'.searches = config.searches
              /\ config'.requests = config.requests /\ config'.timeouts = config.timeouts

\* A node that has done nothing yet is o, and a packet has been taken from a channel, or none.
Scene(c, f, told, nd, ch, minted, rest, o) ==
    /\ SteadyAt(c, nd, ch, f, told, minted) /\ Remains(ch, rest)
    /\ Books(o) /\ o.n \in Node /\ o.s = nd[o.n] /\ o.found = {} /\ o.told = {} /\ o.minted = 0
    /\ (\A k \in Node : o.out[k] = << >>) /\ \A q : Gains(o.out, q) = 0

\* What its step has to be.
Comes(c, f, told, nd, ch, rest, o, c2, t) ==
    /\ Calm(o, t) /\ Books(t) /\ t.told \cap told = {}
    /\ Turn(c, f, told, nd, ch, rest, DomainsOf(nd), o, c2, t)

\* What a message is taken from: u is o that has done no more than that.
Taking(o, u) == u.out = o.out /\ u.s.waiting \subseteq o.s.waiting

\* A node o gets the packet m of a neighbor.
Receives(c, f, told, nd, ch, minted, rest, o, from, m) ==
    /\ Scene(c, f, told, nd, ch, minted, rest, o)
    /\ \A q : UnderWay(ch, q) = UnderWay(rest, q) + Counted(Meets(m, q))
    /\ from \in DOMAIN o.s.neighbors /\ o.s.state = "READY"
    /\ PacketOK(m) /\ Fine(c, f, DomainsOf(nd), from, o.n, m)

\* An application asks: its search, or its route message, is no longer to be sent.
Asks(c, id, c2) ==
    /\ c[id].origin # None /\ c2[id].origin = None
    /\ c2[id].dest = c[id].dest /\ c2[id].responses = c[id].responses
    /\ \A j \in Ids \ {id} : c2[j] = c[j]

\* The packets on their way to n that are worth a token.
ArrivingFrom(n, m) == Cardinality({i \in DOMAIN channel[<<m, n>>] :
                         channel[<<m, n>>][i].type = "TOKEN" \/ IsMessage(channel[<<m, n>>][i])})
=============================================================================
