--------------------------- MODULE IterativeLookup ---------------------------
(***************************************************************************)
(* One iterative lookup (src/common/IterativeLookup.cc): the paths that    *)
(* ask ever closer nodes for a key, the calls they share, the siblings     *)
(* found and verified, the decision that the lookup is over, its retries,  *)
(* and what its listener is told in the end.                               *)
(*                                                                         *)
(* A node is the rank of its distance to the key looked up (0: the node    *)
(* with that very key), so that compare() is < and addresses are ordered   *)
(* like keys.  What the other nodes answer, and what the overlay's own     *)
(* findNode() returns, is arbitrary within the constants.  BaseRpc is seen *)
(* from its listener: each call in lk.calls ends once, by an answer or a   *)
(* timeout, unless it is cancelled (module RpcCalls).                      *)
(*                                                                         *)
(* Left out: statistics, findNodeExt, source routes, and proximity vectors *)
(* (sizeProx = sizeComb = 0).                                              *)
(***************************************************************************)
EXTENDS Integers, Sequences, FiniteSets, SequencesExt

CONSTANTS
    Node,           \* ranks of nodes by distance to the key
    NoNode,         \* UNSPECIFIED_NODE
    Self,           \* this node
    Starts,         \* what the overlay knows when a lookup starts: set of Start
    Answers,        \* the answers to FindNodeCalls: a set of Answer
    Configs         \* the configurations and the arguments of lookup()

Option == {"exhaustive", "merge", "verifySiblings", "majoritySiblings",
           "useAllParallelResponses", "strictParallelRpcs",
           "newRpcOnEveryTimeout", "newRpcOnEveryResponse",
           "finishOnFirstUnchanged", "visitOnlyOnce", "acceptLateSiblings",
           "failedNodeRpcs"}

\* findNode(): the next hops; isSiblingFor(): whether this node is responsible.
LocalView == [hops : Seq(Node), sibling : BOOLEAN]
\* FindNodeResponse: the closest nodes, and whether they are the key's siblings.
Answer    == [nodes : Seq(Node), siblings : BOOLEAN]

ASSUME NodeAssumption == Node \subseteq Nat /\ NoNode \notin Node /\ Self \in Node
ASSUME InputAssumption ==
    /\ Starts # {} /\ Starts \subseteq LocalView
    /\ Answers # {} /\ Answers \subseteq Answer
    /\ \A l \in Starts : IsInjective(l.hops)
    /\ \A a \in Answers : IsInjective(a.nodes)
\* IterativeLookupConfiguration (its flags in options), and what lookup() is given.
Configuration == [options : SUBSET Option, redundantNodes : Nat \ {0},
                  parallelPaths : Nat \ {0}, parallelRpcs : Nat \ {0},
                  numSiblings : Nat, hopCountMax : Nat, retries : Nat]

\* The constructor and lookup() throw an exception otherwise.
Permitted(c) ==
    /\ c.parallelPaths > 1 \/ {"verifySiblings", "majoritySiblings"} \cap c.options # {}
          => "merge" \in c.options
    /\ "exhaustive" \in c.options => c.numSiblings <= c.redundantNodes

ASSUME ConfigAssumption ==
    Configs \subseteq Configuration /\ \A c \in Configs : Permitted(c)
-----------------------------------------------------------------------------
VARIABLES
    config, \* one of Configs, for good
    lk      \* the lookup, the calls it waits for, and what its listener was told

vars == <<config, lk>>

On(option)     == option \in config.options
NumSiblings    == config.numSiblings
RedundantNodes == config.redundantNodes
ParallelRpcs   == config.parallelRpcs

Entry(n, source) == [node |-> n, source |-> source, used |-> FALSE]
Info(p, step)    == [path |-> p, step |-> step]

\* A pending call.  about: which path's which neighbor a FailedNodeCall reports.
Call(type, to, round) == [type |-> type, to |-> to, round |-> round, about |-> << >>]
FailedNodeCall(to, round, p, n) == [Call("failed", to, round) EXCEPT !.about = <<p, n>>]

IsPath(q) ==
    /\ {q.hops, q.step} \subseteq Nat /\ q.pending \in Int
    /\ {q.finished, q.success} \subseteq BOOLEAN
    /\ q.next \in Seq([node : Node, source : Node \cup {NoNode}, used : BOOLEAN])
    /\ DOMAIN q.old \subseteq Node /\ Range(q.old) \subseteq Node \cup {NoNode}

TypeOK ==
    /\ lk.phase \in {"new", "running", "gone"}
    /\ config \in Configs
    /\ lk.retries \in 0 .. config.retries /\ lk.round \in 0 .. config.retries + 1
    /\ lk.parallelPaths \in 1 .. config.parallelPaths
    /\ lk.finishedPaths \in Nat /\ lk.successfulPaths \in 0 .. lk.finishedPaths
    /\ \A p \in DOMAIN lk.paths : IsPath(lk.paths[p])
    /\ DOMAIN lk.rpcs \subseteq Node
    /\ UNION {lk.pings, lk.visited, lk.dead, lk.pinged, lk.majority, lk.heard,
              lk.named, lk.asked, lk.askedAgain, Range(lk.siblings)} \subseteq Node
    /\ Len(lk.siblings) <= IF NumSiblings = 0 THEN 1 ELSE NumSiblings
    /\ \A c \in lk.calls : c.type \in {"find", "ping", "failed"} /\ c.to \in Node
    /\ {lk.success, lk.late, lk.valid, lk.aborted} \subseteq BOOLEAN
    /\ lk.told \in Nat

NoNodes == [n \in {} |-> NoNode]

NewPath == [hops |-> 0, step |-> 0, pending |-> 0, finished |-> FALSE,
            success |-> FALSE, next |-> << >>, old |-> NoNodes]

\* History: round counts the start()s; heard are the nodes that answered since the
\* last one, named those an accepted answer named as siblings, asked those sent a
\* FindNodeCall, and askedAgain those sent another.
Init ==
    /\ config \in Configs
    /\ lk = [phase |-> "new", retries |-> config.retries, round |-> 0, late |-> FALSE,
             paths |-> << >>, parallelPaths |-> config.parallelPaths,
             finishedPaths |-> 0, successfulPaths |-> 0,
             rpcs |-> [n \in {} |-> << >>], pings |-> {}, calls |-> {},
             visited |-> {}, dead |-> {}, pinged |-> {}, majority |-> {},
             siblings |-> << >>, success |-> FALSE, heard |-> {}, named |-> {},
             asked |-> {}, askedAgain |-> {},
             told |-> 0, valid |-> FALSE, aborted |-> FALSE]

Find(s, n) == Call("find", n, s.round)
Ping(s, n) == Call("ping", n, s.round)
-----------------------------------------------------------------------------
(***************************************************************************)
(* Sorted vectors (BaseKeySortedVector).  Place is the position add() finds*)
(* for node n in the vector v of nodes, 0 if n is not added.               *)
(***************************************************************************)
IsAddable(v, max, n) == max = 0 \/ Len(v) # max \/ n <= Last(v)

\* Slip: first come, first served.
PlaceAtEnd(v, max, n) ==
    IF Contains(v, n) \/ Len(v) = max THEN 0 ELSE Len(v) + 1

Place(v, max, n) ==
    LET pos == SelectInSeq(v, LAMBDA m : m >= n)
    IN  CASE ~IsAddable(v, max, n)       -> 0
          [] pos # 0 /\ v[pos] = n       -> 0
          [] pos # 0                     -> pos
          [] OTHER                       -> Len(v) + 1

\* Slip: the vector grows beyond its size.
NotTruncated(v, max, pos, e) == IF pos = 0 THEN v ELSE InsertAt(v, pos, e)

\* An element is inserted at its place, if it has one, and the last one dropped.
Inserted(v, max, pos, e) ==
    IF pos = 0 THEN v
    ELSE LET w == InsertAt(v, pos, e)
         IN  IF max # 0 /\ Len(w) > max THEN Front(w) ELSE w

SortedAdd(v, max, n) == Inserted(v, max, Place(v, max, n), n)

NodesOf(next) == [i \in DOMAIN next |-> next[i].node]
NextHopsMax   == IF On("exhaustive") THEN 2 * RedundantNodes ELSE RedundantNodes

\* nextHops.add: LookupVector is sorted and bounded.
AddSorted(next, e) ==
    Inserted(next, NextHopsMax, Place(NodesOf(next), NextHopsMax, e.node), e)
-----------------------------------------------------------------------------
(***************************************************************************)
(* Siblings.  Operators below take the lookup s and return it changed.     *)
(***************************************************************************)
\* Slip: a node that is being verified need not be.
MustVerifyOnce(s, n, assured) ==
    On("verifySiblings") /\ ~assured /\ n \notin s.visited \cup s.pinged

\* The sibling has to answer a ping first.
MustVerify(s, n, assured) == On("verifySiblings") /\ ~assured /\ n \notin s.visited

SiblingsMax == IF NumSiblings = 0 THEN 1 ELSE NumSiblings

PingSibling(s, n) ==
    IF IsAddable(s.siblings, SiblingsMax, n) /\ n \notin s.pinged
    THEN [s EXCEPT !.pings = @ \cup {n}, !.pinged = @ \cup {n},
                   !.calls = @ \cup {Ping(s, n)}]
    ELSE s

\* siblings with n in it.
WithSibling(s, n) ==
    CASE NumSiblings = 0 -> IF n = 0 THEN <<n>> ELSE s.siblings
      [] NumSiblings > 0 /\ s.parallelPaths = 1 /\ ~On("verifySiblings") ->
            IF Len(s.siblings) = SiblingsMax THEN s.siblings
            ELSE Append(s.siblings, n)
      [] OTHER -> SortedAdd(s.siblings, SiblingsMax, n)

AddSibling(s, n, assured) ==
    LET t == [s EXCEPT !.majority = IF On("majoritySiblings") THEN @ \cup {n} ELSE @]
    IN  IF MustVerify(s, n, assured) THEN PingSibling(t, n)
        ELSE [t EXCEPT !.siblings = WithSibling(s, n)]

AddSiblings(s, nodes, assured) ==
    FoldLeft(LAMBDA t, n : AddSibling(t, n, assured), s, nodes)
-----------------------------------------------------------------------------
(***************************************************************************)
(* A path p of the lookup s asks the next nodes.                           *)
(***************************************************************************)
Finish(s, p, success) ==
    [s EXCEPT !.paths[p].finished = TRUE, !.paths[p].success = success]

\* Slip: strictParallelRpcs is ignored.
AnyBudget(path, num) ==
    IF num = 0 /\ path.pending = 0 THEN ParallelRpcs ELSE num

\* How many of the num calls wanted the path may send.
Budget(path, num) ==
    LET n == IF On("strictParallelRpcs")
             THEN Min({num, ParallelRpcs - path.pending}) ELSE num
    IN  IF n = 0 /\ path.pending = 0 /\ ~On("finishOnFirstUnchanged")
        THEN ParallelRpcs ELSE n

\* Slip: alreadyUsed is ignored.
MayAskAgain(s, e) == e.node \notin s.dead \cup s.visited

MayAsk(s, e) ==
    /\ ~e.used /\ e.node \notin s.dead
    /\ On("visitOnlyOnce") => e.node \notin s.visited

\* The indices of the next hops asked now: the first ones that may be.
Chosen(s, p, num) ==
    LET path  == s.paths[p]
        fresh == {i \in 1 .. Min({RedundantNodes, Len(path.next)}) :
                     MayAsk(s, path.next[i])}
    IN  {i \in fresh : Cardinality({j \in fresh : j < i}) < Budget(path, num)}

\* A node that is being asked already is not sent a second call, but the path
\* shares the answer.
Ask(s, p, chosen) ==
    LET path  == s.paths[p]
        nodes == {path.next[i].node : i \in chosen}
        hopTo(n) == CHOOSE i \in chosen : path.next[i].node = n
        called == nodes \ DOMAIN s.rpcs
        infos(n) == IF n \in DOMAIN s.rpcs THEN s.rpcs[n] ELSE << >>
    IN  [s EXCEPT
           !.rpcs = [n \in DOMAIN @ \cup nodes |->
               IF n \in nodes THEN Append(infos(n), Info(p, path.step)) ELSE @[n]],
           !.calls = @ \cup {Find(s, n) : n \in called},
           !.asked = @ \cup called,
           !.askedAgain = @ \cup (called \cap s.asked),
           !.paths[p] = [path EXCEPT
               !.pending = @ + Cardinality(chosen),
               !.next = [i \in DOMAIN @ |-> [@[i] EXCEPT !.used = @ \/ i \in chosen]],
               !.old = IF ~On("failedNodeRpcs") THEN @ ELSE
                   [n \in DOMAIN @ \cup nodes |->
                      IF n \in nodes THEN path.next[hopTo(n)].source ELSE @[n]]]]

\* No call is pending after this: an exhaustive path has found all it can.
NothingToWaitFor(s, p) ==
    IF s.paths[p].pending # 0 THEN s
    ELSE IF On("exhaustive")
    THEN LET next == s.paths[p].next IN
         Finish(AddSiblings(s, NodesOf(SubSeq(next, 1, Min({RedundantNodes, Len(next)}))),
                            FALSE), p, TRUE)
    ELSE Finish(s, p, FALSE)

SendRpc(s, p, num) ==
    IF s.paths[p].finished THEN s
    ELSE IF config.hopCountMax > 0 /\ s.paths[p].hops >= config.hopCountMax THEN Finish(s, p, FALSE)
    ELSE NothingToWaitFor(Ask(s, p, Chosen(s, p, num)), p)

SendNewRpcAfterTimeout(s, p) ==
    IF On("newRpcOnEveryTimeout") THEN SendRpc(s, p, 1)
    ELSE IF s.paths[p].pending = 0 THEN SendRpc(s, p, ParallelRpcs)
    ELSE s

\* Slip: pendingRpcs stays as it is.
NotSettled(path) == path

\* The response or timeout of the call to src is accounted for.
Settled(path) == [path EXCEPT !.pending = @ - 1]

\* A response makes the path forget where src came from, and take a step.
Stepped(path, src) ==
    [Settled(path) EXCEPT
        !.old  = Restrict(@, DOMAIN @ \ {src}),
        !.hops = IF src = Self THEN @ ELSE @ + 1,
        !.step = @ + 1]

\* add(): known.new counts the nodes that made it among the redundantNodes.
Learn(known, e) ==
    LET pos  == IF On("merge") THEN Place(NodesOf(known.next), NextHopsMax, e.node)
                ELSE Len(known.next) + 1
        next == IF On("merge") THEN AddSorted(known.next, e) ELSE Append(known.next, e)
    IN  [next |-> next, new |-> IF pos \in 1 .. RedundantNodes
                                THEN known.new + 1 ELSE known.new]

LearnAll(next, nodes, source) ==
    FoldLeft(LAMBDA known, n : Learn(known, Entry(n, source)),
             [next |-> next, new |-> 0], nodes)

\* Slip: the sibling flag alone.
FlaggedSiblings(a) == NumSiblings > 0 /\ a.siblings

\* The answer names the node whose key is looked up, or the siblings of the key.
FoundNode(a)     == NumSiblings = 0 /\ 0 \in Range(a.nodes)
FoundSiblings(a) == NumSiblings > 0 /\ ~On("exhaustive") /\ a.siblings /\ a.nodes # << >>

\* The path handles an answer.
HandleResponse(s, p, src, a) ==
    LET path  == s.paths[p]
        kept  == IF a.nodes # << >> /\ ~On("merge") THEN << >> ELSE path.next
        nodes == IF FoundNode(a) THEN SubSeq(a.nodes, 1, SelectInSeq(a.nodes, LAMBDA n : n = 0))
                 ELSE a.nodes
        known == LearnAll(kept, nodes, src)
        t     == [s EXCEPT !.visited = @ \cup {src},
                           !.paths[p] = [Stepped(path, src) EXCEPT !.next = known.next]]
        new   == IF known.new = 0 /\ On("newRpcOnEveryResponse") THEN 1 ELSE known.new
    IN  CASE s.late           -> Finish(s, p, FALSE)
          [] ~s.late /\ FoundNode(a) -> Finish(AddSibling(t, 0, FALSE), p, TRUE)
          [] ~s.late /\ FoundSiblings(a) ->
                Finish([AddSiblings(t, a.nodes, FALSE)
                          EXCEPT !.named = @ \cup Range(a.nodes)], p, TRUE)
          [] OTHER -> SendRpc(t, p, Min({new, ParallelRpcs}))

\* The path handles a timeout, or an answer it does not accept.  again: what
\* findNode() returns if handleFailedNode() handled the failure of a neighbor.
HandleTimeout(s, p, dest, again) ==
    LET path == s.paths[p]
        next == IF On("exhaustive") /\ dest \in s.dead
                THEN SelectSeq(path.next, LAMBDA e : e.node # dest) ELSE path.next
        t    == [s EXCEPT !.paths[p] = [Settled(path) EXCEPT !.next = next]]
        known == dest \in DOMAIN path.old
    IN  CASE s.late            -> Finish(t, p, FALSE)
          [] ~s.late /\ ~known -> SendNewRpcAfterTimeout(t, p)
          [] ~s.late /\ known /\ path.old[dest] = NoNode ->
                SendNewRpcAfterTimeout(
                    [t EXCEPT !.paths[p].next =
                        FoldLeft(LAMBDA v, n : AddSorted(v, Entry(n, NoNode)), @, again)], p)
          [] OTHER ->
                [t EXCEPT !.calls = @ \cup {FailedNodeCall(path.old[dest], s.round, p, dest)}]

\* The node src, told that a neighbor of its failed, may be asked again.
HandleFailedNodeResponse(s, p, src, tryAgain) ==
    LET path     == s.paths[p]
        reported == {n \in DOMAIN path.old : path.old[n] = src}
        source   == IF src \in DOMAIN path.old THEN path.old[src] ELSE NoNode
        t == IF ~tryAgain THEN s
             ELSE [s EXCEPT !.visited = @ \ {src},
                            !.paths[p].next = AddSorted(@, Entry(src, source))]
    IN  IF path.finished \/ reported = {} THEN s
        ELSE SendNewRpcAfterTimeout(
                [t EXCEPT !.paths[p].old = Restrict(@, DOMAIN @ \ {Min(reported)})], p)
-----------------------------------------------------------------------------
(***************************************************************************)
(* The lookup starts, stops and starts again.                              *)
(***************************************************************************)
\* Slip: the pings are forgotten.
CancelledCalls(s) == {Find(s, n) : n \in DOMAIN s.rpcs}

\* The calls stop() cancels.
Cancelled(s) == {Find(s, n) : n \in DOMAIN s.rpcs} \cup {Ping(s, n) : n \in s.pings}

Stop(s) ==
    [s EXCEPT !.calls = @ \ Cancelled(s), !.rpcs = [n \in {} |-> << >>],
              !.pings = {}, !.paths = << >>,
              !.success = @ \/ \E p \in DOMAIN s.paths : s.paths[p].success]

\* The destructor: the object is gone, and so is what only the object knew.
Deleted(s) ==
    LET t == Stop(s)
    IN  [t EXCEPT !.phase = "gone", !.late = FALSE, !.finishedPaths = 0,
                  !.successfulPaths = 0, !.visited = {}, !.dead = {}, !.pinged = {},
                  !.majority = {}, !.asked = {}]

\* lookupFinished(): the listener reads isValid() and getResult().
Told(s) == [s EXCEPT !.told = @ + 1, !.valid = s.success]

DeleteThis(s) == Told(Deleted(s))

Cleared(s) ==
    [s EXCEPT !.phase = "running", !.round = @ + 1, !.late = FALSE, !.success = FALSE,
              !.finishedPaths = 0, !.successfulPaths = 0, !.siblings = << >>,
              !.visited = {Self}, !.dead = {}, !.pinged = {}, !.heard = {}, !.named = {},
              !.asked = {}, !.askedAgain = {}]

\* Path i of n gets every n-th next hop.
FirstHops(hops, i, n) ==
    FoldLeft(LAMBDA v, j : IF j % n # i % n THEN v
                           ELSE Learn([next |-> v, new |-> 0], Entry(hops[j], NoNode)).next,
             << >>, [j \in DOMAIN hops |-> j])

NewPaths(s, hops) ==
    LET n == Min({s.parallelPaths, Len(hops)})
    IN  FoldLeft(LAMBDA t, i :
                    SendRpc([t EXCEPT !.paths = Append(@,
                        [NewPath EXCEPT !.next = FirstHops(hops, i, n)])], i, ParallelRpcs),
                 [s EXCEPT !.parallelPaths = n], [i \in 1 .. n |-> i])

\* The key turns out to be this node's own business: the result, if any.
AnsweredLocally(l) == l.sibling /\ (NumSiblings = 0 \/ ~On("exhaustive"))
LocalResult(s, l) ==
    CASE NumSiblings > 0 -> [AddSiblings(s, l.hops, TRUE) EXCEPT !.success = TRUE]
      [] NumSiblings = 0 /\ Self = 0 -> [AddSibling(s, Self, TRUE) EXCEPT !.success = TRUE]
      [] OTHER -> s

\* checkStop() at the end of start() can only find that no call was sent.  It
\* retries then, and a start() in the same instant ends in the same way.
Start(s, l) ==
    LET c == Cleared(s)
        t == NewPaths(c, l.hops)
    IN  CASE l.hops = << >> -> DeleteThis(c)
          [] l.hops # << >> /\ AnsweredLocally(l) -> DeleteThis(LocalResult(c, l))
          [] OTHER -> IF DOMAIN t.rpcs = {} /\ t.pings = {}
                      THEN DeleteThis([t EXCEPT !.retries = 0]) ELSE t

AllPathsFinished(s) == s.finishedPaths = s.parallelPaths

\* Few enough nodes were named by anybody to take them all.
Agreed(s) == /\ On("majoritySiblings") /\ NumSiblings > 0 /\ AllPathsFinished(s)
             /\ Cardinality(s.majority) <= NumSiblings
WithMajority(s) ==
    IF ~Agreed(s) THEN s
    ELSE [s EXCEPT !.success = TRUE,
                   !.siblings = FoldLeft(LAMBDA v, n : SortedAdd(v, SiblingsMax, n), @,
                                         SetToSortSeq(s.majority, <))]

HasResult(s) == \/ s.successfulPaths >= 1 /\ NumSiblings = 0 /\ s.siblings # << >>
                \/ AllPathsFinished(s) /\ NumSiblings > 0 /\ s.pings = {}
\* Slip: the fallback is thought to be covered by the count of paths.
NothingPendingAnywhere(s) == AllPathsFinished(s) /\ DOMAIN s.rpcs = {} /\ s.pings = {}

NothingPending(s) == DOMAIN s.rpcs = {} /\ s.pings = {}
Succeeded(s) == \/ s.success \/ s.successfulPaths >= 1
                \/ HasResult(s) /\ \E p \in DOMAIN s.paths : s.paths[p].success

\* Slip: the listener is told of every stop().
RestartedLoudly(s, l) == Start(Told(Stop([s EXCEPT !.retries = @ - 1])), l)

\* stop() with the listener set aside, then start().
Restarted(s, l) == Start(Stop([s EXCEPT !.retries = @ - 1]), l)

CheckStop(s, l) ==
    LET t == WithMajority(s)
    IN  CASE ~(Agreed(s) \/ HasResult(t) \/ NothingPending(t)) -> s
          [] OTHER -> IF ~Succeeded(t) /\ t.retries > 0 THEN Restarted(t, l)
                      ELSE DeleteThis([t EXCEPT !.success = Succeeded(t)])
-----------------------------------------------------------------------------
(***************************************************************************)
(* Events.                                                                 *)
(***************************************************************************)
\* Every handler ends in checkStop(), which may start() again with what the
\* overlay knows by then.
Checked(s) == \E l \in Starts : lk' = CheckStop(s, l)

Running == lk.phase = "running"
Ended(s, c) == [s EXCEPT !.calls = @ \ {c}]

\* Slip: a path is counted whether it has finished or not.
CountedAnyway(s, p) == [s EXCEPT !.finishedPaths = @ + 1]

\* finishedPaths++, successfulPaths++.
Counted(s, p) ==
    [s EXCEPT !.finishedPaths = IF s.paths[p].finished THEN @ + 1 ELSE @,
              !.successfulPaths = IF s.paths[p].finished /\ s.paths[p].success
                                  THEN @ + 1 ELSE @]

Accepts(s, i) == \/ On("useAllParallelResponses") /\ On("merge")
                 \/ i.step = s.paths[i.path].step
AcceptsAnyway(a) == On("exhaustive") \/ (a.siblings /\ On("acceptLateSiblings"))

\* One path gets the answer, for the others it comes too late.
Distribute(s, infos, src, a) ==
    LET One(t, i) ==
          CASE t.s.paths[i.path].finished -> t
            [] ~t.s.paths[i.path].finished /\ ~t.handled /\ (Accepts(t.s, i) \/ AcceptsAnyway(a)) ->
                  [s |-> Counted(HandleResponse(t.s, i.path, src, a), i.path), handled |-> TRUE]
            [] OTHER ->
                  [t EXCEPT !.s = Counted(HandleTimeout(@, i.path, src, << >>), i.path)]
    IN  FoldLeft(One, [s |-> s, handled |-> FALSE], infos).s

DistributeTimeout(s, infos, dest, again) ==
    FoldLeft(LAMBDA t, i : IF t.paths[i.path].finished THEN t
                           ELSE Counted(HandleTimeout(t, i.path, dest, again), i.path),
             s, infos)

\* rpcs.erase(n).
Taken(s, n) == [s EXCEPT !.rpcs = Restrict(@, DOMAIN @ \ {n})]

\* IterativeLookup::lookup.
Lookup ==
    /\ lk.phase = "new"
    /\ \E l \in Starts : lk' = Start(lk, l)

FindNodeResponse(c) ==
    /\ Running /\ c.type = "find"
    /\ \E a \in Answers :
          LET s == [Ended(lk, c) EXCEPT !.heard = @ \cup {c.to}]
          IN  IF c.to \notin DOMAIN s.rpcs THEN lk' = s
              ELSE Checked(Distribute(Taken(s, c.to), s.rpcs[c.to], c.to, a))

PingResponse(c) ==
    /\ Running /\ c.type = "ping"
    /\ Checked(AddSibling([Ended(lk, c) EXCEPT !.pings = @ \ {c.to},
                                               !.heard = @ \cup {c.to}], c.to, TRUE))

FailedNodeResponse(c) ==
    /\ Running /\ c.type = "failed"
    /\ \E tryAgain \in BOOLEAN :
          Checked(FoldLeft(LAMBDA t, p : HandleFailedNodeResponse(t, p, c.to, tryAgain),
                           [Ended(lk, c) EXCEPT !.heard = @ \cup {c.to}],
                           [p \in DOMAIN lk.paths |-> p]))

PingTimeout(c) ==
    /\ Running /\ c.type = "ping"
    /\ Checked([Ended(lk, c) EXCEPT !.pings = @ \ {c.to}])

\* What findNode() returns if the overlay handles the failure of a neighbor.
LocalRetry == IF On("failedNodeRpcs") THEN {l.hops : l \in Starts} \cup {<< >>} ELSE {<< >>}

\* A timeout is looked up by address: that of a FailedNodeCall is taken for the
\* timeout of the FindNodeCall to the same node.
RpcTimeout(c) ==
    /\ Running /\ c.type \in {"find", "failed"}
    /\ \E again \in IF c.type = "find" THEN LocalRetry ELSE {<< >>} :
          LET s == Ended(lk, c)
          IN  IF c.to \notin DOMAIN s.rpcs THEN lk' = s
              ELSE Checked(DistributeTimeout([Taken(s, c.to) EXCEPT !.dead = @ \cup {c.to}],
                                             s.rpcs[c.to], c.to, again))

\* abortLookup(): the overlay drops its lookups, their listeners first.
AbortLookup ==
    /\ Running
    /\ lk' = [Deleted(lk) EXCEPT !.aborted = TRUE]

\* LOOKUP_TIMEOUT has passed since start().
TimePasses ==
    /\ Running /\ ~lk.late
    /\ lk' = [lk EXCEPT !.late = TRUE]

CallEnds == \E c \in lk.calls : \/ FindNodeResponse(c) \/ PingResponse(c)
                                \/ FailedNodeResponse(c) \/ PingTimeout(c)
                                \/ RpcTimeout(c)

Next == (Lookup \/ CallEnds \/ AbortLookup \/ TimePasses) /\ UNCHANGED config

\* BaseRpc ends every call it was given a timeout for (RpcCalls!TimedCallsEnd):
\* this is WF_lk(CallEnds), with ENABLED CallEnds written out, and the steps of
\* CallEnds told from the others by what they change, which TLC evaluates faster.
CallMayEnd == Running /\ lk.calls # {}
CallEnded  == Running /\ lk' # [lk EXCEPT !.late = TRUE] /\ ~lk'.aborted
Fairness   == []<>~CallMayEnd \/ []<><<CallEnded>>_lk

Spec == Init /\ [][Next]_vars /\ Fairness
-----------------------------------------------------------------------------
(***************************************************************************)
(* What must hold.                                                         *)
(***************************************************************************)
\* How often path p is waiting for the answer of some node.
Waiting(p) ==
    Cardinality(UNION {{<<n, i>> : i \in {j \in DOMAIN lk.rpcs[n] : lk.rpcs[n][j].path = p}} :
                          n \in DOMAIN lk.rpcs})

\* pendingRpcs of a path that is not finished is the number of answers it has
\* still to get, whether or not it shares them with other paths, and such a path
\* never waits for nothing (or for a FailedNodeResponse only, which is not counted).
PathsWait ==
    Running => \A p \in DOMAIN lk.paths :
        ~lk.paths[p].finished =>
            /\ lk.paths[p].pending = Waiting(p)
            /\ On("failedNodeRpcs") \/ Waiting(p) > 0

\* The calls that can still reach the lookup are those it knows of: when it is
\* stopped, restarted, aborted or deleted, no call is left that would be reported
\* to it (handleRpcResponse of a deleted object).  FailedNodeCalls are the exception.
NoOrphanedCalls == ~On("failedNodeRpcs") => lk.calls = Cancelled(lk)

\* The listener is told exactly once, whatever retries there were, and not at all
\* by a lookup that is aborted.
ListenerToldOnce ==
    lk.told = IF lk.phase = "gone" /\ ~lk.aborted THEN 1 ELSE 0

\* The lookup was over before a node was asked: the result is the overlay's own.
Local == /\ lk.asked = {} /\ lk.heard = {}
         /\ \E l \in Starts : l.sibling /\ Range(lk.siblings) \subseteq Range(l.hops) \cup {Self}

\* A valid result is not empty: SendToKeyListener calls it an error.
ValidResultNotEmpty == lk.told > 0 /\ lk.valid => lk.siblings # << >>

\* The same for the lookups whose paths succeed only with siblings at hand.
TakesSiblingsAsNamed ==
    config.options \cap {"verifySiblings", "majoritySiblings", "exhaustive"} = {}
ValidResultNamesSiblings == TakesSiblingsAsNamed => ValidResultNotEmpty

\* With verifySiblings no node is a sibling that has not answered a ping or a
\* FindNodeCall of this round itself.
SiblingsProvedThemselves ==
    On("verifySiblings") => Range(lk.siblings) \subseteq lk.heard \cup {Self} \/ Local

\* However the answers of several paths arrive, the result are the closest ones of
\* all the nodes named as siblings, the closest first.
Closest(nodes) ==
    LET sorted == SetToSortSeq(nodes, <)
    IN  SubSeq(sorted, 1, Min({SiblingsMax, Len(sorted)}))

ClosestSiblingsWin ==
    lk.parallelPaths > 1 /\ NumSiblings > 0 /\ TakesSiblingsAsNamed /\ ~Local
        => lk.siblings = Closest(lk.named)

\* "if true, the same node is never asked twice during a single lookup"
\* (lookupVisitOnlyOnce), here: until the lookup is started again.
NeverAskedTwice == On("visitOnlyOnce") => lk.askedAgain = {}

\* It holds if a path has one call in flight, or remembers all its next hops, or
\* accepts every answer.
RemembersNextHops ==
    /\ ~On("failedNodeRpcs")
    /\ \/ ParallelRpcs = 1
       \/ On("merge") /\ lk.parallelPaths = 1
       \/ On("merge") /\ On("useAllParallelResponses")
NeverAskedTwiceIfRemembered == RemembersNextHops => NeverAskedTwice

\* finishedPaths never counts a path that is still asking, nor one twice: that
\* would end the lookup.  (It may count too few: a path that finds nobody to ask
\* in start() is not counted, as the TODO in checkStop() suspects.)
NoPathCountedEarly ==
    Running => lk.finishedPaths <=
                  Cardinality({p \in DOMAIN lk.paths : lk.paths[p].finished})

\* strictParallelRpcs: a path has at most ParallelRpcs calls in flight.
CallsInFlightBounded ==
    On("strictParallelRpcs") =>
        \A p \in DOMAIN lk.paths : lk.paths[p].pending <= ParallelRpcs

\* The state that the parts of a lookup share agrees: each path waits for calls that are
\* recorded, every recorded call belongs to a lookup that goes on, paths are counted when
\* they are finished, limits hold, and the listener is told once.
LookupConsistent ==
    /\ TypeOK
    /\ PathsWait
    /\ NoOrphanedCalls
    /\ ListenerToldOnce
    /\ NoPathCountedEarly
    /\ CallsInFlightBounded

\* A valid result can be relied upon: it names siblings, and with verifySiblings only those
\* that have proved themselves.
ResultProved == ValidResultNamesSiblings /\ SiblingsProvedThemselves

\* Every lookup ends, and its listener hears of it, unless it is aborted.
EveryLookupEnds == Running ~> lk.phase = "gone"
=============================================================================
