-------------------------- MODULE ChordSuccessorList --------------------------
(***************************************************************************)
(* Chord's successor list (src/overlay/chord/ChordSuccessorList.cc) and the *)
(* interval tests on keys it is built on (src/common/OverlayKey.cc), as    *)
(* operators: the list is a value, and a method is an operator from a list *)
(* to a list.                                                              *)
(*                                                                         *)
(* Every node is its key, a natural number.  The code keeps a map from     *)
(* key - (thisNode's key + 1) to node and newEntry, so the map's order     *)
(* follows from the nodes in it: here a list is the set of its nodes and   *)
(* the set of those whose newEntry is set.  thisNode has the largest       *)
(* distance, 2^w - 1: it comes last if it is in its own list.              *)
(***************************************************************************)
EXTENDS Naturals, FiniteSets

CONSTANTS
    Node,               \* the keys of the nodes
    SuccessorListSize   \* parameter successorListSize

ASSUME NodeAssumption == Node \subseteq Nat /\ IsFiniteSet(Node)
ASSUME SizeAssumption == SuccessorListSize \in Nat \ {0}
-----------------------------------------------------------------------------
\* key is in the interval (a, b), (a, b] or [a, b] of the ring.  (a, a) is all
\* keys but a, while (a, a] and [a, a] hold a alone.  An unspecified key is in no
\* interval: the callers test for it.
IsBetween(key, a, b) ==
    IF a < b THEN a < key /\ key < b ELSE key # a /\ (a < key \/ key < b)

IsBetweenR(key, a, b) ==
    \/ a = b /\ key = a
    \/ a < b /\ a < key /\ key <= b
    \/ b < a /\ (a < key \/ key <= b)

IsBetweenLR(key, a, b) ==
    \/ a = b /\ key = a
    \/ a < b /\ a <= key /\ key <= b
    \/ b < a /\ (a <= key \/ key <= b)

\* x comes before y in the list of node n: it is met first on the way round the
\* ring that starts after n.
Precedes(n, x, y) == IsBetween(x, n, y)
-----------------------------------------------------------------------------
List == [nodes : SUBSET Node, fresh : SUBSET Node]

\* initializeList.
Initial(n) == [nodes |-> {n}, fresh |-> {n}]

IsEmpty(l, n) == l.nodes = {n}

\* getSuccessor(0) of a list that holds a node.
GetSuccessor(l, n) ==
    CHOOSE x \in l.nodes : \A y \in l.nodes \ {x} : Precedes(n, x, y)

\* Slip: one node too many.
FirstAndOne(n, S, k) ==
    {x \in S : Cardinality({y \in S : Precedes(n, y, x)}) <= k}

\* The first k nodes of S in the order of node n.
First(n, S, k) ==
    {x \in S : Cardinality({y \in S : Precedes(n, y, x)}) < k}

\* addSuccessor with resize for each node of S, one after the other: whenever the
\* list is too long its last node goes.
Add(l, n, S) ==
    LET kept == First(n, l.nodes \cup S, SuccessorListSize)
    IN  [nodes |-> kept, fresh |-> (l.fresh \cup S) \cap kept]

\* What a message carries of the list of node n to a reader who takes
\* successorListSize - 1 nodes of it.
Sent(l, n) == First(n, l.nodes, SuccessorListSize - 1)

\* Slip: all nodes of the answer.
BeyondOrNot(n, successor, S) == S

\* The nodes of an answer of the successor that would not replace it.
Beyond(n, successor, S) == {x \in S : ~ IsBetweenLR(x, n, successor)}

\* updateList: the successor that answered, and the list it sent, without
\* resizing; then removeOldSuccessors, which removes what was not added since it
\* ran last, clears the marks and cuts the list to its size.
UpdateList(l, n, successor, S) ==
    LET added == l.fresh \cup {successor} \cup Beyond(n, successor, S)
    IN  [nodes |-> First(n, added, SuccessorListSize), fresh |-> {}]

\* handleFailedNode: thisNode takes the place of the last node.
HandleFailedNode(l, n, failed) ==
    IF l.nodes = {failed} THEN Initial(n)
    ELSE [nodes |-> l.nodes \ {failed}, fresh |-> l.fresh \ {failed}]
=============================================================================
