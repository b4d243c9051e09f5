------------------------- MODULE MCIterativeLookup -------------------------
(***************************************************************************)
(* Small instances of IterativeLookup.  This node is the one farthest from *)
(* the key; an answer names up to two of the five nodes.                   *)
(***************************************************************************)
EXTENDS IterativeLookup, TLC

\* Whatever two nodes in any order, this one too, as next hops or as siblings.
TwoHops == [nodes : {s \in SeqOf(Node, 2) : IsInjective(s)}, siblings : BOOLEAN]

\* The overlay knows two nodes, or one and itself, or nobody, or is responsible.
SomeStarts == [hops : {<<1, 2>>, <<2, Self>>, << >>}, sibling : {FALSE}]
              \cup {[hops |-> <<0, Self>>, sibling |-> TRUE]}

\* default.ini: one call at a time, whose answer replaces the next hops.
Default == [options |-> {"visitOnlyOnce", "acceptLateSiblings"}, redundantNodes |-> 2,
            parallelPaths |-> 1, parallelRpcs |-> 1,
            numSiblings |-> 1, hopCountMax |-> 0, retries |-> 1]
With(c, options) == [c EXCEPT !.options = @ \cup options]

\* Kademlia: parallel calls whose answers are merged.
Kademlia == [With(Default, {"merge"}) EXCEPT !.redundantNodes = 3, !.parallelRpcs = 2,
                                             !.numSiblings = 2]
\* Two paths, which ask two nodes each.
Paths == [Kademlia EXCEPT !.redundantNodes = 2, !.parallelPaths = 2]
\* Siblings have to prove themselves.
Secure == [With(Paths, {"verifySiblings"}) EXCEPT !.parallelRpcs = 1]
\* All options that send more calls, strictly limited.
Eager == {"newRpcOnEveryTimeout", "newRpcOnEveryResponse", "useAllParallelResponses"}
Strict == [With(Kademlia, {"strictParallelRpcs"} \cup Eager)
             EXCEPT !.redundantNodes = 4, !.numSiblings = 1, !.retries = 0]
\* A lookup of a node within three hops.
ToNode == [With(Paths, Eager) EXCEPT !.numSiblings = 0, !.hopCountMax = 3]
\* All nodes near the key.
Exhaustive == With(Paths, {"exhaustive"})
\* Failed neighbors are reported to the node that named them.
Failed == [With(Paths, {"failedNodeRpcs"}) EXCEPT !.parallelRpcs = 1, !.retries = 0]
\* One path and the majority of what it was told.
Majority == [With(Kademlia, {"majoritySiblings"}) EXCEPT !.retries = 0]
\* Parallel calls whose answers are not merged.
NotMerged == [Default EXCEPT !.parallelRpcs = 2, !.retries = 0]

AllKinds == {Default, Kademlia, Paths, Secure, Strict, ToNode, Exhaustive, Failed,
            Majority, NotMerged}
=============================================================================
