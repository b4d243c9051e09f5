----------------------------- MODULE MCKademlia -----------------------------
(***************************************************************************)
(* Small instances of Kademlia: four nodes with 3-bit keys, two siblings,  *)
(* buckets of one node with one candidate for its place.                   *)
(***************************************************************************)
EXTENDS Kademlia
LOCAL B == INSTANCE Bitwise

XorTable  == [x, y \in 0 .. 7 |-> B!^^(x, y)]
Xor(x, y) == XorTable[x, y]

\* Siblings are pinged; a node fails.
Pings  == [secure |-> FALSE, sibPing |-> TRUE, maxStale |-> 0,
           deaths |-> 1, losses |-> 0, answers |-> 1, lookups |-> 2,
           nodes |-> {1, 2, 3, 6}, known |-> {1}]
\* The first node of the network; answers name two nodes.
Alone  == [Pings EXCEPT !.sibPing = FALSE, !.known = {}, !.answers = 2]
\* A node that fails is given two chances.
Stales == [Pings EXCEPT !.sibPing = FALSE, !.maxStale = 1, !.nodes = {1, 4, 5, 6},
                           !.known = {1, 5}]
\* A call to a live node is lost, with and without secureMaintenance.
Lossy(secure) == [Pings EXCEPT !.sibPing = FALSE, !.deaths = 0, !.losses = 1, !.secure = secure,
                               !.lookups = 1]
Secure == [Lossy(TRUE) EXCEPT !.nodes = {1, 4, 5, 6}]

AllConfigs == {Pings, Alone, Stales, Lossy(FALSE), Lossy(TRUE), Secure}
=============================================================================
