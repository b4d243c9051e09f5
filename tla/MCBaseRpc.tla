----------------------------- MODULE MCBaseRpc -----------------------------
(***************************************************************************)
(* Small instances of BaseRpc: two nonces, so that one call can be made,   *)
(* cancelled or answered inside the callbacks of the other; two nodes that *)
(* can change their keys; one call of each kind the code tells apart.      *)
(***************************************************************************)
EXTENDS BaseRpc, TLC

CONSTANTS a, b, k1, k2

\* A Kademlia-like lookup call, retried once, to a node whose key is known.
ToHandle  == [via |-> "UDP", addr |-> a, key |-> k1, toKey |-> FALSE,
              timeout |-> "default", retries |-> 1]
\* A bootstrap call to an address, not retried.
ToAddress == [ToHandle EXCEPT !.key = NoKey, !.retries = 0]
\* A call routed to a node through the overlay, with the caller's own timeout.
Routed    == [ToHandle EXCEPT !.via = "ROUTE", !.addr = b, !.timeout = "given"]
\* A call routed to a key, retried once.
ToKey     == [via |-> "ROUTE", addr |-> NoNode, key |-> NoKey, toKey |-> TRUE,
              timeout |-> "default", retries |-> 1]
\* The same through a first hop.
ViaHop    == [ToKey EXCEPT !.addr = a, !.key = k1, !.retries = 0]
\* A call between two tiers of this node, which gets no timeout.
Internal  == [ToKey EXCEPT !.via = "INTERNAL", !.toKey = FALSE, !.retries = 0]

AllCalls     == {ToHandle, ToAddress, Routed, ToKey, ViaHop, Internal}
MixedCalls   == {ToHandle, ToKey, Internal}

Symmetry == Permutations(Nonce)
=============================================================================
