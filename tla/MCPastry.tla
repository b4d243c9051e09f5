------------------------------ MODULE MCPastry ------------------------------
(***************************************************************************)
(* A ring of eleven places.                                                *)
(***************************************************************************)
EXTENDS Pastry

\* Two nodes; this one joins with messages of up to two hops.
Joins == [nodes |-> {2, 5}, start |-> << >>, hops |-> 2, deaths |-> 1, losses |-> 1,
          reroutes |-> 0, states |-> 1, pings |-> TRUE]
\* Messages of up to three hops, which may be routed again.
Reroutes == [nodes |-> {2, 5}, start |-> << >>, hops |-> 3, deaths |-> 0, losses |-> 1,
             reroutes |-> 1, states |-> 0, pings |-> TRUE]
\* The leaf set is full and leaves fail.
Fails == [nodes |-> {2, 3, 6, 8, 9}, start |-> <<2, 3, 8, 9>>, hops |-> 1, deaths |-> 2, losses |-> 1,
          reroutes |-> 0, states |-> 1, pings |-> FALSE]
\* A node that is ready processes states.
Pings == [nodes |-> {2, 6, 9}, start |-> <<2, 9>>, hops |-> 1, deaths |-> 1, losses |-> 1,
          reroutes |-> 0, states |-> 1, pings |-> TRUE]
AllConfigs == {Joins, Reroutes, Fails, Pings}
=============================================================================
