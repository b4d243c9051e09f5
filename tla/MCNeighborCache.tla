--------------------------- MODULE MCNeighborCache ---------------------------
(***************************************************************************)
(* Small instances of NeighborCache.  A cache for one entry meets a second *)
(* node, entries expire after two units of time, and there are enough      *)
(* queries for one to start a ping, one to join it and one to be made from *)
(* the callback of the first before the second is called.                  *)
(***************************************************************************)
EXTENDS NeighborCache

CONSTANTS q1, q2, q3

AllQueries == [enabled \in BOOLEAN |-> IF enabled THEN Query ELSE {q1, q2}]
=============================================================================
