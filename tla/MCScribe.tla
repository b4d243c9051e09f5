------------------------------ MODULE MCScribe ------------------------------
(***************************************************************************)
(* Up to four nodes, by their distance to the key of the group.            *)
(***************************************************************************)
EXTENDS Scribe

Base == [members |-> {1, 2, 3}, users |-> {2, 3}, sources |-> {3}, joins |-> 0, failures |-> 0,
         subscribes |-> 2, leaves |-> 1, publishes |-> 0, losses |-> 0, prompt |-> TRUE]
\* A closer node comes, and a node fails.
Moves     == [Base EXCEPT !.members = {2, 3}, !.joins = 1, !.failures = 1]
\* Trees of some depth.
Deep      == [Base EXCEPT !.members = {1, 2, 3, 4}, !.users = {2, 4}, !.leaves = 0, !.failures = 1]
\* Timers expire while messages are on their way.
Late      == [Base EXCEPT !.subscribes = 1, !.leaves = 0, !.failures = 1, !.prompt = FALSE]
\* A node asks for a parent twice, gets two, and data passes by way of both.
Twice     == [Base EXCEPT !.members = {1, 2, 3, 4}, !.users = {3, 4}, !.sources = {4}, !.leaves = 0,
                          !.publishes = 1]
Publishes == [Base EXCEPT !.publishes = 1, !.leaves = 0]
\* The rendezvous point changes.
Changes   == [Base EXCEPT !.members = {2, 3}, !.users = {3}, !.subscribes = 1, !.leaves = 0,
                          !.joins = 1, !.publishes = 2]
AllConfigs == {Base, Moves, Deep, Late, Twice, Publishes, Changes}
=============================================================================
