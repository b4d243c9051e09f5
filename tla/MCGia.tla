-------------------------------- MODULE MCGia --------------------------------
(***************************************************************************)
(* Small instances of Gia.                                                 *)
(***************************************************************************)
EXTENDS Gia

NoSearch == [origin |-> None, dest |-> None, responses |-> 0]
Search(n, responses) == [origin |-> n, dest |-> None, responses |-> responses]
Route(n, m) == [origin |-> n, dest |-> m, responses |-> 0]

Base == [links |-> {}, joins |-> {}, keys |-> {}, searches |-> [i \in Ids |-> NoSearch],
         armed |-> {}, cut |-> FALSE, requests |-> 0, updates |-> 0, timeouts |-> 0,
         forgets |-> 0, puts |-> 0]

\* Three nodes join one after another.
Joins == [Base EXCEPT !.joins = {1, 2, 3}, !.requests = 3]
\* A fifth node joins four that are full.
Full  == [Base EXCEPT !.links = {{1, 2}, {1, 3}, {1, 4}, {2, 3}, {2, 4}, {3, 4}}, !.joins = {5}, !.requests = 2, !.updates = 1]
\* Two nodes join a third one that has room for one.
Race  == [Base EXCEPT !.links = {{1, 2}, {1, 3}}, !.joins = {4, 5}, !.requests = 2]
\* Two neighbors lose each other.
Idle  == [Base EXCEPT !.joins = {1, 2}, !.requests = 3, !.timeouts = 4]

\* Searches over a chain of nodes, over a triangle, and for a node.
Chain    == [Base EXCEPT !.links = {{1, 2}, {2, 3}, {3, 4}}]
Walk     == [Chain EXCEPT !.keys = {4}, !.searches = <<Search(1, 2), Route(4, 1)>>, !.armed = {2}, !.puts = 1]
Triangle == [Base EXCEPT !.links = {{1, 2}, {2, 3}, {1, 3}}, !.keys = {2, 3},
                         !.searches = <<Search(1, 3), Search(2, 3)>>, !.cut = TRUE, !.forgets = 1, !.puts = 1]
\* A node without neighbors searches for a key of its own.
Alone    == [Base EXCEPT !.joins = {1}, !.keys = {1}, !.searches = <<Search(1, 1), NoSearch>>]
AllConfigs == {Joins, Full, Race, Idle, Walk, Triangle, Alone}
=============================================================================
