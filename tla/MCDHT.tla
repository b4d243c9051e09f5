-------------------------------- MODULE MCDHT --------------------------------
(***************************************************************************)
(* Small instances of DHT.                                                 *)
(***************************************************************************)
EXTENDS DHT

Put(v) == [type |-> "put", value |-> v]
Get    == [type |-> "get", value |-> NoValue]

Still == [replicas |-> 3, gets |-> 2, secure |-> FALSE, calm |-> FALSE,
          requests |-> <<Put(1), Get>>, members |-> {2, 3, 4},
          joins |-> 0, leaves |-> 0, losses |-> 0, expiries |-> 0, invalid |-> 0]

\* Two writers and a reader at once, or the deletion of the item.
Writers(v) == [Still EXCEPT !.replicas = 2, !.requests = <<Put(2), Put(v), Get>>]
\* Calls or answers are lost, lookups fail, entries expire.
Lossy     == [Still EXCEPT !.losses = 2, !.invalid = 1]
Expiry    == [Still EXCEPT !.expiries = 1]
\* The overlay changes meanwhile.
Joining   == [Still EXCEPT !.requests = <<Put(1)>>, !.members = {3, 4}, !.secure = TRUE,
                           !.joins = 1, !.losses = 1]
Leaving   == [Still EXCEPT !.replicas = 2, !.leaves = 1]
\* Maintenance, one change after the other.
Calm(secure) == [Still EXCEPT !.requests = <<Put(1)>>, !.calm = TRUE, !.secure = secure,
                              !.joins = IF secure THEN 1 ELSE 2, !.leaves = 2]

AllScenarios == {Writers(1), Writers(NoValue), Lossy, Expiry, Joining, Leaving,
                 Calm(TRUE), Calm(FALSE)}
=============================================================================
