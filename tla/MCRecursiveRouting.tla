-------------------------- MODULE MCRecursiveRouting --------------------------
(***************************************************************************)
(* Four nodes.  In "close" each knows the two that are closest among those *)
(* it knows; in "chain" the way to 1 is 4, 3, 2, 1; in "round" the tables  *)
(* are wrong, and messages to 4 go round.                                  *)
(***************************************************************************)
EXTENDS RecursiveRouting

\* For each node its next hops to each key.
AllTables ==
    [close |-> <<<<<<1, 2, 3>>, <<2, 1, 3>>, <<3, 2, 1>>, <<3, 2, 1>>>>,
                 <<<<1, 2, 3>>, <<2, 1, 3>>, <<3, 2, 4>>, <<4, 3, 2>>>>,
                 <<<<1, 2, 3>>, <<2, 3, 1>>, <<3, 2, 4>>, <<4, 3, 2>>>>,
                 <<<<2, 3, 4>>, <<2, 3, 4>>, <<3, 4, 2>>, <<4, 3, 2>>>>>>,
     chain |-> <<<<<<1, 2>>,    <<2, 1>>,    <<2, 1>>,    <<2, 1>>>>,
                 <<<<1, 3, 2>>, <<2, 1, 3>>, <<3, 1, 2>>, <<3, 1, 2>>>>,
                 <<<<2, 4, 3>>, <<2, 4, 3>>, <<3, 2, 4>>, <<4, 2, 3>>>>,
                 <<<<3, 4>>,    <<3, 4>>,    <<3, 4>>,    <<4, 3>>>>>>,
     round |-> [n \in Node |-> [key \in Node |->
                    IF n = 4 /\ key = 4 THEN <<4>> ELSE <<<<2, 3>>, <<3, 1>>, <<1, 2>>, <<1, 2>>>>[n]]]]

Ask(kind, src, key) == [kind |-> kind, src |-> src, key |-> key, via |-> None]
Base == [table |-> "close", routing |-> "semi", requests |-> <<Ask("lookup", 4, 1)>>, acks |-> TRUE,
         forward |-> FALSE, record |-> FALSE, retries |-> 1, failures |-> 1, losses |-> 1, early |-> 0]
Full    == [Base EXCEPT !.routing = "full"]
Source  == [Base EXCEPT !.routing = "source", !.table = "chain", !.failures = 0]
Plain   == [Base EXCEPT !.acks = FALSE]
Early   == [Base EXCEPT !.early = 1, !.losses = 0]
Data    == [Base EXCEPT !.requests = <<Ask("data", 4, 1)>>, !.forward = TRUE, !.routing = "full"]
Via     == [Data EXCEPT !.requests = <<[Ask("data", 1, 4) EXCEPT !.via = 2]>>]
Own     == [Full EXCEPT !.requests = <<Ask("lookup", 1, 1), Ask("data", 1, 1)>>, !.failures = 0]
Round   == [Base EXCEPT !.table = "round", !.requests = <<Ask("lookup", 4, 1)>>, !.losses = 0]
Record  == [Round EXCEPT !.record = TRUE, !.losses = 1]
RoundData == [Round EXCEPT !.requests = <<Ask("data", 1, 4)>>, !.forward = TRUE, !.failures = 0]
AllConfigs == {Base, Full, Source, Plain, Early, Data, Via, Own, Round, Record, RoundData}

\* The answer goes back over a chain in which a node fails.
BackConfigs == {[Source EXCEPT !.failures = 1, !.losses = 0]}
=============================================================================
