------------------------------ MODULE RpcCalls ------------------------------
(***************************************************************************)
(* What the remote procedure calls of OverSim (src/common/BaseRpc) promise *)
(* to the component that makes them, without the messages, the timers and  *)
(* the retransmissions: a call is made once, and it ends at most once, by  *)
(* an answer, by a timeout or by being cancelled.  A call that was made    *)
(* with a timeout ends.  BaseRpc implements this module.                   *)
(***************************************************************************)
CONSTANT Nonce      \* the names of the calls

VARIABLE status     \* status[n] is the stage call n has reached

Waiting  == {"guarded", "unguarded"}      \* guarded: made with a timeout
Outcomes == {"answered", "timedOut", "cancelled"}

Init == status = [n \in Nonce |-> "fresh"]

Make(n) == /\ status[n] = "fresh"
           /\ \E s \in Waiting : status' = [status EXCEPT ![n] = s]

\* A call whose answer is produced while it is still being sent: the node the
\* key is routed to is the caller itself.
MakeAndAnswer(n) == /\ status[n] = "fresh"
                    /\ status' = [status EXCEPT ![n] = "answered"]

Answer(n) == /\ status[n] \in Waiting
             /\ status' = [status EXCEPT ![n] = "answered"]

\* Only a guarded call can time out.
TimeOut(n) == /\ status[n] = "guarded"
              /\ status' = [status EXCEPT ![n] = "timedOut"]

Cancel(N) == /\ \A n \in N : status[n] \in Waiting
             /\ status' = [n \in Nonce |-> IF n \in N THEN "cancelled" ELSE status[n]]

End(n) == Answer(n) \/ TimeOut(n)

Next == \/ \E n \in Nonce : Make(n) \/ MakeAndAnswer(n) \/ End(n)
        \/ \E N \in SUBSET Nonce : Cancel(N)

Safety == Init /\ [][Next]_status

Spec == Safety /\ \A n \in Nonce : WF_status(TimeOut(n))
=============================================================================
