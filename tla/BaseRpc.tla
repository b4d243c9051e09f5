------------------------------- MODULE BaseRpc -------------------------------
(***************************************************************************)
(* The remote procedure calls of one OverSim component                     *)
(* (src/common/BaseRpc.cc): the table rpcStates of the calls it waits for, *)
(* their timers, retransmissions, answers and cancellation, and the        *)
(* callbacks that run while an answer or a timeout is being handled.       *)
(*                                                                         *)
(* The component handles one event at a time (OMNeT++ schedules it), but a *)
(* callback may call sendRpcCall, cancelRpcMessage or cancelAllRpcs while  *)
(* its own call is only half finished, and a call routed to a key this     *)
(* node is itself responsible for is answered before sendRpcCall returns:  *)
(* callbacks nest, which stack records.                                    *)
(*                                                                         *)
(* The network loses, delays and reorders: a message in net may be         *)
(* delivered at any time or never, which also stands for a node that is    *)
(* gone or does not handle the call; a call that is retransmitted can be   *)
(* answered twice.  Nonces are never drawn twice (the code excludes only   *)
(* the nonces in use and draws the others out of 2^31).                    *)
(***************************************************************************)
EXTENDS Naturals, Sequences, Functions

CONSTANTS
    Node,           \* the addresses of other nodes (TransportAddress)
    Key,            \* the overlay keys of nodes
    Nonce,          \* the nonces this component may draw
    NoNode, NoKey,  \* UNSPECIFIED_NODE, UNSPECIFIED_KEY
    MaxRetries,     \* the largest number of retries a caller asks for
    Calls           \* the calls the component makes, a set of CallType

ASSUME NoNodeAssumption  == NoNode \notin Node
ASSUME NoKeyAssumption   == NoKey \notin Key
ASSUME RetriesAssumption == MaxRetries \in Nat

(***************************************************************************)
(* The arguments of sendRpcCall that decide how a call proceeds.  addr and *)
(* key are the destination: a NodeHandle has both, a plain TransportAddress*)
(* no key.  toKey tells that destKey is specified: the call is routed to   *)
(* whichever node is responsible for it (through addr first, if given).    *)
(***************************************************************************)
CallType ==
    [via : {"UDP", "ROUTE", "INTERNAL"}, addr : Node \cup {NoNode},
     key : Key \cup {NoKey}, toKey : BOOLEAN,
     timeout : {"default", "none", "given"}, retries : 0 .. MaxRetries]

\* The combinations the inline functions of BaseRpc.h can produce.
WellFormed(c) ==
    /\ c.addr = NoNode => c.key = NoKey
    /\ c.via = "UDP" => c.addr # NoNode /\ ~c.toKey
    /\ c.via = "ROUTE" => c.addr # NoNode \/ c.toKey
    /\ c.via = "INTERNAL" => c.addr = NoNode /\ ~c.toKey

ASSUME CallsAssumption == /\ Calls \subseteq CallType
                          /\ \A c \in Calls : WellFormed(c)

\* The default timeout of an internal call is 0, and a timeout of 0 means that
\* no timer is started.
Timed(c) == \/ c.timeout = "given"
            \/ c.timeout = "default" /\ c.via # "INTERNAL"

\* Slip: destKey is not looked at.
DirectIfAddressed(c) == c.addr # NoNode

\* The call goes to one node and not to whoever is responsible for a key.
Direct(c) == c.addr # NoNode /\ ~c.toKey

\* A NodeHandle as destination: the answer has to come from that very key.
ChecksKey(c) == ~c.toKey /\ c.key # NoKey
-----------------------------------------------------------------------------
VARIABLES
    rpcStates,  \* the table: nonce -> the call and the retries left
    timers,     \* the nonces whose RpcTimeoutMessage is scheduled
    net,        \* the messages in flight
    nodeKey,    \* the key each node has now (NoKey before it has joined)
    stack,      \* the nonces of the calls whose callbacks are running
    verdict,    \* what the neighbor cache was last told about a node
    \* history, which the code does not keep:
    asked,      \* nonce -> the call made with it, for the nonces used so far
    sent,       \* sent[n] is the number of transmissions of call n
    outcome,    \* outcome[n] is how call n ended
    answeredBy  \* answeredBy[n] is the sender of the answer that ended call n

rpcVars == <<rpcStates, timers, stack>>
history == <<asked, sent, outcome, answeredBy>>
vars    == <<rpcVars, net, nodeKey, verdict, history>>

RpcState == [call : Calls, left : 0 .. MaxRetries]
Sender   == [src : Node \cup {NoNode}, key : Key \cup {NoKey}]
\* copy numbers the transmissions of a call, so that net may be a set.
Request  == [type : {"call"}, nonce : Nonce, copy : 1 .. MaxRetries + 1, call : Calls]
Response == [type : {"answer"}, nonce : Nonce, copy : 1 .. MaxRetries + 1,
             from : Sender, direct : BOOLEAN]
NobodyYet == [src |-> NoNode, key |-> NoKey]

TypeOK ==
    /\ DOMAIN rpcStates \subseteq Nonce
    /\ rpcStates \in [DOMAIN rpcStates -> RpcState]
    /\ timers \subseteq Nonce
    /\ net \subseteq Request \cup Response
    /\ nodeKey \in [Node -> Key \cup {NoKey}]
    /\ stack \in Seq(Nonce)
    /\ verdict \in [Node -> {"unknown", "alive", "timeout"}]
    /\ DOMAIN asked \subseteq Nonce
    /\ asked \in [DOMAIN asked -> Calls]
    /\ sent \in [Nonce -> 0 .. MaxRetries + 1]
    /\ outcome \in [Nonce -> {"none", "answered", "timedOut", "cancelled"}]
    /\ answeredBy \in [Nonce -> Sender]

Init ==
    /\ rpcStates = [n \in {} |-> {}]
    /\ timers = {}
    /\ net = {}
    /\ nodeKey \in [Node -> Key \cup {NoKey}]
    /\ stack = << >>
    /\ verdict = [x \in Node |-> "unknown"]
    /\ asked = [n \in {} |-> {}]
    /\ sent = [n \in Nonce |-> 0]
    /\ outcome = [n \in Nonce |-> "none"]
    /\ answeredBy = [n \in Nonce |-> NobodyYet]

\* rpcStates[nonce] = state and rpcStates.erase(nonce).
With(f, n, s) == [m \in DOMAIN f \cup {n} |-> IF m = n THEN s ELSE f[m]]
Without(f, N) == Restrict(f, DOMAIN f \ N)

Copy(n, c, i) == [type |-> "call", nonce |-> n, copy |-> i, call |-> c]

Idle == stack = << >>      \* no callback is running: the next event may come
Running == Range(stack)
-----------------------------------------------------------------------------
(***************************************************************************)
(* Steps the handlers below share.  Each is preceded by the way it could   *)
(* plausibly be got wrong; the checks show that the properties notice.     *)
(***************************************************************************)
\* Slip: the entry is looked up, not erased.
LookedUp(n) == rpcStates

\* RpcState state = rpcStates[nonce]; rpcStates.erase(nonce).
Taken(n) == Without(rpcStates, {n})

\* Slip: only the message is deleted.
StillScheduled(n) == timers

\* cancelAndDelete(state.timeoutMsg).
Stopped(n) == timers \ {n}

\* Slip: one retry too many.
TriesOnceMore(n) == rpcStates[n].left >= 0

\* state.retries--; if (state.retries >= 0).
TriesAgain(n) == rpcStates[n].left > 0

\* Slip: the caller's retries are ignored.
GivesUpAtOnce(n) == TRUE

GivesUp(n) == rpcStates[n].left = 0

\* Slip: the counted-down copy is not stored.
Uncounted(n) == rpcStates

\* Slip: the entry is not put back.
Forgotten(n) == Without(rpcStates, {n})

\* A retry: the entry is put back with one retry less.
Retried(n) == [rpcStates EXCEPT ![n].left = @ - 1]
-----------------------------------------------------------------------------
(***************************************************************************)
(* The interface: callable at any time, inside callbacks too.              *)
(***************************************************************************)
\* sendRpcCall: register, start the timer, transmit.
SendRpcCall(n, c) ==
    /\ n \notin DOMAIN asked
    /\ rpcStates' = With(rpcStates, n, [call |-> c, left |-> c.retries])
    /\ timers' = IF Timed(c) THEN timers \cup {n} ELSE timers
    /\ net' = net \cup {Copy(n, c, 1)}
    /\ asked' = With(asked, n, c)
    /\ sent' = [sent EXCEPT ![n] = 1]
    /\ UNCHANGED <<nodeKey, stack, verdict, outcome, answeredBy>>

\* sendRpcCall to a key this node is responsible for (recursive routing): the
\* call and its answer are handled before sendRpcCall returns.
SendRpcCallToSelf(n, c) ==
    /\ n \notin DOMAIN asked
    /\ c.toKey
    /\ timers' = IF Timed(c) THEN timers \cup {n} ELSE timers
    /\ stack' = Append(stack, n)
    /\ asked' = With(asked, n, c)
    /\ sent' = [sent EXCEPT ![n] = 1]
    /\ outcome' = [outcome EXCEPT ![n] = "answered"]
    /\ UNCHANGED <<rpcStates, net, nodeKey, verdict, answeredBy>>

\* cancelRpcMessage; for a nonce that is not in the table it returns at once.
CancelRpcMessage(n) ==
    /\ n \in DOMAIN rpcStates
    /\ rpcStates' = Taken(n)
    /\ timers' = Stopped(n)
    /\ outcome' = [outcome EXCEPT ![n] = "cancelled"]
    /\ UNCHANGED <<net, nodeKey, stack, verdict, asked, sent, answeredBy>>

\* cancelAllRpcs, when the component stops or starts over.
CancelAllRpcs ==
    /\ rpcStates' = Without(rpcStates, DOMAIN rpcStates)
    /\ timers' = timers \ DOMAIN rpcStates
    /\ outcome' = [n \in Nonce |-> IF n \in DOMAIN rpcStates THEN "cancelled"
                                                             ELSE outcome[n]]
    /\ UNCHANGED <<net, nodeKey, stack, verdict, asked, sent, answeredBy>>
-----------------------------------------------------------------------------
(***************************************************************************)
(* internalHandleRpcMessage: a timer fires.                                *)
(***************************************************************************)
\* Retries are left: the call is transmitted again and the timer restarted.
Retry(n) ==
    /\ Idle
    /\ n \in timers
    /\ TriesAgain(n)
    /\ rpcStates' = Retried(n)
    /\ sent' = [sent EXCEPT ![n] = @ + 1]
    /\ net' = net \cup {Copy(n, rpcStates[n].call, sent[n] + 1)}
    /\ UNCHANGED <<timers, nodeKey, stack, verdict, asked, outcome, answeredBy>>

\* By now this node is itself responsible for the key: the answer is there
\* before the state is back in the table, so its nonce is unknown and it is lost.
RetryToSelf(n) ==
    /\ Idle
    /\ n \in timers
    /\ TriesAgain(n)
    /\ rpcStates[n].call.toKey
    /\ rpcStates' = Retried(n)
    /\ sent' = [sent EXCEPT ![n] = @ + 1]
    /\ UNCHANGED <<timers, net, nodeKey, stack, verdict, asked, outcome, answeredBy>>

\* The last try has failed: the state leaves the table, the node is reported to
\* the neighbor cache if the call went to one node, and the callbacks run.
TimeOut(n) ==
    /\ Idle
    /\ n \in timers
    /\ GivesUp(n)
    /\ rpcStates' = Taken(n)
    /\ timers' = Stopped(n)
    /\ stack' = Append(stack, n)
    /\ LET c == rpcStates[n].call
       IN  verdict' = IF Direct(c) THEN [verdict EXCEPT ![c.addr] = "timeout"]
                                   ELSE verdict
    /\ outcome' = [outcome EXCEPT ![n] = "timedOut"]
    /\ UNCHANGED <<net, nodeKey, asked, sent, answeredBy>>

(***************************************************************************)
(* internalHandleRpcMessage: an answer arrives.                            *)
(***************************************************************************)
\* Slip: only the nonce is checked.
UnknownNonce(m) == m.nonce \notin DOMAIN rpcStates

\* The answer is not for a call in the table, or comes from the wrong key.
Unexpected(m) ==
    m.nonce \in DOMAIN rpcStates =>
        LET c == rpcStates[m.nonce].call IN ChecksKey(c) /\ m.from.key # c.key

\* Slip: the state is not put back.
DropResponseAndState(m) ==
    /\ Idle
    /\ Unexpected(m)
    /\ net' = net \ {m}
    /\ rpcStates' = Without(rpcStates, {m.nonce})
    /\ UNCHANGED <<timers, stack, nodeKey, verdict, history>>

\* Slip: the timer is cancelled as for an answer that is accepted.
DropResponseAndTimer(m) ==
    /\ Idle
    /\ Unexpected(m)
    /\ net' = net \ {m}
    /\ timers' = timers \ {m.nonce}
    /\ UNCHANGED <<rpcStates, stack, nodeKey, verdict, history>>

\* It is deleted; the state, erased meanwhile, is put back.
DropResponse(m) ==
    /\ Idle
    /\ Unexpected(m)
    /\ net' = net \ {m}
    /\ UNCHANGED <<rpcVars, nodeKey, verdict, history>>

\* It ends the call.  Its timer is only stopped after the callbacks.
HandleRpcResponse(m) ==
    /\ Idle
    /\ ~Unexpected(m)
    /\ rpcStates' = Taken(m.nonce)
    /\ stack' = Append(stack, m.nonce)
    /\ verdict' = IF m.direct /\ m.from.src # NoNode
                  THEN [verdict EXCEPT ![m.from.src] = "alive"] ELSE verdict
    /\ outcome' = [outcome EXCEPT ![m.nonce] = "answered"]
    /\ answeredBy' = [answeredBy EXCEPT ![m.nonce] = m.from]
    /\ net' = net \ {m}
    /\ UNCHANGED <<timers, nodeKey, asked, sent>>

\* The innermost callbacks return: cancelAndDelete(state.timeoutMsg).
CallbackReturns ==
    /\ ~Idle
    /\ timers' = Stopped(stack[Len(stack)])
    /\ stack' = SubSeq(stack, 1, Len(stack) - 1)
    /\ UNCHANGED <<rpcStates, net, nodeKey, verdict, history>>
-----------------------------------------------------------------------------
(***************************************************************************)
(* The other side.                                                         *)
(***************************************************************************)
\* Who may answer a call: the node it was sent to, this node itself for an
\* internal call, anybody for a call that was routed to a key.
Answerers(c) ==
    CASE c.toKey           -> Node \cup {NoNode}
      [] c.addr # NoNode   -> {c.addr}
      [] OTHER             -> {NoNode}

\* sendRpcResponse: the answer carries the key its sender has now.  It counts
\* as one hop (getCallHopCount) when it came by UDP or was not forwarded.
SendRpcResponse(m, x, hop) ==
    /\ x \in Answerers(m.call)
    /\ m.call.via = "UDP" => hop
    /\ m.call.via = "INTERNAL" => ~hop
    /\ net' = (net \ {m}) \cup
               {[type |-> "answer", nonce |-> m.nonce, copy |-> m.copy, direct |-> hop,
                 from |-> [src |-> x, key |-> IF x = NoNode THEN NoKey ELSE nodeKey[x]]]}
    /\ UNCHANGED <<rpcVars, nodeKey, verdict, history>>

\* The node at address x joins (again), under another nodeId.
Rejoin(x, k) ==
    /\ nodeKey[x] # k
    /\ nodeKey' = [nodeKey EXCEPT ![x] = k]
    /\ UNCHANGED <<rpcVars, net, verdict, history>>
-----------------------------------------------------------------------------
Next ==
    \/ \E n \in Nonce, c \in Calls : SendRpcCall(n, c) \/ SendRpcCallToSelf(n, c)
    \/ \E n \in Nonce : CancelRpcMessage(n)
    \/ CancelAllRpcs
    \/ \E n \in Nonce : Retry(n) \/ RetryToSelf(n) \/ TimeOut(n)
    \/ \E m \in net : m.type = "answer" /\ (DropResponse(m) \/ HandleRpcResponse(m))
    \/ CallbackReturns
    \/ \E m \in net, x \in Node \cup {NoNode}, hop \in BOOLEAN :
           m.type = "call" /\ SendRpcResponse(m, x, hop)
    \/ \E x \in Node, k \in Key : Rejoin(x, k)

\* A scheduled timer fires and a callback returns; messages need not arrive.
Fairness == /\ WF_vars(CallbackReturns)
            /\ \A n \in Nonce : WF_vars(Retry(n) \/ RetryToSelf(n) \/ TimeOut(n))

Spec == Init /\ [][Next]_vars /\ Fairness
-----------------------------------------------------------------------------
(***************************************************************************)
(* Correctness.                                                            *)
(***************************************************************************)
\* Every call is accounted for: it is in the table until it has ended, and one
\* that has ended never comes back (the state that is erased before an answer is
\* examined is put back if the answer is dropped, and on a retry).
EveryCallAccountedFor ==
    DOMAIN rpcStates = {n \in DOMAIN asked : outcome[n] = "none"}

\* Outside the callbacks, a timer is scheduled exactly for the calls in the
\* table that have a timeout: no call waits for ever, and no timer fires for a
\* call whose messages have been deleted.
TimersArmed ==
    timers \ Running = {n \in DOMAIN rpcStates : Timed(rpcStates[n].call)}

\* While the callbacks of a call run, the call is not in the table and no other
\* callback of it is running: a callback that cancels calls, its own included,
\* does not delete the messages and the context the handler still uses.
NoReentry ==
    /\ Running \cap DOMAIN rpcStates = {}
    /\ IsInjective(stack)

\* A call is transmitted once more than it has been retried; a timeout is
\* reported only after the caller's number of retries has been used up.
TransmissionsCounted ==
    \A n \in DOMAIN asked :
        /\ n \in DOMAIN rpcStates => sent[n] + rpcStates[n].left = asked[n].retries + 1
        /\ outcome[n] = "timedOut" => sent[n] = asked[n].retries + 1
        /\ sent[n] \in 1 .. asked[n].retries + 1

\* A call to a NodeHandle is never ended by an answer of the node that has the
\* address now but another key.
AnsweredByAddressee ==
    \A n \in DOMAIN asked :
        outcome[n] = "answered" /\ ChecksKey(asked[n])
            => answeredBy[n] = [src |-> asked[n].addr, key |-> asked[n].key]

\* The neighbor cache is told that a node timed out only for a call that was
\* sent to this very node, as often as the caller allowed, and never for one
\* that got lost on its way to a key.
BlameIsEarned ==
    \A x \in Node : verdict[x] = "timeout" =>
        \E n \in DOMAIN asked : /\ outcome[n] = "timedOut"
                                /\ asked[n].addr = x /\ ~asked[n].toKey
                                /\ sent[n] = asked[n].retries + 1

\* What makes the invariants above inductive: the table holds the calls that were
\* made with their own arguments; no call ends, or runs callbacks, before it is made;
\* every message in flight belongs to a call, and the answers to a call that
\* names its destination come from there.
TableIsAsked ==
    \A n \in DOMAIN rpcStates : rpcStates[n].call = asked[n]

EndedWereAsked ==
    /\ Running \subseteq DOMAIN asked
    /\ \A n \in Nonce : outcome[n] # "none" => n \in DOMAIN asked

MessagesBelong ==
    \A m \in net :
        /\ m.nonce \in DOMAIN asked
        /\ m.type = "call" => m.call = asked[m.nonce]
        /\ m.type = "answer" /\ ChecksKey(asked[m.nonce])
              => m.from.src = asked[m.nonce].addr

IInv ==
    /\ TypeOK
    /\ EveryCallAccountedFor
    /\ TimersArmed
    /\ NoReentry
    /\ TransmissionsCounted
    /\ AnsweredByAddressee
    /\ BlameIsEarned
    /\ TableIsAsked
    /\ EndedWereAsked
    /\ MessagesBelong

\* The stage a call has reached, as the component sees it.
Status == [n \in Nonce |->
    IF outcome[n] # "none" THEN outcome[n]
    ELSE IF n \notin DOMAIN rpcStates THEN "fresh"
    ELSE IF Timed(rpcStates[n].call) THEN "guarded" ELSE "unguarded"]

Abstract == INSTANCE RpcCalls WITH status <- Status

\* The detailed protocol implements the simple one: a call ends at most once,
\* a cancelled call never calls back, only a call with a timeout times out.
ImplementsRpcCalls == Abstract!Spec

\* A call with a timeout ends, whatever answers are lost or come from the wrong
\* node (a dropped answer leaves the timer running).
TimedCallsEnd ==
    \A n \in Nonce : (n \in DOMAIN asked /\ Timed(asked[n])) ~> outcome[n] # "none"
=============================================================================
