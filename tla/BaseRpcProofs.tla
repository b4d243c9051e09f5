---------------------------- MODULE BaseRpcProofs ----------------------------
(***************************************************************************)
(* The safety properties of BaseRpc hold for every set of nodes, keys,     *)
(* nonces and calls: IInv is an inductive invariant, and every step is a   *)
(* step of RpcCalls or changes nothing there.                              *)
(***************************************************************************)
EXTENDS BaseRpc, SequenceTheorems, TLAPS

(***************************************************************************)
(* Sequences.                                                              *)
(***************************************************************************)
\* A function that extends another one by one argument.
LEMMA Extension ==
    ASSUME NEW f, NEW g, NEW k,
           DOMAIN f = DOMAIN g \cup {k}, k \notin DOMAIN g,
           \A i \in DOMAIN g : g[i] = f[i]
    PROVE  /\ Range(f) = Range(g) \cup {f[k]}
           /\ IsInjective(f) <=> IsInjective(g) /\ f[k] \notin Range(g)
<1>1. \A x : x \in Range(f) <=> \E i \in DOMAIN f : x = f[i]
  BY DEF Range
<1>2. \A x : x \in Range(g) <=> \E i \in DOMAIN g : x = g[i]
  BY DEF Range
<1>3. \A x : x \in Range(f) <=> x \in Range(g) \cup {f[k]}
  BY <1>1, <1>2
<1>4. IsInjective(f) <=> IsInjective(g) /\ f[k] \notin Range(g)
  BY <1>2 DEF IsInjective
<1> QED
  BY <1>3, <1>4

\* Entering a callback: the nonces of the running callbacks grow by one.
LEMMA Push ==
    ASSUME NEW S, NEW s \in Seq(S), NEW e \in S
    PROVE  /\ Append(s, e) \in Seq(S)
           /\ Range(Append(s, e)) = Range(s) \cup {e}
           /\ IsInjective(s) /\ e \notin Range(s) => IsInjective(Append(s, e))
<1> DEFINE k == Len(s) + 1
           t == Append(s, e)
<1>1. /\ t \in Seq(S)
      /\ DOMAIN t = DOMAIN s \cup {k} /\ k \notin DOMAIN s
      /\ \A i \in DOMAIN s : s[i] = t[i]
      /\ t[k] = e
  BY AppendProperties, LenProperties
<1> HIDE DEF k, t
<1>2. /\ Range(t) = Range(s) \cup {t[k]}
      /\ IsInjective(t) <=> IsInjective(s) /\ t[k] \notin Range(s)
  BY <1>1, Extension
<1> QED
  BY <1>1, <1>2, Zenon DEF t

\* Leaving the innermost callback: its nonce is the only one that goes.
LEMMA Pop ==
    ASSUME NEW S, NEW s \in Seq(S), s # << >>
    PROVE  /\ SubSeq(s, 1, Len(s) - 1) \in Seq(S)
           /\ Range(s) = Range(SubSeq(s, 1, Len(s) - 1)) \cup {s[Len(s)]}
           /\ IsInjective(s) => /\ IsInjective(SubSeq(s, 1, Len(s) - 1))
                                /\ s[Len(s)] \notin Range(SubSeq(s, 1, Len(s) - 1))
<1> DEFINE k == Len(s)
           t == SubSeq(s, 1, k - 1)
<1>1. /\ k \in Nat \ {0}
      /\ DOMAIN s = 1 .. k
      /\ \A i \in 1 .. (k - 1) : s[i] \in S
  BY EmptySeq, LenProperties
<1>2. /\ t \in Seq(S)
      /\ DOMAIN t = 1 .. (k - 1)
      /\ \A i \in 1 .. (k - 1) : t[i] = s[i]
  BY <1>1, SubSeqProperties, LenProperties
<1> HIDE DEF k, t
<1>3. DOMAIN s = DOMAIN t \cup {k} /\ k \notin DOMAIN t
  BY <1>1, <1>2
<1>4. /\ Range(s) = Range(t) \cup {s[k]}
      /\ IsInjective(s) <=> IsInjective(t) /\ s[k] \notin Range(t)
  BY <1>2, <1>3, Extension
<1> QED
  BY <1>2, <1>4, Zenon DEF k, t
-----------------------------------------------------------------------------
(***************************************************************************)
(* The invariant, step by step.                                            *)
(***************************************************************************)
LEMMA CallFacts ==
    ASSUME NEW c \in Calls
    PROVE  /\ c.retries \in 0 .. MaxRetries
           /\ c.addr \in Node \cup {NoNode}
           /\ c.key \in Key \cup {NoKey}
           /\ ChecksKey(c) => c.addr # NoNode /\ ~c.toKey
           /\ Direct(c) => c.addr \in Node
  BY CallsAssumption DEF CallType, WellFormed, ChecksKey, Direct

LEMMA InitInv == Init => IInv
<1> SUFFICES ASSUME Init PROVE IInv
  OBVIOUS
<1> USE DEF Init
<1>1. Range(stack) = {} /\ IsInjective(stack)
  BY DEF Range, IsInjective
<1>2. TypeOK
  BY RetriesAssumption DEF TypeOK, Sender, NobodyYet
<1>3. EveryCallAccountedFor /\ TableIsAsked /\ MessagesBelong
  BY DEF EveryCallAccountedFor, TableIsAsked, MessagesBelong
<1>4. TimersArmed /\ NoReentry /\ EndedWereAsked
  BY <1>1 DEF TimersArmed, NoReentry, EndedWereAsked, Running
<1>5. TransmissionsCounted /\ AnsweredByAddressee /\ BlameIsEarned
  BY DEF TransmissionsCounted, AnsweredByAddressee, BlameIsEarned
<1> QED
  BY <1>2, <1>3, <1>4, <1>5 DEF IInv

\* A step that blames nobody new and leaves the calls that timed out alone.
LEMMA BlameKept ==
    ASSUME IInv,
           \A x \in Node : verdict'[x] = "timeout" => verdict[x] = "timeout",
           \A m \in DOMAIN asked : outcome[m] = "timedOut" =>
               /\ m \in DOMAIN asked'
               /\ outcome'[m] = "timedOut"
               /\ asked'[m] = asked[m]
               /\ sent'[m] = sent[m]
    PROVE  BlameIsEarned'
<1> SUFFICES ASSUME NEW x \in Node, verdict'[x] = "timeout"
             PROVE  \E m \in DOMAIN asked' : /\ outcome'[m] = "timedOut"
                                             /\ asked'[m].addr = x /\ ~asked'[m].toKey
                                             /\ sent'[m] = asked'[m].retries + 1
  BY DEF BlameIsEarned
<1>1. PICK m \in DOMAIN asked : /\ outcome[m] = "timedOut"
                               /\ asked[m].addr = x /\ ~asked[m].toKey
                               /\ sent[m] = asked[m].retries + 1
  BY DEF IInv, BlameIsEarned
<1> QED
  BY <1>1

\* A step that only touches the network and the other nodes.
LEMMA OthersKept ==
    ASSUME IInv, UNCHANGED <<rpcVars, verdict, history>>, TypeOK', MessagesBelong'
    PROVE  IInv'
<1> USE DEF rpcVars, history
<1>1. EveryCallAccountedFor' /\ TimersArmed' /\ NoReentry' /\ TransmissionsCounted'
  BY DEF IInv, EveryCallAccountedFor, TimersArmed, NoReentry, Running, TransmissionsCounted
<1>2. AnsweredByAddressee' /\ BlameIsEarned' /\ TableIsAsked' /\ EndedWereAsked'
  BY DEF IInv, AnsweredByAddressee, BlameIsEarned, TableIsAsked, EndedWereAsked, Running
<1> QED
  BY <1>1, <1>2 DEF IInv

LEMMA SendInv ==
    ASSUME IInv, NEW n \in Nonce, NEW c \in Calls, SendRpcCall(n, c)
    PROVE  IInv'
<1> USE DEF SendRpcCall
<1>1. /\ DOMAIN rpcStates' = DOMAIN rpcStates \cup {n}
      /\ rpcStates'[n] = [call |-> c, left |-> c.retries]
      /\ \A m \in DOMAIN rpcStates : m # n => rpcStates'[m] = rpcStates[m]
      /\ DOMAIN asked' = DOMAIN asked \cup {n}
      /\ asked'[n] = c
      /\ \A m \in DOMAIN asked : m # n => asked'[m] = asked[m]
  BY DEF With
<1>2. n \notin DOMAIN rpcStates /\ n \notin Running
  BY DEF IInv, EveryCallAccountedFor, EndedWereAsked
<1>3. TypeOK'
  <2>1. rpcStates' \in [DOMAIN rpcStates' -> RpcState]
    BY CallFacts DEF IInv, TypeOK, With, RpcState
  <2>2. asked' \in [DOMAIN asked' -> Calls]
    BY DEF IInv, TypeOK, With
  <2>3. net' \subseteq Request \cup Response
    BY RetriesAssumption DEF IInv, TypeOK, Copy, Request
  <2>4. sent' \in [Nonce -> 0 .. MaxRetries + 1] /\ timers' \subseteq Nonce
    BY RetriesAssumption DEF IInv, TypeOK
  <2> QED
    BY <1>1, <2>1, <2>2, <2>3, <2>4 DEF IInv, TypeOK
<1>4. EveryCallAccountedFor'
  BY <1>1 DEF IInv, EveryCallAccountedFor, EndedWereAsked
<1>5. TimersArmed'
  BY <1>1, <1>2 DEF IInv, TimersArmed, Running
<1>6. NoReentry' /\ EndedWereAsked'
  BY <1>1, <1>2 DEF IInv, NoReentry, EndedWereAsked, Running
<1>7. TransmissionsCounted'
  <2>1. /\ sent'[n] = 1 /\ outcome'[n] = "none"
        /\ c.retries \in Nat
        /\ \A m \in DOMAIN asked : m # n => sent'[m] = sent[m]
    BY CallFacts, RetriesAssumption DEF IInv, TypeOK, EndedWereAsked
  <2> QED
    BY <1>1, <1>2, <2>1 DEF IInv, TransmissionsCounted
<1>8. AnsweredByAddressee'
  BY <1>1 DEF IInv, AnsweredByAddressee, EndedWereAsked
<1>9. BlameIsEarned'
  BY <1>1, BlameKept DEF IInv, TypeOK
<1>10. TableIsAsked'
  BY <1>1, <1>2 DEF IInv, TableIsAsked, EveryCallAccountedFor
<1>11. MessagesBelong'
  BY <1>1 DEF IInv, MessagesBelong, Copy
<1> QED
  BY <1>3, <1>4, <1>5, <1>6, <1>7, <1>8, <1>9, <1>10, <1>11 DEF IInv

LEMMA SendToSelfInv ==
    ASSUME IInv, NEW n \in Nonce, NEW c \in Calls, SendRpcCallToSelf(n, c)
    PROVE  IInv'
<1> USE DEF SendRpcCallToSelf
<1>1. /\ DOMAIN asked' = DOMAIN asked \cup {n}
      /\ asked'[n] = c
      /\ \A m \in DOMAIN asked : m # n => asked'[m] = asked[m]
  BY DEF With
<1>2. n \notin DOMAIN rpcStates /\ n \notin Running
  BY DEF IInv, EveryCallAccountedFor, EndedWereAsked
<1>3. /\ stack' \in Seq(Nonce)
      /\ Running' = Running \cup {n}
      /\ IsInjective(stack')
  BY <1>2, Push DEF IInv, TypeOK, Running, NoReentry
<1>4. /\ sent'[n] = 1 /\ outcome'[n] = "answered"
      /\ c.retries \in Nat /\ ~ChecksKey(c)
      /\ \A m \in DOMAIN asked : m # n => sent'[m] = sent[m] /\ outcome'[m] = outcome[m]
  BY CallFacts, RetriesAssumption DEF IInv, TypeOK
<1>5. TypeOK'
  <2>1. asked' \in [DOMAIN asked' -> Calls]
    BY DEF IInv, TypeOK, With
  <2>2. sent' \in [Nonce -> 0 .. MaxRetries + 1] /\ timers' \subseteq Nonce
    BY RetriesAssumption DEF IInv, TypeOK
  <2> QED
    BY <1>1, <1>3, <2>1, <2>2 DEF IInv, TypeOK
<1>6. EveryCallAccountedFor'
  BY <1>1, <1>2, <1>4 DEF IInv, EveryCallAccountedFor
<1>7. TimersArmed'
  BY <1>2, <1>3 DEF IInv, TimersArmed
<1>8. NoReentry' /\ EndedWereAsked'
  BY <1>1, <1>2, <1>3 DEF IInv, NoReentry, EndedWereAsked, TypeOK
<1>9. TransmissionsCounted'
  BY <1>1, <1>2, <1>4 DEF IInv, TransmissionsCounted
<1>10. AnsweredByAddressee'
  BY <1>1, <1>4 DEF IInv, AnsweredByAddressee
<1>11. BlameIsEarned'
  BY <1>1, <1>4, BlameKept
<1>12. TableIsAsked' /\ MessagesBelong'
  BY <1>1, <1>2 DEF IInv, TableIsAsked, EveryCallAccountedFor, MessagesBelong
<1> QED
  BY <1>5, <1>6, <1>7, <1>8, <1>9, <1>10, <1>11, <1>12 DEF IInv

\* Cancelling some of the calls in the table.
LEMMA CancelledInv ==
    ASSUME IInv, NEW N \in SUBSET DOMAIN rpcStates,
           rpcStates' = Without(rpcStates, N),
           timers' = timers \ N,
           outcome' = [n \in Nonce |-> IF n \in N THEN "cancelled" ELSE outcome[n]],
           UNCHANGED <<net, nodeKey, stack, verdict, asked, sent, answeredBy>>
    PROVE  IInv'
<1>1. /\ DOMAIN rpcStates' = DOMAIN rpcStates \ N
      /\ \A m \in DOMAIN rpcStates' : rpcStates'[m] = rpcStates[m]
  BY DEF Without, Restrict
<1>2. N \subseteq DOMAIN asked /\ N \cap Running = {} /\ DOMAIN asked \subseteq Nonce
  BY DEF IInv, EveryCallAccountedFor, NoReentry, TypeOK
<1>3. TypeOK'
  <2>1. rpcStates' \in [DOMAIN rpcStates' -> RpcState]
    BY DEF IInv, TypeOK, Without, Restrict
  <2> QED
    BY <1>1, <2>1 DEF IInv, TypeOK
<1>4. EveryCallAccountedFor'
  BY <1>1, <1>2 DEF IInv, EveryCallAccountedFor
<1>5. TimersArmed'
  BY <1>1, <1>2 DEF IInv, TimersArmed, Running
<1>6. NoReentry' /\ EndedWereAsked'
  BY <1>1, <1>2 DEF IInv, NoReentry, EndedWereAsked, Running
<1>7. TransmissionsCounted' /\ AnsweredByAddressee' /\ TableIsAsked'
  BY <1>1, <1>2 DEF IInv, TransmissionsCounted, AnsweredByAddressee, TableIsAsked
<1>8. BlameIsEarned'
  <2>1. \A m \in DOMAIN asked : outcome[m] = "timedOut" => m \notin N
    BY DEF IInv, EveryCallAccountedFor
  <2> QED
    BY <1>2, <2>1, BlameKept
<1>9. MessagesBelong'
  BY DEF IInv, MessagesBelong
<1> QED
  BY <1>3, <1>4, <1>5, <1>6, <1>7, <1>8, <1>9 DEF IInv

LEMMA CancelInv ==
    ASSUME IInv, NEW n \in Nonce, CancelRpcMessage(n)
    PROVE  IInv'
<1>1. outcome' = [m \in Nonce |-> IF m \in {n} THEN "cancelled" ELSE outcome[m]]
  BY DEF IInv, TypeOK, CancelRpcMessage
<1> QED
  BY <1>1, CancelledInv DEF CancelRpcMessage, Taken, Stopped

LEMMA CancelAllInv ==
    ASSUME IInv, CancelAllRpcs
    PROVE  IInv'
  BY CancelledInv DEF CancelAllRpcs

\* When the timer of n fires, n is in the table: TimersArmed.
LEMMA FiredIsPending ==
    ASSUME IInv, NEW n \in timers, Idle
    PROVE  /\ n \in DOMAIN rpcStates /\ n \in DOMAIN asked /\ n \in Nonce
           /\ outcome[n] = "none"
           /\ Timed(rpcStates[n].call)
           /\ rpcStates[n].call = asked[n]
           /\ Running = {}
<1>1. Running = {}
  BY DEF Idle, Running, Range
<1> QED
  BY <1>1 DEF IInv, TimersArmed, EveryCallAccountedFor, TableIsAsked, TypeOK

LEMMA RetryInv ==
    ASSUME IInv, NEW n \in Nonce, Retry(n) \/ RetryToSelf(n)
    PROVE  IInv'
<1>1. /\ Idle /\ n \in timers /\ TriesAgain(n)
      /\ rpcStates' = Retried(n)
      /\ sent' = [sent EXCEPT ![n] = @ + 1]
      /\ net' \subseteq net \cup {Copy(n, rpcStates[n].call, sent[n] + 1)}
      /\ UNCHANGED <<timers, nodeKey, stack, verdict, asked, outcome, answeredBy>>
  BY DEF Retry, RetryToSelf
<1>2. /\ n \in DOMAIN rpcStates /\ n \in DOMAIN asked
      /\ outcome[n] = "none" /\ rpcStates[n].call = asked[n]
  BY <1>1, FiredIsPending
<1> DEFINE c == asked[n]  l == rpcStates[n].left
<1>3. /\ c \in Calls /\ c.retries \in 0 .. MaxRetries
      /\ l \in 1 .. MaxRetries
      /\ rpcStates[n] \in RpcState
      /\ sent[n] \in Nat /\ sent[n] + l = c.retries + 1
  BY <1>1, <1>2, CallFacts, RetriesAssumption
     DEF IInv, TypeOK, RpcState, TriesAgain, TransmissionsCounted
<1>4. /\ DOMAIN rpcStates' = DOMAIN rpcStates
      /\ rpcStates'[n] = [call |-> c, left |-> l - 1]
      /\ \A m \in DOMAIN rpcStates : m # n => rpcStates'[m] = rpcStates[m]
      /\ \A m \in DOMAIN rpcStates : rpcStates'[m].call = rpcStates[m].call
  BY <1>1, <1>2, <1>3 DEF Retried, RpcState
<1>5. /\ sent'[n] = sent[n] + 1
      /\ \A m \in Nonce : m # n => sent'[m] = sent[m]
  BY <1>1 DEF IInv, TypeOK
<1>6. sent[n] + 1 \in 1 .. MaxRetries + 1 /\ l - 1 \in 0 .. MaxRetries
  BY <1>3, RetriesAssumption
<1>7. TypeOK'
  <2>1. rpcStates' \in [DOMAIN rpcStates' -> RpcState]
    BY <1>1, <1>3, <1>4, <1>6 DEF IInv, TypeOK, RpcState, Retried
  <2>2. sent' \in [Nonce -> 0 .. MaxRetries + 1]
    BY <1>1, <1>6, RetriesAssumption DEF IInv, TypeOK
  <2>3. net' \subseteq Request \cup Response
    BY <1>1, <1>2, <1>3, <1>6 DEF IInv, TypeOK, Copy, Request
  <2> QED
    BY <1>1, <1>4, <2>1, <2>2, <2>3 DEF IInv, TypeOK
<1>8. EveryCallAccountedFor' /\ TableIsAsked'
  BY <1>1, <1>2, <1>4 DEF IInv, EveryCallAccountedFor, TableIsAsked
<1>9. TimersArmed' /\ NoReentry' /\ EndedWereAsked'
  BY <1>1, <1>4 DEF IInv, TimersArmed, NoReentry, EndedWereAsked, Running
<1>10. TransmissionsCounted'
  <2>1. DOMAIN asked \subseteq Nonce
    BY DEF IInv, TypeOK
  <2>2. /\ sent'[n] + rpcStates'[n].left = asked'[n].retries + 1
        /\ sent'[n] \in 1 .. asked'[n].retries + 1
        /\ outcome'[n] = "none"
    BY <1>1, <1>2, <1>3, <1>4, <1>5
  <2> QED
    BY <1>1, <1>4, <1>5, <2>1, <2>2 DEF IInv, TransmissionsCounted
<1>11. AnsweredByAddressee'
  BY <1>1 DEF IInv, AnsweredByAddressee
<1>12. BlameIsEarned'
  BY <1>1, <1>2, <1>5, BlameKept DEF IInv, TypeOK
<1>13. MessagesBelong'
  BY <1>1, <1>2 DEF IInv, MessagesBelong, Copy
<1> QED
  BY <1>7, <1>8, <1>9, <1>10, <1>11, <1>12, <1>13 DEF IInv

LEMMA TimeOutInv ==
    ASSUME IInv, NEW n \in Nonce, TimeOut(n)
    PROVE  IInv'
<1> USE DEF TimeOut
<1>1. /\ n \in DOMAIN rpcStates /\ n \in DOMAIN asked
      /\ outcome[n] = "none" /\ rpcStates[n].call = asked[n]
      /\ Timed(asked[n]) /\ Running = {}
  BY FiredIsPending
<1> DEFINE c == asked[n]
<1>2. /\ c \in Calls /\ c.retries \in Nat
      /\ sent[n] = c.retries + 1
      /\ Direct(c) => c.addr \in Node
  BY <1>1, CallFacts, RetriesAssumption DEF IInv, TypeOK, TransmissionsCounted, GivesUp
<1>3. /\ DOMAIN rpcStates' = DOMAIN rpcStates \ {n}
      /\ \A m \in DOMAIN rpcStates' : rpcStates'[m] = rpcStates[m]
      /\ timers' = timers \ {n}
  BY DEF Taken, Stopped, Without, Restrict
<1>4. /\ stack' \in Seq(Nonce)
      /\ Running' = {n}
      /\ IsInjective(stack')
  BY <1>1, Push DEF IInv, TypeOK, Running, NoReentry
<1>5. /\ outcome'[n] = "timedOut"
      /\ \A m \in Nonce : m # n => outcome'[m] = outcome[m]
  BY DEF IInv, TypeOK
<1>6. TypeOK'
  <2>1. rpcStates' \in [DOMAIN rpcStates' -> RpcState]
    BY <1>3 DEF IInv, TypeOK, Taken, Without, Restrict
  <2>2. verdict' \in [Node -> {"unknown", "alive", "timeout"}]
    BY <1>1, <1>2 DEF IInv, TypeOK
  <2> QED
    BY <1>3, <1>4, <2>1, <2>2 DEF IInv, TypeOK
<1>7. EveryCallAccountedFor' /\ TableIsAsked'
  BY <1>1, <1>3, <1>5 DEF IInv, EveryCallAccountedFor, TableIsAsked, TypeOK
<1>8. TimersArmed'
  BY <1>1, <1>3, <1>4 DEF IInv, TimersArmed
<1>9. NoReentry' /\ EndedWereAsked'
  BY <1>1, <1>3, <1>4, <1>5 DEF IInv, NoReentry, EndedWereAsked
<1>10. TransmissionsCounted' /\ AnsweredByAddressee'
  BY <1>1, <1>2, <1>3, <1>5 DEF IInv, TransmissionsCounted, AnsweredByAddressee, TypeOK
<1>11. BlameIsEarned'
  <2>1. CASE ~Direct(c)
    BY <1>1, <1>5, <2>1, BlameKept DEF IInv, TypeOK
  <2>2. CASE Direct(c)
    <3>1. verdict' = [verdict EXCEPT ![c.addr] = "timeout"]
      BY <1>1, <2>2
    <3> SUFFICES ASSUME NEW x \in Node, verdict'[x] = "timeout"
                 PROVE  \E m \in DOMAIN asked : /\ outcome'[m] = "timedOut"
                                                /\ asked[m].addr = x /\ ~asked[m].toKey
                                                /\ sent[m] = asked[m].retries + 1
      BY DEF BlameIsEarned
    <3>2. CASE x = c.addr
      BY <1>1, <1>2, <1>5, <2>2, <3>2 DEF Direct
    <3>3. CASE x # c.addr
      <4>1. verdict[x] = "timeout"
        BY <3>1, <3>3 DEF IInv, TypeOK
      <4>2. PICK m \in DOMAIN asked : /\ outcome[m] = "timedOut"
                                     /\ asked[m].addr = x /\ ~asked[m].toKey
                                     /\ sent[m] = asked[m].retries + 1
        BY <4>1 DEF IInv, BlameIsEarned
      <4> QED
        BY <1>1, <1>5, <4>2 DEF IInv, TypeOK
    <3> QED
      BY <3>2, <3>3
  <2> QED
    BY <2>1, <2>2
<1>12. MessagesBelong'
  BY DEF IInv, MessagesBelong
<1> QED
  BY <1>6, <1>7, <1>8, <1>9, <1>10, <1>11, <1>12 DEF IInv

LEMMA ResponseInv ==
    ASSUME IInv, NEW m \in net, m.type = "answer", HandleRpcResponse(m)
    PROVE  IInv'
<1> USE DEF HandleRpcResponse
<1> DEFINE n == m.nonce
<1>1. m \in Response
  BY DEF IInv, TypeOK, Request
<1>2. /\ n \in DOMAIN rpcStates /\ n \in DOMAIN asked /\ n \in Nonce
      /\ outcome[n] = "none" /\ rpcStates[n].call = asked[n]
      /\ Running = {} /\ asked[n] \in Calls
      /\ m.from \in Sender
  BY <1>1 DEF IInv, TypeOK, EveryCallAccountedFor, TableIsAsked, Unexpected, Idle,
              Running, Range, Response
<1>3. ChecksKey(asked[n]) => m.from = [src |-> asked[n].addr, key |-> asked[n].key]
  BY <1>2 DEF IInv, MessagesBelong, Unexpected, Sender
<1>4. /\ DOMAIN rpcStates' = DOMAIN rpcStates \ {n}
      /\ \A k \in DOMAIN rpcStates' : rpcStates'[k] = rpcStates[k]
  BY DEF Taken, Without, Restrict
<1>5. /\ stack' \in Seq(Nonce)
      /\ Running' = {n}
      /\ IsInjective(stack')
  BY <1>2, Push DEF IInv, TypeOK, Running, NoReentry
<1>6. /\ outcome'[n] = "answered" /\ answeredBy'[n] = m.from
      /\ \A k \in Nonce : k # n => outcome'[k] = outcome[k] /\ answeredBy'[k] = answeredBy[k]
  BY <1>2 DEF IInv, TypeOK
<1>7. TypeOK'
  <2>1. rpcStates' \in [DOMAIN rpcStates' -> RpcState]
    BY <1>4 DEF IInv, TypeOK, Taken, Without, Restrict
  <2>2. verdict' \in [Node -> {"unknown", "alive", "timeout"}]
    BY <1>2 DEF IInv, TypeOK, Sender
  <2>3. answeredBy' \in [Nonce -> Sender]
    BY <1>2 DEF IInv, TypeOK
  <2> QED
    BY <1>4, <1>5, <2>1, <2>2, <2>3 DEF IInv, TypeOK
<1>8. EveryCallAccountedFor' /\ TableIsAsked'
  BY <1>2, <1>4, <1>6 DEF IInv, EveryCallAccountedFor, TableIsAsked, TypeOK
<1>9. TimersArmed'
  BY <1>2, <1>4, <1>5 DEF IInv, TimersArmed
<1>10. NoReentry' /\ EndedWereAsked'
  BY <1>2, <1>4, <1>5, <1>6 DEF IInv, NoReentry, EndedWereAsked
<1>11. TransmissionsCounted'
  BY <1>2, <1>4, <1>6 DEF IInv, TransmissionsCounted, TypeOK
<1>12. AnsweredByAddressee'
  BY <1>2, <1>3, <1>6 DEF IInv, AnsweredByAddressee, TypeOK
<1>13. BlameIsEarned'
  BY <1>2, <1>6, BlameKept DEF IInv, TypeOK
<1>14. MessagesBelong'
  BY DEF IInv, MessagesBelong
<1> QED
  BY <1>7, <1>8, <1>9, <1>10, <1>11, <1>12, <1>13, <1>14 DEF IInv

LEMMA ReturnInv ==
    ASSUME IInv, CallbackReturns
    PROVE  IInv'
<1> USE DEF CallbackReturns, history
<1> DEFINE n == stack[Len(stack)]
<1>1. /\ stack' \in Seq(Nonce)
      /\ Running = Running' \cup {n} /\ n \notin Running'
      /\ IsInjective(stack')
  BY Pop DEF IInv, TypeOK, Idle, Running, NoReentry
<1>2. timers' = timers \ {n} /\ n \notin DOMAIN rpcStates
  BY <1>1 DEF IInv, NoReentry, Stopped
<1>3. TypeOK'
  BY <1>1, <1>2 DEF IInv, TypeOK
<1>4. TimersArmed'
  BY <1>1, <1>2 DEF IInv, TimersArmed
<1>5. NoReentry' /\ EndedWereAsked'
  BY <1>1 DEF IInv, NoReentry, EndedWereAsked
<1>6. EveryCallAccountedFor' /\ TransmissionsCounted' /\ AnsweredByAddressee'
  BY DEF IInv, EveryCallAccountedFor, TransmissionsCounted, AnsweredByAddressee
<1>7. BlameIsEarned' /\ TableIsAsked' /\ MessagesBelong'
  BY DEF IInv, BlameIsEarned, TableIsAsked, MessagesBelong
<1> QED
  BY <1>3, <1>4, <1>5, <1>6, <1>7 DEF IInv

LEMMA DropInv ==
    ASSUME IInv, NEW m \in net, DropResponse(m)
    PROVE  IInv'
<1>1. TypeOK' /\ MessagesBelong'
  BY DEF IInv, TypeOK, MessagesBelong, DropResponse, rpcVars, history
<1> QED
  BY <1>1, OthersKept DEF DropResponse

\* The answer of a call that names its destination comes from there.
LEMMA SendResponseInv ==
    ASSUME IInv, NEW m \in net, m.type = "call",
           NEW x \in Node \cup {NoNode}, NEW hop \in BOOLEAN,
           SendRpcResponse(m, x, hop)
    PROVE  IInv'
<1> DEFINE k == IF x = NoNode THEN NoKey ELSE nodeKey[x]
           r == [type |-> "answer", nonce |-> m.nonce, copy |-> m.copy, direct |-> hop,
                 from |-> [src |-> x, key |-> k]]
<1>1. /\ net' = (net \ {m}) \cup {r}
      /\ UNCHANGED <<rpcVars, nodeKey, verdict, history>>
  BY DEF SendRpcResponse
<1>2. m \in Request /\ k \in Key \cup {NoKey}
  BY DEF IInv, TypeOK, Response
<1>3. r \in Response
  BY <1>2 DEF Request, Response, Sender
<1>4. TypeOK'
  BY <1>1, <1>3 DEF IInv, TypeOK, rpcVars, history
<1>5. ChecksKey(m.call) => x = m.call.addr
  BY <1>2, CallFacts DEF SendRpcResponse, Answerers, ChecksKey, Request
<1>6. m.nonce \in DOMAIN asked /\ m.call = asked[m.nonce]
  BY DEF IInv, MessagesBelong
<1>7. MessagesBelong'
  BY <1>1, <1>5, <1>6 DEF IInv, MessagesBelong, history
<1> QED
  BY <1>1, <1>4, <1>7, OthersKept

LEMMA RejoinInv ==
    ASSUME IInv, NEW x \in Node, NEW k \in Key, Rejoin(x, k)
    PROVE  IInv'
<1>1. TypeOK' /\ MessagesBelong'
  BY DEF IInv, TypeOK, MessagesBelong, Rejoin, rpcVars, history
<1> QED
  BY <1>1, OthersKept DEF Rejoin

LEMMA NextInv ==
    ASSUME IInv, [Next]_vars
    PROVE  IInv'
<1>1. CASE UNCHANGED vars
  <2>1. TypeOK' /\ MessagesBelong'
    BY <1>1 DEF IInv, TypeOK, MessagesBelong, vars, rpcVars, history
  <2> QED
    BY <1>1, <2>1, OthersKept DEF vars
<1>2. CASE Next
  BY <1>2, SendInv, SendToSelfInv, CancelInv, CancelAllInv, RetryInv, TimeOutInv, DropInv,
     ResponseInv, ReturnInv, SendResponseInv, RejoinInv DEF Next
<1> QED
  BY <1>1, <1>2
-----------------------------------------------------------------------------
(***************************************************************************)
(* The theorems.                                                           *)
(***************************************************************************)
\* IInv holds in every reachable state.
THEOREM Invariance == Spec => []IInv
<1>1. Init => IInv
  BY InitInv
<1>2. IInv /\ [Next]_vars => IInv'
  BY NextInv
<1> QED
  BY <1>1, <1>2, PTL DEF Spec

\* The variables keep their types: retries never go below zero, and no call is
\* transmitted more often than the largest number of retries allows.
THEOREM TypeCorrect == Spec => []TypeOK
<1>1. IInv => TypeOK
  BY DEF IInv
<1> QED
  BY <1>1, Invariance, PTL

\* No call is lost from rpcStates before it has ended, and none returns after.
THEOREM Accounted == Spec => []EveryCallAccountedFor
<1>1. IInv => EveryCallAccountedFor
  BY DEF IInv
<1> QED
  BY <1>1, Invariance, PTL

\* A timer runs exactly for the calls in rpcStates that have a timeout.
THEOREM Timers == Spec => []TimersArmed
<1>1. IInv => TimersArmed
  BY DEF IInv
<1> QED
  BY <1>1, Invariance, PTL

\* The callbacks of a call run once, and never while it can be cancelled.
THEOREM CallbacksOnce == Spec => []NoReentry
<1>1. IInv => NoReentry
  BY DEF IInv
<1> QED
  BY <1>1, Invariance, PTL

\* A timeout is reported after exactly as many transmissions as were asked for.
THEOREM Transmissions == Spec => []TransmissionsCounted
<1>1. IInv => TransmissionsCounted
  BY DEF IInv
<1> QED
  BY <1>1, Invariance, PTL

\* A call to a NodeHandle is answered by that address with that key, or not.
THEOREM Authentic == Spec => []AnsweredByAddressee
<1>1. IInv => AnsweredByAddressee
  BY DEF IInv
<1> QED
  BY <1>1, Invariance, PTL

\* The neighbor cache is told of no timeout that the node did not cause.
THEOREM FairBlame == Spec => []BlameIsEarned
<1>1. IInv => BlameIsEarned
  BY DEF IInv
<1> QED
  BY <1>1, Invariance, PTL

-----------------------------------------------------------------------------
(***************************************************************************)
(* BaseRpc implements the safety part of RpcCalls.                         *)
(***************************************************************************)
\* A step that changes the stage of one call only.
LEMMA OneStage ==
    ASSUME NEW n \in Nonce, NEW v,
           Status'[n] = v,
           \A m \in Nonce : m # n => Status'[m] = Status[m]
    PROVE  Status' = [Status EXCEPT ![n] = v]
  BY DEF Status

LEMMA NoStage ==
    ASSUME \A m \in Nonce : Status'[m] = Status[m]
    PROVE  Status' = Status
  BY DEF Status

\* What the stage of a call says about the table, given the invariant.
LEMMA Stages ==
    ASSUME IInv, NEW n \in Nonce
    PROVE  /\ n \notin DOMAIN asked => Status[n] = "fresh"
           /\ n \in DOMAIN rpcStates => Status[n] = IF Timed(rpcStates[n].call)
                                                  THEN "guarded" ELSE "unguarded"
           /\ outcome[n] # "none" => Status[n] = outcome[n]
  BY DEF IInv, EveryCallAccountedFor, EndedWereAsked, Status

LEMMA InitRefines == Init => Abstract!Init
  BY DEF Init, Abstract!Init, Status

LEMMA StepRefines ==
    ASSUME IInv, IInv', [Next]_vars
    PROVE  [Abstract!Next]_Status
<1> USE DEF Abstract!Next
<1>1. ASSUME NEW n \in Nonce, NEW c \in Calls, SendRpcCall(n, c)
      PROVE  Abstract!Next
  <2>1. /\ Status[n] = "fresh" /\ outcome'[n] = "none"
        /\ DOMAIN rpcStates' = DOMAIN rpcStates \cup {n}
        /\ \A m \in DOMAIN rpcStates : m # n => rpcStates'[m] = rpcStates[m]
    BY <1>1, Stages DEF SendRpcCall, With, IInv, EndedWereAsked
  <2>2. \A m \in Nonce : m # n => Status'[m] = Status[m]
    BY <1>1, <2>1 DEF SendRpcCall, Status
  <2>3. Status'[n] \in {"guarded", "unguarded"}
    BY <2>1 DEF Status
  <2> QED
    BY <2>1, <2>2, <2>3, OneStage DEF Abstract!Make, Abstract!Waiting
<1>2. ASSUME NEW n \in Nonce, NEW c \in Calls, SendRpcCallToSelf(n, c)
      PROVE  Abstract!Next
  <2>1. /\ Status[n] = "fresh" /\ outcome'[n] = "answered"
        /\ \A m \in Nonce : m # n => outcome'[m] = outcome[m]
    BY <1>2, Stages DEF SendRpcCallToSelf, IInv, TypeOK
  <2>2. \A m \in Nonce : m # n => Status'[m] = Status[m]
    BY <1>2, <2>1 DEF SendRpcCallToSelf, Status
  <2>3. Status'[n] = "answered"
    BY <2>1 DEF Status
  <2> QED
    BY <2>1, <2>2, <2>3, OneStage DEF Abstract!MakeAndAnswer
<1>3. ASSUME NEW N \in SUBSET DOMAIN rpcStates,
             rpcStates' = Without(rpcStates, N),
             outcome' = [n \in Nonce |-> IF n \in N THEN "cancelled" ELSE outcome[n]]
      PROVE  Abstract!Next
  <2>1. /\ DOMAIN rpcStates' = DOMAIN rpcStates \ N
        /\ \A m \in DOMAIN rpcStates' : rpcStates'[m] = rpcStates[m]
        /\ N \subseteq Nonce
    BY <1>3 DEF Without, Restrict, IInv, TypeOK
  <2>2. \A n \in N : Status[n] \in {"guarded", "unguarded"}
    BY <2>1, Stages
  <2>3. Status' = [n \in Nonce |-> IF n \in N THEN "cancelled" ELSE Status[n]]
    BY <1>3, <2>1 DEF Status
  <2> QED
    BY <2>1, <2>2, <2>3 DEF Abstract!Cancel, Abstract!Waiting
<1>4. ASSUME NEW n \in Nonce, CancelRpcMessage(n)
      PROVE  Abstract!Next
  <2>1. outcome' = [m \in Nonce |-> IF m \in {n} THEN "cancelled" ELSE outcome[m]]
    BY <1>4 DEF IInv, TypeOK, CancelRpcMessage
  <2> QED
    BY <1>3, <1>4, <2>1 DEF CancelRpcMessage, Taken
<1>5. ASSUME CancelAllRpcs
      PROVE  Abstract!Next
  BY <1>3, <1>5 DEF CancelAllRpcs
<1>6. ASSUME NEW n \in Nonce, Retry(n) \/ RetryToSelf(n)
      PROVE  Status' = Status
  <2>1. /\ DOMAIN rpcStates' = DOMAIN rpcStates
        /\ \A m \in DOMAIN rpcStates : rpcStates'[m].call = rpcStates[m].call
        /\ outcome' = outcome
    <3>1. n \in DOMAIN rpcStates /\ rpcStates[n] \in RpcState
      BY <1>6, FiredIsPending DEF Retry, RetryToSelf, IInv, TypeOK
    <3> QED
      BY <1>6, <3>1 DEF Retry, RetryToSelf, Retried, RpcState
  <2> QED
    BY <2>1 DEF Status
<1>7. ASSUME NEW n \in Nonce, TimeOut(n)
      PROVE  Abstract!Next
  <2>1. /\ n \in DOMAIN rpcStates /\ Timed(rpcStates[n].call)
        /\ DOMAIN rpcStates' = DOMAIN rpcStates \ {n}
        /\ \A m \in DOMAIN rpcStates' : rpcStates'[m] = rpcStates[m]
        /\ outcome'[n] = "timedOut"
        /\ \A m \in Nonce : m # n => outcome'[m] = outcome[m]
    BY <1>7, FiredIsPending DEF TimeOut, Taken, Without, Restrict, IInv, TypeOK
  <2>2. Status[n] = "guarded" /\ Status'[n] = "timedOut"
    BY <2>1, Stages DEF Status
  <2>3. \A m \in Nonce : m # n => Status'[m] = Status[m]
    BY <2>1 DEF Status
  <2> QED
    BY <2>2, <2>3, OneStage DEF Abstract!End, Abstract!TimeOut
<1>8. ASSUME NEW m \in net, m.type = "answer", HandleRpcResponse(m)
      PROVE  Abstract!Next
  <2> DEFINE n == m.nonce
  <2>1. n \in Nonce /\ n \in DOMAIN rpcStates
    BY <1>8 DEF HandleRpcResponse, Unexpected, IInv, TypeOK
  <2>2. /\ DOMAIN rpcStates' = DOMAIN rpcStates \ {n}
        /\ \A k \in DOMAIN rpcStates' : rpcStates'[k] = rpcStates[k]
        /\ outcome'[n] = "answered"
        /\ \A k \in Nonce : k # n => outcome'[k] = outcome[k]
    BY <1>8, <2>1 DEF HandleRpcResponse, Taken, Without, Restrict, IInv, TypeOK
  <2>3. Status[n] \in {"guarded", "unguarded"} /\ Status'[n] = "answered"
    BY <2>1, <2>2, Stages DEF Status
  <2>4. \A k \in Nonce : k # n => Status'[k] = Status[k]
    BY <2>2 DEF Status
  <2> QED
    BY <2>1, <2>3, <2>4, OneStage DEF Abstract!End, Abstract!Answer, Abstract!Waiting
<1>9. ASSUME rpcStates' = rpcStates, outcome' = outcome
      PROVE  Status' = Status
  BY <1>9 DEF Status
<1>10. CASE UNCHANGED vars
  BY <1>9, <1>10 DEF vars, rpcVars, history
<1>11. CASE Next
  <2>1. ASSUME CallbackReturns PROVE Status' = Status
    BY <1>9, <2>1 DEF CallbackReturns, history
  <2>2. ASSUME NEW m \in net, DropResponse(m) PROVE Status' = Status
    BY <1>9, <2>2 DEF DropResponse, rpcVars, history
  <2>3. ASSUME NEW m \in net, NEW x, NEW hop, SendRpcResponse(m, x, hop) PROVE Status' = Status
    BY <1>9, <2>3 DEF SendRpcResponse, rpcVars, history
  <2>4. ASSUME NEW x, NEW k, Rejoin(x, k) PROVE Status' = Status
    BY <1>9, <2>4 DEF Rejoin, rpcVars, history
  <2> QED
    BY <1>1, <1>2, <1>4, <1>5, <1>6, <1>7, <1>8, <1>11, <2>1, <2>2, <2>3, <2>4 DEF Next
<1> QED
  BY <1>10, <1>11

\* Every behaviour of BaseRpc is one of RpcCalls: a call ends at most once, never
\* after it was cancelled, and times out only if it has a timeout.
THEOREM Refinement == Spec => Abstract!Safety
<1>1. Init => Abstract!Init
  BY InitRefines
<1>2. IInv /\ IInv' /\ [Next]_vars => [Abstract!Next]_Status
  BY StepRefines
<1> QED
  BY <1>1, <1>2, Invariance, PTL DEF Spec, Abstract!Safety
=============================================================================
