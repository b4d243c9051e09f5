\* The protocol implements RpcCalls, and calls with a timeout end.
CONSTANTS
    a = a
    b = b
    k1 = k1
    k2 = k2
    Node = {a}
    Key = {k1}
    Nonce = {n1, n2}
    NoNode = NoNode
    NoKey = NoKey
    MaxRetries = 1
    Calls <- MixedCalls
SPECIFICATION Spec
\* The component may have nothing left to do: the bound on nonces is reached.
CHECK_DEADLOCK FALSE
PROPERTIES
    ImplementsRpcCalls
    TimedCallsEnd
