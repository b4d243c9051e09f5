\* Six kinds of calls, two at a time: the safety invariants.
CONSTANTS
    a = a
    b = b
    k1 = k1
    k2 = k2
    Node = {a, b}
    Key = {k1}
    Nonce = {n1, n2}
    NoNode = NoNode
    NoKey = NoKey
    MaxRetries = 1
    Calls <- AllCalls
SPECIFICATION Spec
SYMMETRY Symmetry
\* The component may have nothing left to do: the bound on nonces is reached.
CHECK_DEADLOCK FALSE
INVARIANTS
    BlameIsEarned
    IInv
