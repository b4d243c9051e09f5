SPECIFICATION Spec
CONSTANTS
    Node = {1, 2, 3, 4, 5}
    maxNeighbors = 3
    minNeighbors = 2
    InitialTokens = 1
    maxHopCount = 4
    Configs <- AllConfigs
INVARIANTS
    LinksAgree
    TokensConserved
    AnswersReturn
\* Every message may wait for a token.
CHECK_DEADLOCK FALSE
