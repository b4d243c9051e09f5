\* Ten configurations of a lookup, retried at most once.
CONSTANTS
    Node = {0, 1, 2, 3, 4}
    NoNode = NoNode
    Self = 4
    Starts <- SomeStarts
    Answers <- TwoHops
    Configs <- AllKinds
SPECIFICATION Spec
\* A lookup that is gone does nothing more.
CHECK_DEADLOCK FALSE
INVARIANTS
    LookupConsistent
    ResultProved
    ClosestSiblingsWin
    NeverAskedTwiceIfRemembered
PROPERTIES
    EveryLookupEnds
