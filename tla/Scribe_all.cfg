SPECIFICATION Spec
CONSTANTS
    Node = {1, 2, 3, 4}
    Configs <- AllConfigs
INVARIANTS
    TreeConsistent
    QuietMeansConnected
    DataReachesTree
\* A group without members rests.
CHECK_DEADLOCK FALSE
