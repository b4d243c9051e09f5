SPECIFICATION Spec
CONSTANTS
    Node = {2, 3, 5, 6, 8, 9}
    Ring = 11
    numberOfLeaves = 4
    QueueLimit = 1
    Configs <- AllConfigs
INVARIANTS
    LeafSetConsistent
    LeafSetFromLastHop
    NothingStuck
PROPERTIES
    RepairBegins
\* A node that is ready, alone and hears of nobody rests.
CHECK_DEADLOCK FALSE
