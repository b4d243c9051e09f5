SPECIFICATION Spec
CONSTANTS
    Node = {1, 2, 3, 4, 5, 6}
    Key = {0, 1, 2, 3, 4, 5, 6, 7}
    Dist <- Xor
    SiblingSize = 2
    k = 1
    Candidates = 1
    Configs <- AllConfigs
INVARIANTS
    TablesConsistent
    SiblingsReported
    FindNodeReturnsClosest
PROPERTIES
    SiblingsOnlyGetCloser
    JoinEnds
