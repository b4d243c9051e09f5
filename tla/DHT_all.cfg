\* The application may ask for nothing any more.
CHECK_DEADLOCK FALSE
SPECIFICATION Spec
CONSTANTS
    Node = {0, 1, 2, 3, 4}
    Client = 4
    Value = {1, 2}
    Scenarios <- AllScenarios
INVARIANTS
    AskedOnce
    PutSuccessMeansMajority
    NothingLostNothingFails
    ReadsSeeWrites
    ReplicasRestored
PROPERTIES
    EveryRequestAnswered
