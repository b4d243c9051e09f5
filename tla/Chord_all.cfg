\* Three nodes, with either way to check the predecessor.  The system may stop: two
\* nodes, each alone in a ring of its own and without timers.
CONSTANTS
    None = None
    Node = {0, 1, 2}
    SuccessorListSize = 2
    StabilizeRetry = 1
    CheckPredecessor = {TRUE, FALSE}
    MaxFailures = 1
    MaxCalls = 2
SPECIFICATION Spec
INVARIANTS
    IInv
PROPERTIES
    ResponsibleOnce
    SuccessorGetsCloser
CHECK_DEADLOCK FALSE
