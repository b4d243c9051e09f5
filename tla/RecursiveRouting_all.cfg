SPECIFICATION Spec
CONSTANTS
    Node = {1, 2, 3, 4}
    Tables <- AllTables
    HopCountMax = 6
    Configs <- AllConfigs
INVARIANTS
    QuietMeansHandled
    RecordedRouteHasNoLoop
PROPERTIES
    HandledAtClosest
    RoutingEnds
\* Every request may have ended.
CHECK_DEADLOCK FALSE
