\* Both settings of enableNeighborCache.
CONSTANTS
    Node = {x, y}
    Self = self
    Query = {q1, q2, q3}
    q1 = q1
    q2 = q2
    q3 = q3
    MaxSize = 1
    RttExpirationTime = 2
    Queries <- AllQueries
    MaxTime = 3
SPECIFICATION Spec
INVARIANTS
    IInv
PROPERTIES
    GrowsWithinBounds
    WaitersAreCalled
