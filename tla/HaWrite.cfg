SPECIFICATION Spec
CONSTANTS
    p1 = p1
    p2 = p2
    k1 = k1
    Requests = {r1, r2}
    Keys = {k1}
    Peers = {p1, p2}
    WriteList <- OneKey
    Held <- Empty
    Offered = {"DEL", "SADD", "ZADD"}
    DebugSync = FALSE
INVARIANTS
    AckedCovered
PROPERTY Implements
SYMMETRY Symmetry
