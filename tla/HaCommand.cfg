SPECIFICATION CSpec
CONSTANTS
    p1 = p1
    p2 = p2
    k1 = k1
    Requests = {r1}
    Commands = {d1}
    Keys = {k1}
    Peers = {p1, p2}
    WriteList <- OneKey
    ReadList <- BothPeers
    Held <- Diverged
    Offered = {"ZADD"}
    Kinds = {"READ", "BODYREAD", "READ2", "MEMBER2", "CACHE", "HINCRBY", "PEER"}
    DebugSync = FALSE
INVARIANTS
    ReadSeesAcked
    NotFoundAfterAll
    OneVersionMeansBoth
    AnswersTrue
PROPERTY AllAnswered
