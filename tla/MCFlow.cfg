SPECIFICATION FlowSpec
CHECK_DEADLOCK FALSE
CONSTANTS
    Parts = {"map", "acceptor", "pool acceptor", "bridge", "pinger"}
    Threads = {t1, t2, t3, t4}
    Waiters = {t4}
    Keys = {k1, k2}
    Items = {i1, i2, i3}
    NoItem = NoItem
    NoKey = NoKey
    Conns = {c1, c2, c3}
    IPs = {ip1, ip2}
    ClientLimits = {1, 2}
    IPLimits = {1, 2}
    NoConn = NoConn
    Clients = {d1, d2, d3}
    NoClient = NoClient
    Chunked = TRUE
    ShutdownOnFinish = TRUE
    MaxBlocks = 2
    MaxPings = 1
    PeerKeys = {p1, p2, p3}
    NoPeerKey = NoPeerKey
INVARIANTS NoDanglingItem RoomIsKnown ClientsSettled BlocksArrive
PROPERTIES ImplementsLease DestroyTerminates DestructorReturns BridgeEnds StayingIsPinged
