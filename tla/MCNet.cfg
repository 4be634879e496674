SPECIFICATION MCSpec
CONSTANTS
    Msgs = {m1, m2}
    NoMsg = NoMsg
    MsgLen = 2
    SockCap = 1
    PipeCap = 1
    a = a
    b = b
    c1 = c1
    c2 = c2
    c3 = c3
    HeaderSize = 2
    MsgLens <- MCMsgLens
    Nodes = {a, b}
    Conns = {c1, c2, c3}
    NoConn = NoConn
    clientOf <- MCClientOf
    HandshakeThreads = 1
    MaxBroken = 1
    MaxShort = 1
INVARIANTS FIFO EventsAnnounced BegunResumes Framed ClientHasServer KeptAlive
PROPERTIES TrafficServed Settles
CHECK_DEADLOCK FALSE
