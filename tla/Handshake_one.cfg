CONSTANTS
    a = a
    b = b
    c1 = c1
    c2 = c2
    c3 = c3
    Nodes <- MCNodes
    Conns <- MCTwoConns
    NoConn = NoConn
    clientOf <- MCClientOf
    HandshakeThreads = 1
    MaxBroken = 0
    MaxShort = 0
SPECIFICATION FairSpec
PROPERTY OneKept
CHECK_DEADLOCK FALSE
