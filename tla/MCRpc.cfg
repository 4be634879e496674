SPECIFICATION MCSpec
CONSTANTS
    as = as
    aa = aa
    ra = ra
    pa = pa
    pb = pb
    g1 = g1
    g2 = g2
    s1 = s1
    s2 = s2
    Sends = {as, aa, ra}
    kindOf <- MCKindOf
    toPeer <- MCToPeer
    SendPeers = {pa, pb}
    IdMax = 4
    MaxRequests = 1
    MaxPeerId = 2
    Requests = {q1, q2}
    Responses = {r1}
    NoMsg = NoMsg
    Conns = {k1, k2}
    NoConn = NoConn
    Handlers = {g1, g2}
    NoHandler = NoHandler
    Senders = {s1, s2}
    Disc = Disc
    IO = IO
    realOf <- MCRealOf
    Calls = {1, 2, 3}
    Answered = {1, 2, 3}
    Peers = {1, 2}
    NetThreads = {h1, h2}
    threadOf <- MCTwoThreads
    peerOf <- MCPeerOf
    NoCall = NoCall
    MaxBroken = 1
INVARIANTS CallsFiled IdsFiled RequestsApart OwnedOnce HandlersAlive
PROPERTY OutcomeFinal
CHECK_DEADLOCK FALSE
