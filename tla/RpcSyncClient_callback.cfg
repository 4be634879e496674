SPECIFICATION FairSpec
CONSTANTS
    Calls = {1, 2}
    Answered = {1, 2}
    Peers = {1, 2}
    NetThreads = {h1}
    threadOf <- MCOwnThread
    peerOf <- MCPeerOf
    NoCall = NoCall
    MaxBroken = 0
PROPERTY CallbackEnds
CHECK_DEADLOCK FALSE
