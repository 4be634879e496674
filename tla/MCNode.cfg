SPECIFICATION MCSpec
CONSTANTS
    Callbacks = {1}
    MaxTime = 3
    MaxSubs = 3
    MaxStarts = 1
    MaxLives = 4
    Width = 2
    Magic = 5
    Batches <- MCBatches
    MaxAppends = 3
    m_iMyId = 1
    Creators = {1, 2}
    pathOf <- MCPathOf
    Root <- MCRoot
    Paths <- MCPaths
    DirNames = {"a", "b", "c", "d"}
    ConnWorkers = 2
    Peers = {p1, p2}
    HsThreads = 2
    Requests = {1, 2, 3}
    idOf <- MCIdOf
    Callers = {1}
    Ids = {1, 2}
    WorkThreads = 2
    MaxMsgStarts = 2
INVARIANTS EndsOnce EntriesAgree CandidacyKept LogKept StopSafe StopInOrder DirsSettle
PROPERTIES StopReturns
CHECK_DEADLOCK FALSE
