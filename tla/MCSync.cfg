SPECIFICATION MCSpec
CONSTANTS
    t1 = t1
    t2 = t2
    t3 = t3
    t4 = t4
    t5 = t5
    LockUsers <- MCLockUsers
    NoLockUser = NoLockUser
    MaxReads = 2
    Threads <- MCThreads
    Calls <- MixedCalls
    m_iQueueMaxSize = 0
    MaxPush = 6
INVARIANTS NoLostWakeup FIFO LocksExclusive
PROPERTIES Delivered PushReturns
CHECK_DEADLOCK FALSE
