SPECIFICATION FairSpec
CONSTANTS
    NoThread = NoThread
    Owner = c1
    Workers = {w1, w2}
    Clients = {c1, c2}
    EmptyTasks = {1}
    MaxTasks = 2
INVARIANTS RunOnce StopSuffices
PROPERTIES WaitAllTaken QueueSpec TasksRun DestructorJoins
CHECK_DEADLOCK FALSE
