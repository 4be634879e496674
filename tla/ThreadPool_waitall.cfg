SPECIFICATION Spec
CONSTANTS
    NoThread = NoThread
    Owner = c1
    Workers = {w1, w2}
    Clients = {c1}
    EmptyTasks = {}
    MaxTasks = 2
PROPERTY WaitAllComplete
CHECK_DEADLOCK FALSE
