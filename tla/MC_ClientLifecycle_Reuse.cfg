CONSTANTS
    p1 = p1
    p2 = p2
    t1 = t1
    t2 = t2
    t3 = t3
    Pids <- MCPids
    Tids <- MCTids
    ThreadsOf <- MCThreadsOf
    TidCap = 1
    MaxRequests = 2
    QueueCap = 2
    BatchCap = 1
    MaxHealth = 3
    Penalty = 2
    Reward = 1
    MaxGen = 2

SPECIFICATION Spec

PROPERTY GcUntunesOnlyDead

CHECK_DEADLOCK FALSE
