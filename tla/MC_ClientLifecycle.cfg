CONSTANTS
    p1 = p1
    p2 = p2
    t1 = t1
    t2 = t2
    t3 = t3
    Pids <- MCPids
    Tids <- MCTids
    ThreadsOf <- MCThreadsOf
    TidCap = 1
    MaxRequests = 3
    QueueCap = 2
    BatchCap = 1
    MaxHealth = 3
    Penalty = 2
    Reward = 1
    MaxGen = 1

SPECIFICATION Spec

INVARIANTS
    TypeOK
    HandlesTracked

PROPERTIES
    DeadClientCleaned

CHECK_DEADLOCK FALSE
