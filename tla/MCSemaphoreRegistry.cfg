SPECIFICATION Spec
CONSTANTS
    p1 = p1
    p2 = p2
    t1 = t1
    t2 = t2
    t3 = t3
    t4 = t4
    k1 = k1
    k2 = k2
    n1 = n1
    n2 = n2
    Processes <- MCProcesses
    Tasks <- MCTasks
    ProcessOf <- MCProcessOf
    Plan <- MCPlan
    Limit = 2
    Threads = 2
INVARIANT TypeOK
INVARIANT KeyLimit
PROPERTY EveryTaskEnds
