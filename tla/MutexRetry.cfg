SPECIFICATION Spec
CONSTANTS
    hi = hi  mid = mid  lo = lo  m1 = m1  m2 = m2
    Idle = Idle  NoTask = NoTask
    Tasks <- MCTasks
    Mutexes <- MCMutexes
    Recursive <- None
    InitPrio <- MCPrio
    MaxPriority = 3
    Uses <- SharedByAll
    WaitsOf <- TimedWaits
    Victims <- None
    NewPriorities = {}
    RecursionBound = 2
INVARIANTS NoInheritanceWithoutTimeOut
\* An assertion of the code that fails (queue.c:1505, tasks.c:175) stops the system.
CHECK_DEADLOCK FALSE
