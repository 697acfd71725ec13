SPECIFICATION FairSpec
CONSTANTS
    hi = hi  mid = mid  lo = lo  m1 = m1  m2 = m2
    Idle = Idle  NoTask = NoTask
    Tasks <- MCTasks
    Mutexes <- MCMutexes
    Recursive <- RecursiveOne
    InitPrio <- MCPrio
    MaxPriority = 3
    Uses <- Shared
    WaitsOf <- MixedWaits
    Victims <- OnlyLo
    NewPriorities = {0}
    RecursionBound = 2
INVARIANTS HoldersAreCounted PriorityFollowsWaiters RunsByPriority
PROPERTIES InversionEnds
\* An assertion of the code that fails (queue.c:1505, tasks.c:175) stops the system.
CHECK_DEADLOCK FALSE
