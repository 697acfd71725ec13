SPECIFICATION FairSpec
CONSTANTS
    hi = hi  mid = mid  lo = lo  x = x  y = y
    NoItem = NoItem  NoTask = NoTask
    Tasks <- MCTasks
    Items <- OneItem
    Prio <- MCPrio
    OpsOf <- MailboxOps
    WaitsOf <- SomeWaits
    IsrOps = {"overwrite"}
    uxLength = 1
    uxItemSize = 1
    INT8_MAX = 127
    IsrBound = 1
PROPERTIES FifoSpec TimedCallReturns
