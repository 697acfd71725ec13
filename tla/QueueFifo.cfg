SPECIFICATION Spec
CONSTANTS
    hi = hi  mid = mid  lo = lo  x = x  y = y
    NoItem = NoItem  NoTask = NoTask
    Tasks <- TwoTasks
    Items <- MCItems
    Prio <- MCPrio
    OpsOf <- QueueOps
    WaitsOf <- FewWaits
    IsrOps = {"back", "front", "receive"}
    uxLength = 3
    uxItemSize = 1
    INT8_MAX = 127
    IsrBound = 1
INVARIANTS TypeOK
PROPERTIES FifoSpec
