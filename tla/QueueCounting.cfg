SPECIFICATION Spec
CONSTANTS
    hi = hi  mid = mid  lo = lo  x = x  y = y
    NoItem = NoItem  NoTask = NoTask
    Tasks <- MCTasks
    Items <- OneItem
    Prio <- MCPrio
    OpsOf <- CountingOps
    WaitsOf <- SomeWaits
    IsrOps = {"back", "receive"}
    uxLength = 2
    uxItemSize = 0
    INT8_MAX = 127
    IsrBound = 2
INVARIANTS EveryItemHasAReader EveryPlaceHasAWriter BlockedIsListed LockIsHeld
PROPERTIES WakesInPriorityOrder
