SPECIFICATION Spec
CONSTANTS
    a = a  b = b  Idle = Idle
    Tasks <- TwoTasks
    Victims <- TwoTasks
    InitPrio <- HighPrio
    MaxPriority = 2
    TickModulus = 4
    Delays = {1, 2}
    OpsOf <- ControlOps
    IsrOps = {"resume"}
    NewPriorities = {0, 1, 2}
    ExpectedIdleTimeBeforeSleep = 2
    MaximumSuppressedTicks = 9
    PendedBound = 1
    NestingBound = 2
INVARIANTS TasksAreListed ReadyBitsAreExact RunningIsHighest UnblockTimeIsExact
