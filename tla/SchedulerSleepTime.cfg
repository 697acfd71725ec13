SPECIFICATION Spec
CONSTANTS
    a = a  b = b  Idle = Idle
    Tasks <- TwoTasks
    Victims <- NoTasks
    InitPrio <- LowPrio
    MaxPriority = 2
    TickModulus = 8
    Delays = {2, 5}
    OpsOf <- TimeOps
    IsrOps = {}
    NewPriorities = {}
    ExpectedIdleTimeBeforeSleep = 2
    MaximumSuppressedTicks = 9
    PendedBound = 2
    NestingBound = 1
PROPERTIES SleepEndsInTime
