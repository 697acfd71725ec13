SPECIFICATION FairSpec
CONSTANTS
    a = a  b = b  Idle = Idle
    Tasks <- TwoTasks
    Victims <- NoTasks
    InitPrio <- LowPrio
    MaxPriority = 2
    TickModulus = 4
    Delays = {1, 3}
    OpsOf <- TimeOps
    IsrOps = {"signal"}
    NewPriorities = {}
    ExpectedIdleTimeBeforeSleep = 2
    MaximumSuppressedTicks = 9
    PendedBound = 1
    NestingBound = 1
INVARIANTS DelaysAreExact
PROPERTIES SleepSkipsNoWake DelayEnds
