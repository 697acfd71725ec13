SPECIFICATION Spec
CONSTANTS
    t1 = t1  t2 = t2  s1 = s1  s2 = s2
    Tasks = {t1, t2}
    Topics = {s1, s2}
    OpsOf <- SameOpsOf
    TopicOf <- SameTopicOf
    NumBuffers = 3
    MaxSubscriptions = 2
    QueueLength = 1
    MaxParallelOps = 2
    IdentifierMax = 3
    Faults = {}
INVARIANTS SubscriptionIsKept
