SPECIFICATION ServerFairSpec
CONSTANTS
    Consumers = {w1, w2, w3}
    Notifications = {n1, n2, n3}
    ConsumerOps <- TimedWaits
    Controls = {"clear", "wakeUpAll"}
    Urgent = {}
    None = None
    MaxThreads = 2
    MaxQueued = 2
    PoolMayRefuse = TRUE
    FactoryFails = TRUE
    AppCalls = {"stop", "destroy"}
INVARIANTS
    ThreadLimitKept
    ConnectionsAccounted
    GuardHolds
PROPERTIES
    FetchedByAThread
    StopEndsThreads
CHECK_DEADLOCK FALSE
