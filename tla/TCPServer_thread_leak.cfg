SPECIFICATION ServerSpec
CONSTANTS
    Consumers = {w1}
    Notifications = {n1}
    ConsumerOps <- TimedWaits
    Controls = {"clear", "wakeUpAll"}
    Urgent = {}
    None = None
    MaxThreads = 1
    MaxQueued = 1
    PoolMayRefuse = FALSE
    FactoryFails = TRUE
    AppCalls = {"stop", "destroy"}
INVARIANTS
    ThreadCountExact
CHECK_DEADLOCK FALSE
