SPECIFICATION TMFairSpec
CONSTANTS
    c1 = c1
    c2 = c2
    Clients = {c1, c2}
    Targets = {t1, t2}
    Threads = {p1}
    MinCapacity = 1
    MaxCapacity = 1
    HousekeepAge = 2
    Deltas <- NoDeltas
    CapacityBound = 2
    ClientOps <- SharedOps
    Cancellers = {c2}
    None = None
CHECK_DEADLOCK FALSE
INVARIANTS
    TaskListExact
PROPERTIES
    JoinAllReturnsOrCycle
    TasksLeave
