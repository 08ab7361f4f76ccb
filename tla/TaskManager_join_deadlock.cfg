SPECIFICATION TMFairSpec
CONSTANTS
    c1 = c1
    c2 = c2
    Clients = {c1, c2}
    Targets = {t1, t2}
    Threads = {p1, p2}
    MinCapacity = 1
    MaxCapacity = 2
    HousekeepAge = 2
    Deltas <- NoDeltas
    CapacityBound = 2
    ClientOps <- SharedOps
    Cancellers = {}
    None = None
CHECK_DEADLOCK FALSE
PROPERTIES
    JoinAllReturns
