SPECIFICATION FairSpec
CONSTANTS
    c1 = c1
    c2 = c2
    Clients = {c1, c2}
    Targets = {t1, t2}
    Threads = {p1, p2}
    MinCapacity = 1
    MaxCapacity = 2
    HousekeepAge = 1
    Deltas <- PlusMinusOne
    CapacityBound = 2
    ClientOps <- OwnerOps
    None = None
CHECK_DEADLOCK FALSE
INVARIANTS
    TypeOK
    AssertionsHold
    AcceptedTargetHeld
    KeepsMinimum
    StopAllWaits
    PoolInv
PROPERTIES
    ImplementsExecutor
    AcceptedRuns
    MutexReleased
