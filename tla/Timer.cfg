SPECIFICATION TimerFairSpec
CONSTANTS
    a1 = a1
    a2 = a2
    Apps = {a1, a2}
    AppOps <- OwnerOps
    CallbackOps = {"restartZero", "setZero", "setPeriodic"}
    Intervals = {0, 1, 3}
    StartInterval = 1
    PeriodicInterval = 1
    PoolMayRefuse = TRUE
    MaxLag = 4
INVARIANTS
    QuietWhenStopped
    OnGrid
PROPERTIES
    StopReturns
    KeepsFiring
