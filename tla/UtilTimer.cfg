SPECIFICATION UTFairSpec
CONSTANTS
    Users = {u1, u2}
    Tasks = {t1}
    Kinds = {"once", "periodic", "fixed"}
    Delays = {0, 1}
    Interval = 1
    MaxTime = 3
    QueueBound = 2
    None = None
CHECK_DEADLOCK FALSE
INVARIANTS
    NoDanglingIterator
    NoMissedWakeup
    NeverEarly
    CancelPurges
PROPERTIES
    CancelledStops
    CommandsFinish
