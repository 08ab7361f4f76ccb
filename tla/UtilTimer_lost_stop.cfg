SPECIFICATION UTFairSpec
CONSTANTS
    Users = {u1}
    Tasks = {t1}
    Kinds = {"once"}
    Delays = {0}
    Interval = 1
    MaxTime = 2
    QueueBound = 2
    None = None
CHECK_DEADLOCK FALSE
PROPERTIES
    DestructorReturns
