SPECIFICATION AOFairSpec
CONSTANTS
    Consumers = {d}
    Stop = stop
    Notifications = {m1, m2, stop}
    ConsumerOps <- WaitOnly
    Controls = {"clear", "wakeUpAll"}
    Urgent = {}
    Workers = {w1, w2}
    None = None
CHECK_DEADLOCK FALSE
INVARIANTS
    OneActivity
    StoppedBeforeDestroyed
PROPERTIES
    ResultArrives
    DestructorEnds
