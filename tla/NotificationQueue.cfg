SPECIFICATION FairSpec
CONSTANTS
    c1 = c1
    c2 = c2
    c3 = c3
    Consumers = {c1, c2, c3}
    Notifications = {n1, n2, n3, n4}
    ConsumerOps <- MixedOps
    Controls = {"dispatch", "clear", "wakeUpAll"}
    Urgent = {n4}
    None = None
INVARIANTS
    NothingLost
    NoIdleBacklog
    WaitersAccounted
PROPERTIES
    Delivered
