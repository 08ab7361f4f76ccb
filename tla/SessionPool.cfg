SPECIFICATION SPFairSpec
CONSTANTS
    Clients = {c1, c2, c3}
    Tuners = {c1}
    Closers = {c1, c2}
    Sessions = {s1, s2}
    MinSessions = 1
    MaxSessions = 2
    None = None
CHECK_DEADLOCK FALSE
INVARIANTS
    SessionsAccounted
    IdleSessionsClean
    ShutdownCloses
PROPERTIES
    CallsReturn
