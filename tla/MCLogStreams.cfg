SPECIFICATION StreamsSpec
CONSTANTS
    d1 = d1
    d2 = d2
    s1 = s1
    s2 = s2
    debug = debug
    info = info
    none = none
    Dispatchers = {d1, d2}
    Sessions = {s1, s2}
    Levels = {info, debug}
    NoLevel = none
    FirstLevel = info
    QueueSize = 1
    MaxMsgs = 3
SYMMETRY Symmetry
INVARIANTS
    RemovalsExact
    OrderKept
    LevelRestored
CHECK_DEADLOCK FALSE
