SPECIFICATION LoadSpec
CONSTANTS
    r1 = r1
    r2 = r2
    r3 = r3
    w1 = w1
    Workers = {w1}
    Requests = {r1, r2}
    Kinds <- OnlyReads
    SessionIds = {s1}
    Limit = 1
    Window = 2
    MaxTicks = 2
    MaxExits = 0
PROPERTY LimitedAnswered
CHECK_DEADLOCK FALSE
