SPECIFICATION LoadSpec
CONSTANTS
    r1 = r1
    r2 = r2
    r3 = r3
    w1 = w1
    Workers = {w1, w2}
    Requests = {r1, r2, r3, r4, r5}
    Kinds <- AllKinds
    SessionIds = {s1}
    Limit = 2
    Window = 2
    MaxTicks = 3
    MaxExits = 1
INVARIANTS
    BurstBounded
    IssuerKnows
    RequestsAccounted
PROPERTIES
    RequestsAnswered
    WorkersReplaced
CHECK_DEADLOCK FALSE
